---------------------------- MODULE PatchProofs ----------------------------
(***************************************************************************)
(* Theorems about PatchRun, for every set of carriers, keys and values,    *)
(* and lists of every length.                                              *)
(*                                                                         *)
(* Each loop of the code is a loop of actions, so what it comes to is an   *)
(* invariant: what has been done of it so far, and what is left.           *)
(***************************************************************************)
EXTENDS PatchRun, FunctionTheorems, NaturalsInduction, WellFoundedInduction, TLAPS

-----------------------------------------------------------------------------
(* The invariant *)

Target  == [name : Carrier, entry : ListEntry, reason : {"configured", "detected"}]
Alone   == [name : Carrier, outcome : {"missing", "certified"}]
Reports == [name : Carrier, keys : Nat, apn : {"disabled", "present", "added"}]

Asked == Names(cfg.carriers) \o present

TypeOK ==
    /\ IsListDir(dir) /\ cfg \in ListConfig /\ present \in Seq(Carrier)
    /\ pc \in {"plan", "others", "own", "patch", "record", "done", "failed"}
    /\ todo \in Seq(Carrier)
    /\ targets \in Seq(Target) /\ left \in Seq(Alone)
    /\ IsListDir(out)
    /\ at \in Nat /\ changed \in Nat
    /\ reports \in Seq(Reports)
    /\ pass \in {1, 2}

\* What the loop of plan.rs has put in its lists is there for a reason.
PlanSound ==
    /\ \A i \in DOMAIN targets :
          LET name == targets[i].name
          IN  /\ name \in ToSet(Asked)
              /\ Decide(name) = targets[i].reason
              /\ targets[i].entry = EntryOf(name)
              /\ Stock(name) \in {"plain", "certified"}
              /\ ~LeftAlone(name)
    /\ \A i, j \in DOMAIN targets : targets[i].name = targets[j].name => i = j
    /\ \A i \in DOMAIN left :
          LET name == left[i].name
          IN  /\ name \in ToSet(Asked)
              /\ Decide(name) # "none"
              /\ LeftAlone(name)
              /\ left[i].outcome = Stock(name)

Considered(c) == Decide(c) = "none" \/ Has(targets, c) \/ Has(left, c)

\* Nobody who was asked for is forgotten.
PlanWhole ==
    /\ pc = "plan" =>
          /\ ToSet(todo) \subseteq ToSet(Asked)
          /\ \A c \in ToSet(Asked) : c \in ToSet(todo) \/ Considered(c)
    /\ pc \notin {"plan", "failed"} => \A c \in ToSet(Asked) : Considered(c)

\* Is there anything written?
Writing == pc \in {"others", "own", "patch", "record"} \/ (pc = "done" /\ targets # <<>>)

Unwritten ==
    /\ pc \in {"others", "own", "patch", "record"} => targets # <<>>
    /\ ~Writing /\ pc # "failed" => out = NoFiles /\ reports = <<>> /\ changed = 0

\* The settings o are s, patched as e says.
PatchedTo(s, o, e) ==
    /\ o.name = s.name
    /\ SettingsMap(o) = Maps!PatchSettings(SettingsMap(s), EntryMap(e))

\* How far the writing has come.
SoFar ==
    /\ out.ver = dir.ver + 1
    /\ Len(out.others) = Len(dir.others)
    /\ at \in 1 .. Len(dir.others) + 1
    /\ pc \in {"own", "record", "done"} => at = Len(dir.others) + 1
    /\ pc = "others" \/ (pc = "patch" /\ at <= Len(dir.others)) => out.own = NoFiles.own

\* In others.pb, the targets before at are patched.
OthersDone ==
    \A i \in DOMAIN dir.others :
        IF i < at /\ Has(targets, dir.others[i].name)
        THEN PatchedTo(dir.others[i], out.others[i], EntryOf(dir.others[i].name))
        ELSE out.others[i] = dir.others[i]

\* The targets' own files are patched, or in todo.
OwnDone ==
    /\ \A c \in DOMAIN out.own :
          /\ Has(targets, c) /\ c \in DOMAIN dir.own
          /\ out.own[c].ver = dir.own[c].ver + 1
          /\ PatchedTo(dir.own[c].set, out.own[c].set, EntryOf(c))
    /\ pc = "own" \/ (pc = "patch" /\ at > Len(dir.others)) =>
          /\ \A c \in ToSet(todo) : Has(targets, c)
          /\ \A c \in DOMAIN dir.own : Has(targets, c) => c \in DOMAIN out.own \cup ToSet(todo)
    /\ pc \in {"record", "done"} =>
          \A c \in DOMAIN dir.own : Has(targets, c) => c \in DOMAIN out.own

Written == Writing => SoFar /\ OthersDone /\ OwnDone

\* Does the map m hold what w says?
Holds(m, w, k) == k \in DOMAIN m /\ m[k] = w[k]

Source == IF at <= Len(dir.others) THEN dir.others[at] ELSE dir.own[Head(todo)].set

IsJob(j) ==
    /\ j = [set |-> j.set, name |-> j.name, entry |-> j.entry, bools |-> j.bools,
            arrays |-> j.arrays, written |-> j.written]
    /\ j.set \in ListSettings /\ j.written \in Nat

\* The job j writes what its entry asks for over the settings s: so far the
\* keys that it does not hold any more, and it has counted if that made a
\* difference.
JobOf(j, s) ==
    LET e == j.entry
        w == Flags2Write(e)
        was == KeysMap(s.keys)
        flags == DOMAIN w \ j.bools
        lists == DOMAIN e.arrays \ j.arrays
    IN  /\ IsJob(j)
        /\ j.bools \subseteq DOMAIN w /\ j.arrays \subseteq DOMAIN e.arrays
        /\ j.bools # {} => j.arrays = DOMAIN e.arrays
        /\ j.set.name = s.name /\ j.set.apns = s.apns
        /\ KeysMap(j.set.keys) =
              Maps!Over(Maps!Only(e.arrays, lists), Maps!Over(Maps!Only(w, flags), was))
        /\ j.written = 0 =>
              /\ j.set.keys = s.keys
              /\ \A k \in flags : Holds(was, w, k)
              /\ \A k \in lists : Holds(was, e.arrays, k)
        /\ j.written # 0 =>
              \/ \E k \in flags : ~Holds(was, w, k)
              \/ \E k \in lists : ~Holds(was, e.arrays, k)

JobSound ==
    pc = "patch" =>
        /\ at > Len(dir.others) =>
              todo # <<>> /\ Head(todo) \in DOMAIN dir.own /\ job.name = Head(todo)
        /\ Has(targets, job.name) /\ job.name = Source.name
        /\ job.entry = EntryOf(job.name)
        /\ JobOf(job, Source)

\* Are the settings s what e asks for already?
KeysThere(s, e) ==
    LET w == Maps!Configs2Write(EntryMap(e))
    IN  \A k \in DOMAIN w : Holds(KeysMap(s.keys), w, k)
ApnThere(s, e) == e.apn => "ims" \in ToSet(s.apns)

\* The report r tells what became of the settings s.
Tells(r, s) ==
    LET e == EntryOf(s.name)
    IN  /\ r.name = s.name
        /\ (r.keys = 0) = (WritesOnce(e) /\ KeysThere(s, e))
        /\ (r.apn = "added") = ~ApnThere(s, e)

\* The settings that have been patched.
Finished ==
    {dir.others[i] : i \in {j \in DOMAIN dir.others : j < at /\ Has(targets, dir.others[j].name)}}
        \cup {dir.own[c].set : c \in DOMAIN out.own}

\* The settings of c that are patched first.
First(c) == IF Has(dir.others, c) THEN dir.others[Named(dir.others, c)] ELSE dir.own[c].set

Reported ==
    Writing =>
        /\ \A s \in Finished : \E i \in DOMAIN reports : Tells(reports[i], s)
        /\ \A i \in DOMAIN reports : \E s \in Finished : Tells(reports[i], s)
        /\ \A c \in Carrier : Has(reports, c) => Tells(reports[Named(reports, c)], First(c))
        /\ (changed = 0) = \A i \in DOMAIN reports : Changes(reports[i]) = 0

EntryFor(i) == PatchedEntry(reports[Named(reports, targets[i].name)], targets[i].reason)

Recorded ==
    /\ pc \in {"plan", "others", "own", "patch"} => record = <<>>
    /\ pc = "record" =>
          /\ record \in Seq({EntryFor(i) : i \in DOMAIN targets})
          /\ Len(record) + Len(todo) = Len(targets)
          /\ \A i \in 1 .. Len(record) : record[i] = EntryFor(i)
          /\ \A i \in 1 .. Len(todo) : todo[i] = targets[Len(record) + i].name
    /\ pc = "done" =>
          /\ DOMAIN record = 1 .. Len(targets) + Len(left)
          /\ \A i \in 1 .. Len(targets) : record[i] = EntryFor(i)
          /\ \A i \in 1 .. Len(left) : record[Len(targets) + i] = left[i]

ToBePatched(c) ==
    Decide(c) # "none" /\ Stock(c) \in {"plain", "certified"} /\ ~LeftAlone(c)

\* In the second pass there is nothing left to do.
SecondPass ==
    pass = 2 =>
        \A c \in ToSet(Asked) : ToBePatched(c) =>
            /\ \A i \in DOMAIN dir.others :
                  dir.others[i].name = c =>
                      KeysThere(dir.others[i], EntryOf(c)) /\ ApnThere(dir.others[i], EntryOf(c))
            /\ c \in DOMAIN dir.own =>
                  KeysThere(dir.own[c].set, EntryOf(c)) /\ ApnThere(dir.own[c].set, EntryOf(c))

IInv ==
    /\ TypeOK
    /\ PlanSound /\ PlanWhole
    /\ Unwritten /\ Written /\ JobSound
    /\ Reported /\ Recorded
    /\ SecondPass
-----------------------------------------------------------------------------
(* Lists *)

\* A set of numbers has a least one.
LEMMA MinIs ==
    ASSUME NEW I, I \subseteq Nat, I # {}
    PROVE  Min(I) \in I /\ \A i \in I : Min(I) <= i
<1>1. PICK x \in I : \A y \in I : ~ (<<y, x>> \in OpToRel(<, Nat))
  BY NatLessThanWellFounded, WFMin
<1>2. ASSUME NEW y \in I, y < x PROVE FALSE
  <2>1. <<y, x>> \in Nat \X Nat /\ <<y, x>>[1] = y /\ <<y, x>>[2] = x
    OBVIOUS
  <2>2. <<y, x>> \in {ss \in Nat \X Nat : ss[1] < ss[2]}
    BY <1>2, <2>1, Zenon
  <2> QED
    BY <1>1, <2>2, Zenon DEF OpToRel
<1>3. \A y \in I : x <= y
  BY <1>2
<1> QED
  BY <1>3 DEF Min

\* Named is the first of the name.
LEMMA NamedIs ==
    ASSUME NEW S, NEW list \in Seq(S), NEW name
    PROVE  /\ Named(list, name) \in 0 .. Len(list)
           /\ Has(list, name) <=> \E i \in DOMAIN list : list[i].name = name
           /\ Has(list, name) => /\ Named(list, name) \in DOMAIN list
                                 /\ list[Named(list, name)].name = name
           /\ \A i \in DOMAIN list : list[i].name = name => Named(list, name) <= i
<1> DEFINE I == {i \in 1 .. Len(list) : list[i].name = name}
<1>1. Named(list, name) = IF I # {} THEN Min(I) ELSE 0
  BY DEF Named, SelectInSeq
<1>2. CASE I = {}
  BY <1>1, <1>2 DEF Has
<1>3. CASE I # {}
  <2>1. I \subseteq Nat
    OBVIOUS
  <2> HIDE DEF I
  <2>2. Min(I) \in I /\ \A i \in I : Min(I) <= i
    BY <1>3, <2>1, MinIs
  <2> QED
    BY <1>1, <1>3, <2>2 DEF Has, I
<1> QED
  BY <1>2, <1>3

\* KeyAt is the first of the key.
LEMMA KeyAtIs ==
    ASSUME NEW S, NEW keys \in Seq(S), NEW k
    PROVE  /\ KeyAt(keys, k) \in 0 .. Len(keys)
           /\ KeyAt(keys, k) # 0 <=> \E i \in DOMAIN keys : keys[i].key = k
           /\ KeyAt(keys, k) # 0 => /\ KeyAt(keys, k) \in DOMAIN keys
                                    /\ keys[KeyAt(keys, k)].key = k
           /\ \A i \in DOMAIN keys : keys[i].key = k => KeyAt(keys, k) <= i
<1> DEFINE I == {i \in 1 .. Len(keys) : keys[i].key = k}
<1>1. KeyAt(keys, k) = IF I # {} THEN Min(I) ELSE 0
  BY DEF KeyAt, SelectInSeq
<1>2. CASE I = {}
  BY <1>1, <1>2
<1>3. CASE I # {}
  <2>1. I \subseteq Nat
    OBVIOUS
  <2> HIDE DEF I
  <2>2. Min(I) \in I /\ \A i \in I : Min(I) <= i
    BY <1>3, <2>1, MinIs
  <2> QED
    BY <1>1, <1>3, <2>2 DEF I
<1> QED
  BY <1>2, <1>3

\* The first one is the one nothing before it matches.
LEMMA NamedUnique ==
    ASSUME NEW S, NEW list \in Seq(S), NEW name, NEW i \in DOMAIN list,
           list[i].name = name, \A j \in DOMAIN list : j < i => list[j].name # name
    PROVE  Named(list, name) = i
BY NamedIs

LEMMA KeyAtUnique ==
    ASSUME NEW S, NEW keys \in Seq(S), NEW k, NEW i \in DOMAIN keys,
           keys[i].key = k, \A j \in DOMAIN keys : j < i => keys[j].key # k
    PROVE  KeyAt(keys, k) = i
BY KeyAtIs

\* What is appended is found if there was nothing of the name.
LEMMA NamedAppend ==
    ASSUME NEW S, NEW list \in Seq(S), NEW x \in S, NEW name
    PROVE  /\ Has(list, name) => Named(Append(list, x), name) = Named(list, name)
           /\ ~Has(list, name) /\ x.name = name => Named(Append(list, x), name) = Len(list) + 1
           /\ Has(Append(list, x), name) <=> Has(list, name) \/ x.name = name
<1> DEFINE more == Append(list, x)
<1>1. /\ more \in Seq(S)
      /\ DOMAIN list = 1 .. Len(list) /\ DOMAIN more = 1 .. Len(list) + 1
      /\ more[Len(list) + 1] = x /\ \A i \in DOMAIN list : more[i] = list[i]
  OBVIOUS
<1> HIDE DEF more
<1>2. Has(list, name) => Named(more, name) = Named(list, name)
  <2>1. SUFFICES ASSUME Has(list, name) PROVE Named(more, name) = Named(list, name)
    OBVIOUS
  <2> DEFINE i == Named(list, name)
  <2>2. i \in DOMAIN list /\ list[i].name = name /\ \A j \in DOMAIN list : list[j].name = name => i <= j
    BY <2>1, NamedIs
  <2> HIDE DEF i
  <2>3. i \in DOMAIN more /\ more[i].name = name
    BY <1>1, <2>2
  <2>4. \A j \in DOMAIN more : j < i => more[j].name # name
    BY <1>1, <2>2
  <2>5. Named(more, name) = i
    BY <1>1, <2>3, <2>4, NamedUnique
  <2> QED
    BY <2>5 DEF i
<1>3. ~Has(list, name) /\ x.name = name => Named(more, name) = Len(list) + 1
  <2>1. SUFFICES ASSUME ~Has(list, name), x.name = name PROVE Named(more, name) = Len(list) + 1
    OBVIOUS
  <2>2. \A j \in DOMAIN list : list[j].name # name
    BY <2>1, NamedIs
  <2>3. Len(list) + 1 \in DOMAIN more /\ more[Len(list) + 1].name = name
    BY <1>1, <2>1
  <2>4. \A j \in DOMAIN more : j < Len(list) + 1 => more[j].name # name
    BY <1>1, <2>2
  <2> QED
    BY <1>1, <2>3, <2>4, NamedUnique
<1>4. Has(more, name) <=> Has(list, name) \/ x.name = name
  <2>1. Has(list, name) <=> \E i \in DOMAIN list : list[i].name = name
    BY NamedIs
  <2>2. Has(more, name) <=> \E i \in DOMAIN more : more[i].name = name
    BY <1>1, NamedIs
  <2>3. (\E i \in DOMAIN more : more[i].name = name)
          <=> (\E i \in DOMAIN list : list[i].name = name) \/ x.name = name
    BY <1>1
  <2> QED
    BY <2>1, <2>2, <2>3
<1> QED
  BY <1>2, <1>3, <1>4 DEF more

\* The names of a list.
LEMMA NamesAre ==
    ASSUME NEW list, NEW S, list \in Seq(S), NEW name
    PROVE  name \in ToSet(Names(list)) <=> Has(list, name)
<1>1. Has(list, name) <=> \E i \in DOMAIN list : list[i].name = name
  BY NamedIs
<1> QED
  BY <1>1 DEF Names, ToSet
-----------------------------------------------------------------------------
(* Keys *)

Pair == [key : Key, val : Value]

\* A map is one by its domain and its values.
LEMMA PartialElim ==
    ASSUME NEW S, NEW T, NEW f \in Maps!Partial(S, T)
    PROVE  f \in [DOMAIN f -> T] /\ DOMAIN f \subseteq S
BY DEF Maps!Partial

\* The map of a list of keys: the first entry of a key counts.
LEMMA KeysMapIs ==
    ASSUME NEW keys \in Seq(Pair), NEW k
    PROVE  /\ k \in DOMAIN KeysMap(keys) <=> KeyAt(keys, k) # 0
           /\ k \in DOMAIN KeysMap(keys) =>
                 /\ KeyAt(keys, k) \in DOMAIN keys
                 /\ KeysMap(keys)[k] = keys[KeyAt(keys, k)].val
<1>1. DOMAIN KeysMap(keys) = {keys[i].key : i \in DOMAIN keys}
  BY DEF KeysMap
<1>2. k \in DOMAIN KeysMap(keys) => KeysMap(keys)[k] = keys[KeyAt(keys, k)].val
  BY DEF KeysMap
<1>3. k \in DOMAIN KeysMap(keys) <=> \E i \in DOMAIN keys : keys[i].key = k
  BY <1>1
<1> QED
  BY <1>2, <1>3, KeyAtIs

IsMap(f) == f = [x \in DOMAIN f |-> f[x]]

\* A list of keys reads as the map f if it has the keys of f, with its values.
LEMMA ReadsAs ==
    ASSUME NEW keys \in Seq(Pair), NEW f, IsMap(f),
           \A k : k \in DOMAIN f <=> KeyAt(keys, k) # 0,
           \A k \in DOMAIN f : keys[KeyAt(keys, k)].val = f[k]
    PROVE  KeysMap(keys) = f
<1>1. \A k : k \in DOMAIN KeysMap(keys) <=> k \in DOMAIN f
  BY KeysMapIs
<1>2. DOMAIN KeysMap(keys) = DOMAIN f
  BY <1>1
<1>3. \A k \in DOMAIN f : KeysMap(keys)[k] = f[k]
  BY <1>2, KeysMapIs
<1>4. KeysMap(keys) = [k \in DOMAIN KeysMap(keys) |-> KeysMap(keys)[k]]
  BY DEF KeysMap
<1>5. [k \in DOMAIN KeysMap(keys) |-> KeysMap(keys)[k]] = [k \in DOMAIN f |-> f[k]]
  BY <1>2, <1>3
<1> QED
  BY <1>4, <1>5 DEF IsMap

\* The map of one key, laid over another.
One(k, v) == [x \in {k} |-> v]

\* A key that is not there is appended.
LEMMA KeysMapAppend ==
    ASSUME NEW keys \in Seq(Pair), NEW k \in Key, NEW v \in Value, KeyAt(keys, k) = 0
    PROVE  KeysMap(Append(keys, [key |-> k, val |-> v])) = Maps!Over(One(k, v), KeysMap(keys))
<1> DEFINE new == [key |-> k, val |-> v]
           more == Append(keys, new)
           f == Maps!Over(One(k, v), KeysMap(keys))
<1>1. new \in Pair /\ new.key = k /\ new.val = v
  BY DEF Pair
<1>2. /\ IsMap(f)
      /\ DOMAIN f = {k} \cup DOMAIN KeysMap(keys)
      /\ f[k] = v
      /\ \A x \in DOMAIN KeysMap(keys) : x # k => f[x] = KeysMap(keys)[x]
  <2> DEFINE g == KeysMap(keys)
  <2>1. f = Maps!Over(One(k, v), g)
    OBVIOUS
  <2> HIDE DEF f, g
  <2>2. /\ IsMap(f)
        /\ DOMAIN f = {k} \cup DOMAIN g
        /\ f[k] = v
        /\ \A x \in DOMAIN g : x # k => f[x] = g[x]
    BY <2>1 DEF Maps!Over, One, IsMap
  <2> QED
    BY <2>2 DEF g
<1> HIDE DEF new, f
<1>3. /\ more \in Seq(Pair)
      /\ DOMAIN keys = 1 .. Len(keys) /\ DOMAIN more = 1 .. Len(keys) + 1
      /\ more[Len(keys) + 1] = new /\ \A i \in DOMAIN keys : more[i] = keys[i]
  BY <1>1
<1> HIDE DEF more
<1>4. KeyAt(more, k) = Len(keys) + 1
  <2>1. \A j \in DOMAIN keys : keys[j].key # k
    BY KeyAtIs
  <2>2. Len(keys) + 1 \in DOMAIN more /\ more[Len(keys) + 1].key = k
    BY <1>1, <1>3
  <2>3. \A j \in DOMAIN more : j < Len(keys) + 1 => more[j].key # k
    BY <1>3, <2>1
  <2> QED
    BY <1>3, <2>2, <2>3, KeyAtUnique
<1>5. ASSUME NEW x, x # k PROVE KeyAt(more, x) = KeyAt(keys, x)
  <2>1. CASE KeyAt(keys, x) = 0
    <3>1. \A j \in DOMAIN more : more[j].key # x
      BY <1>1, <1>3, <1>5, <2>1, KeyAtIs
    <3> QED
      BY <1>3, <2>1, <3>1, KeyAtIs
  <2>2. CASE KeyAt(keys, x) # 0
    <3> DEFINE i == KeyAt(keys, x)
    <3>1. i \in DOMAIN keys /\ keys[i].key = x /\ \A j \in DOMAIN keys : keys[j].key = x => i <= j
      BY <2>2, KeyAtIs
    <3> HIDE DEF i
    <3>2. i \in DOMAIN more /\ more[i].key = x
      BY <1>3, <3>1
    <3>3. \A j \in DOMAIN more : j < i => more[j].key # x
      BY <1>3, <3>1
    <3>4. KeyAt(more, x) = i
      BY <1>3, <3>2, <3>3, KeyAtUnique
    <3> QED
      BY <3>4 DEF i
  <2> QED
    BY <2>1, <2>2
<1>6. \A x : x \in DOMAIN f <=> KeyAt(more, x) # 0
  <2>1. \A x : x # k => (x \in DOMAIN f <=> KeyAt(more, x) # 0)
    BY <1>2, <1>5, KeysMapIs
  <2>2. k \in DOMAIN f /\ KeyAt(more, k) # 0
    BY <1>2, <1>4
  <2> QED
    BY <2>1, <2>2
<1>7. \A x \in DOMAIN f : more[KeyAt(more, x)].val = f[x]
  <2>1. more[KeyAt(more, k)].val = f[k]
    BY <1>1, <1>2, <1>3, <1>4
  <2>2. ASSUME NEW x \in DOMAIN f, x # k PROVE more[KeyAt(more, x)].val = f[x]
    <3>1. x \in DOMAIN KeysMap(keys)
      BY <1>2, <2>2
    <3>2. KeyAt(keys, x) \in DOMAIN keys /\ KeysMap(keys)[x] = keys[KeyAt(keys, x)].val
      BY <3>1, KeysMapIs
    <3> QED
      BY <1>2, <1>3, <1>5, <2>2, <3>1, <3>2
  <2> QED
    BY <2>1, <2>2
<1>8. KeysMap(more) = f
  BY <1>2, <1>3, <1>6, <1>7, ReadsAs
<1> QED
  BY <1>8 DEF more, new, f

\* A key that is there gets the value in its first entry.
LEMMA KeysMapUpdate ==
    ASSUME NEW keys \in Seq(Pair), NEW k \in Key, NEW v \in Value, KeyAt(keys, k) # 0
    PROVE  LET new == [keys EXCEPT ![KeyAt(keys, k)].val = v]
           IN  new \in Seq(Pair) /\ KeysMap(new) = Maps!Over(One(k, v), KeysMap(keys))
<1> DEFINE at0 == KeyAt(keys, k)
           new == [keys EXCEPT ![at0].val = v]
           f == Maps!Over(One(k, v), KeysMap(keys))
<1>1. at0 \in DOMAIN keys /\ keys[at0].key = k
  BY KeyAtIs
<1>2. /\ IsMap(f)
      /\ DOMAIN f = {k} \cup DOMAIN KeysMap(keys)
      /\ f[k] = v
      /\ \A x \in DOMAIN KeysMap(keys) : x # k => f[x] = KeysMap(keys)[x]
  <2> DEFINE g == KeysMap(keys)
  <2>1. f = Maps!Over(One(k, v), g)
    OBVIOUS
  <2> HIDE DEF f, g
  <2>2. /\ IsMap(f)
        /\ DOMAIN f = {k} \cup DOMAIN g
        /\ f[k] = v
        /\ \A x \in DOMAIN g : x # k => f[x] = g[x]
    BY <2>1 DEF Maps!Over, One, IsMap
  <2> QED
    BY <2>2 DEF g
<1> HIDE DEF at0, f
<1>3. /\ new \in Seq(Pair)
      /\ DOMAIN new = DOMAIN keys /\ Len(new) = Len(keys)
      /\ \A i \in DOMAIN keys : new[i].key = keys[i].key
      /\ \A i \in DOMAIN keys : i # at0 => new[i] = keys[i]
      /\ new[at0].val = v
  <2> DEFINE old == keys[at0]
             entry == [old EXCEPT !.val = v]
  <2>1. old \in Pair
    BY <1>1
  <2> HIDE DEF old
  <2>2. entry \in Pair /\ entry.key = old.key /\ entry.val = v
    BY <2>1 DEF Pair
  <2>3. new = [keys EXCEPT ![at0] = entry]
    BY <1>1 DEF old
  <2> HIDE DEF new, entry
  <2>4. new \in Seq(Pair) /\ DOMAIN new = DOMAIN keys /\ Len(new) = Len(keys)
    BY <1>1, <2>2, <2>3
  <2>5. new[at0] = entry /\ \A i \in DOMAIN keys : i # at0 => new[i] = keys[i]
    BY <1>1, <2>3
  <2> QED
    BY <1>1, <2>2, <2>4, <2>5 DEF old
<1> HIDE DEF new
<1>4. \A x : KeyAt(new, x) = KeyAt(keys, x)
  <2>1. SUFFICES ASSUME NEW x PROVE KeyAt(new, x) = KeyAt(keys, x)
    OBVIOUS
  <2>2. CASE KeyAt(keys, x) = 0
    <3>1. \A j \in DOMAIN new : new[j].key # x
      BY <1>3, <2>2, KeyAtIs
    <3> QED
      BY <1>3, <2>2, <3>1, KeyAtIs
  <2>3. CASE KeyAt(keys, x) # 0
    <3> DEFINE i == KeyAt(keys, x)
    <3>1. i \in DOMAIN keys /\ keys[i].key = x /\ \A j \in DOMAIN keys : keys[j].key = x => i <= j
      BY <2>3, KeyAtIs
    <3> HIDE DEF i
    <3>2. i \in DOMAIN new /\ new[i].key = x
      BY <1>3, <3>1
    <3>3. \A j \in DOMAIN new : j < i => new[j].key # x
      BY <1>3, <3>1
    <3>4. new \in Seq(Pair)
      BY <1>3
    <3>5. KeyAt(new, x) = i
      BY <3>2, <3>3, <3>4, KeyAtUnique
    <3> QED
      BY <3>5 DEF i
  <2> QED
    BY <2>2, <2>3
<1>5. \A x : x \in DOMAIN f <=> KeyAt(new, x) # 0
  BY <1>1, <1>2, <1>4, KeysMapIs DEF at0
<1>6. \A x \in DOMAIN f : new[KeyAt(new, x)].val = f[x]
  <2>1. new[KeyAt(new, k)].val = f[k]
    BY <1>2, <1>3, <1>4 DEF at0
  <2>2. ASSUME NEW x \in DOMAIN f, x # k PROVE new[KeyAt(new, x)].val = f[x]
    <3>1. x \in DOMAIN KeysMap(keys)
      BY <1>2, <2>2
    <3>2. KeyAt(keys, x) \in DOMAIN keys /\ KeysMap(keys)[x] = keys[KeyAt(keys, x)].val
      BY <3>1, KeysMapIs
    <3>3. keys[KeyAt(keys, x)].key = x
      BY <3>1, KeysMapIs, KeyAtIs
    <3>4. KeyAt(keys, x) # at0
      BY <1>1, <2>2, <3>3
    <3> QED
      BY <1>2, <1>3, <1>4, <2>2, <3>1, <3>2, <3>4
  <2> QED
    BY <2>1, <2>2
<1>7. KeysMap(new) = f
  BY <1>2, <1>3, <1>5, <1>6, ReadsAs
<1> QED
  BY <1>3, <1>7 DEF new, f, at0

\* set_config gives the key its value, and counts if that was a change.
LEMMA SetConfigDoes ==
    ASSUME NEW j, IsJob(j), NEW key \in Key, NEW val \in Value
    PROVE  LET new == SetConfig(j, key, val)
               was == KeysMap(j.set.keys)
           IN  /\ IsJob(new)
               /\ new.name = j.name /\ new.entry = j.entry
               /\ new.bools = j.bools /\ new.arrays = j.arrays
               /\ new.set.name = j.set.name /\ new.set.apns = j.set.apns
               /\ KeysMap(new.set.keys) = Maps!Over(One(key, val), was)
               /\ IF key \in DOMAIN was /\ was[key] = val
                  THEN new = j ELSE new.written = j.written + 1
<1> DEFINE new == SetConfig(j, key, val)
           keys == j.set.keys
           was == KeysMap(keys)
           i == KeyAt(keys, key)
           With(list) == [set |-> [j.set EXCEPT !.keys = list], name |-> j.name, entry |-> j.entry,
                          bools |-> j.bools, arrays |-> j.arrays, written |-> j.written + 1]
<1>1. /\ keys \in Seq(Pair)
      /\ j.set = [name |-> j.set.name, keys |-> keys, apns |-> j.set.apns]
  BY DEF IsJob, ListSettings, Pair
<1>2. ASSUME NEW list \in Seq(Pair)
      PROVE  /\ IsJob(With(list)) /\ With(list).set.keys = list
             /\ With(list).name = j.name /\ With(list).entry = j.entry
             /\ With(list).bools = j.bools /\ With(list).arrays = j.arrays
             /\ With(list).set.name = j.set.name /\ With(list).set.apns = j.set.apns
             /\ With(list).written = j.written + 1
  BY <1>1 DEF IsJob, ListSettings, Pair
<1>3. CASE i = 0
  <2> DEFINE list == Append(keys, [key |-> key, val |-> val])
  <2>1. new = With(list)
    BY <1>1, <1>3 DEF SetConfig, IsJob
  <2>2. list \in Seq(Pair)
    BY <1>1 DEF Pair
  <2>3. KeysMap(list) = Maps!Over(One(key, val), was)
    BY <1>1, <1>3, KeysMapAppend
  <2>4. key \notin DOMAIN was
    BY <1>1, <1>3, KeysMapIs
  <2> HIDE DEF new, list, With, was
  <2>5. new.set.keys = list
    BY <1>2, <2>1, <2>2
  <2>6. QED
    BY <1>2, <2>1, <2>2, <2>3, <2>4, <2>5 DEF new, was
<1>4. CASE i # 0
  <2>1. i \in DOMAIN keys /\ key \in DOMAIN was /\ was[key] = keys[i].val
    BY <1>1, <1>4, KeysMapIs
  <2>2. CASE keys[i].val = val
    <3>1. new = j
      BY <1>4, <2>2 DEF SetConfig
    <3>2. was = Maps!Over(One(key, val), was)
      <4>1. IsMap(was)
        BY DEF KeysMap, IsMap
      <4> HIDE DEF was
      <4> QED
        BY <2>1, <2>2, <4>1 DEF Maps!Over, One, IsMap
    <3> QED
      BY <2>1, <2>2, <3>1, <3>2
  <2>3. CASE keys[i].val # val
    <3> DEFINE list == [keys EXCEPT ![i].val = val]
    <3>1. new = [j EXCEPT !.set.keys[i].val = val, !.written = @ + 1]
      BY <1>4, <2>3 DEF SetConfig
    <3>2. new = With(list)
      BY <1>1, <2>1, <3>1 DEF IsJob
    <3>3. list \in Seq(Pair) /\ KeysMap(list) = Maps!Over(One(key, val), was)
      BY <1>1, <1>4, KeysMapUpdate
    <3> HIDE DEF new, list, With, was
    <3>4. new.set.keys = list
      BY <1>2, <3>2, <3>3
    <3> QED
      BY <1>2, <2>1, <2>3, <3>2, <3>3, <3>4 DEF new, was
  <2> QED
    BY <2>2, <2>3
<1> QED
  BY <1>3, <1>4
-----------------------------------------------------------------------------
(* Types *)

\* The names of a list of carriers are a list of names.
LEMMA NamesSeq ==
    ASSUME NEW S, NEW list \in Seq(S), \A s \in S : s.name \in Carrier
    PROVE  /\ Names(list) \in Seq(Carrier) /\ Len(Names(list)) = Len(list)
           /\ \A i \in DOMAIN list : Names(list)[i] = list[i].name
<1>1. DOMAIN list = 1 .. Len(list) /\ Len(list) \in Nat /\ \A i \in 1 .. Len(list) : list[i].name \in Carrier
  OBVIOUS
<1> QED
  BY <1>1 DEF Names

LEMMA AskedSeq ==
    ASSUME cfg \in ListConfig, present \in Seq(Carrier)
    PROVE  Asked \in Seq(Carrier)
<1>1. cfg.carriers \in Seq(ListEntry) /\ \A e \in ListEntry : e.name \in Carrier
  BY DEF ListConfig, ListEntry
<1>2. Names(cfg.carriers) \in Seq(Carrier)
  BY <1>1, NamesSeq
<1> QED
  BY <1>2 DEF Asked

\* The elements of a list and of what is left of it.
LEMMA InSeq ==
    ASSUME NEW S, NEW list \in Seq(S)
    PROVE  /\ \A x : x \in ToSet(list) <=> \E i \in 1 .. Len(list) : list[i] = x
           /\ ToSet(list) \subseteq S
           /\ list # <<>> => /\ Head(list) \in ToSet(list) /\ Tail(list) \in Seq(S)
                             /\ \A x : x \in ToSet(list) <=> x = Head(list) \/ x \in ToSet(Tail(list))
<1>1. \A x : x \in ToSet(list) <=> \E i \in 1 .. Len(list) : list[i] = x
  BY DEF ToSet
<1>2. ToSet(list) \subseteq S
  BY <1>1
<1>3. ASSUME list # <<>>
      PROVE  /\ Head(list) \in ToSet(list) /\ Tail(list) \in Seq(S)
             /\ \A x : x \in ToSet(list) <=> x = Head(list) \/ x \in ToSet(Tail(list))
  <2>1. /\ Len(list) \in Nat \ {0} /\ Head(list) = list[1]
        /\ Tail(list) \in Seq(S) /\ Len(Tail(list)) = Len(list) - 1
        /\ \A i \in 1 .. Len(list) - 1 : Tail(list)[i] = list[i + 1]
    BY <1>3
  <2>2. \A x : x \in ToSet(Tail(list)) <=> \E i \in 1 .. Len(list) - 1 : list[i + 1] = x
    <3> DEFINE rest == Tail(list)
    <3>1. DOMAIN rest = 1 .. Len(list) - 1 /\ \A i \in 1 .. Len(list) - 1 : rest[i] = list[i + 1]
      BY <2>1
    <3> HIDE DEF rest
    <3>2. \A x : x \in ToSet(rest) <=> \E i \in 1 .. Len(list) - 1 : list[i + 1] = x
      BY <3>1 DEF ToSet
    <3> QED
      BY <3>2 DEF rest
  <2>3. \A x : (\E i \in 1 .. Len(list) : list[i] = x)
                 <=> x = list[1] \/ \E i \in 1 .. Len(list) - 1 : list[i + 1] = x
    <3>1. SUFFICES ASSUME NEW x, NEW i \in 1 .. Len(list), list[i] = x, x # list[1]
                   PROVE  \E k \in 1 .. Len(list) - 1 : list[k + 1] = x
      BY <2>1
    <3>2. i - 1 \in 1 .. Len(list) - 1 /\ (i - 1) + 1 = i
      BY <2>1, <3>1
    <3> QED
      BY <3>1, <3>2
  <2> QED
    BY <1>1, <2>1, <2>2, <2>3
<1> QED
  BY <1>1, <1>2, <1>3

\* What is written for a carrier.
LEMMA EntryTyped ==
    ASSUME cfg \in ListConfig, NEW c \in Carrier
    PROVE  EntryOf(c) \in ListEntry
<1>1. CASE Has(cfg.carriers, c)
  <2>1. cfg.carriers \in Seq(ListEntry)
    BY DEF ListConfig
  <2>2. Named(cfg.carriers, c) \in DOMAIN cfg.carriers
    BY <1>1, <2>1, NamedIs
  <2> QED
    BY <1>1, <2>1, <2>2 DEF EntryOf
<1>2. CASE ~Has(cfg.carriers, c)
  <2>1. Maps!Nothing \in Maps!Partial(Key, Flag) /\ Maps!Nothing \in Maps!Partial(Key, Value \ Flag)
    <3>1. ASSUME NEW T PROVE Maps!Nothing \in [{} -> T] /\ {} \in SUBSET Key
      BY DEF Maps!Nothing
    <3> QED
      BY <3>1, Zenon DEF Maps!Partial
  <2> QED
    BY <1>2, <2>1 DEF EntryOf, ListEntry
<1> QED
  BY <1>1, <1>2

LEMMA WritesTyped ==
    ASSUME NEW e \in ListEntry
    PROVE  /\ \A k \in DOMAIN Flags2Write(e) : k \in Key /\ Flags2Write(e)[k] \in Flag
           /\ \A k \in DOMAIN e.arrays : k \in Key /\ e.arrays[k] \in Value \ Flag
           /\ IsMap(Flags2Write(e)) /\ IsMap(e.arrays)
           /\ Flag \subseteq Value
<1>1. e.bools \in Maps!Partial(Key, Flag) /\ Base \in Maps!Partial(Key, Flag)
  BY RunAssumption DEF ListEntry
<1>2. /\ e.bools \in [DOMAIN e.bools -> Flag] /\ DOMAIN e.bools \subseteq Key
      /\ Base \in [DOMAIN Base -> Flag] /\ DOMAIN Base \subseteq Key
  BY <1>1, PartialElim
<1>3. e.arrays \in [DOMAIN e.arrays -> Value \ Flag] /\ DOMAIN e.arrays \subseteq Key
  BY PartialElim DEF ListEntry
<1>4. \A k \in DOMAIN Flags2Write(e) : k \in Key /\ Flags2Write(e)[k] \in Flag
  BY <1>2 DEF Flags2Write, Maps!Over
<1>5. IsMap(Flags2Write(e)) /\ IsMap(e.arrays)
  BY <1>3 DEF Flags2Write, Maps!Over, IsMap
<1> QED
  BY <1>3, <1>4, <1>5, RunAssumption

LEMMA NoFilesTyped == IsListDir(NoFiles)
<1>1. Maps!Nothing \in [DOMAIN Maps!Nothing -> ListFile] /\ DOMAIN Maps!Nothing \subseteq Carrier
  BY DEF Maps!Nothing
<1> QED
  BY <1>1 DEF NoFiles, IsListDir

LEMMA InitInv ==
    ASSUME Init
    PROVE  IInv
<1>1. IsListDir(dir) /\ cfg \in ListConfig /\ present \in Seq(Carrier)
  BY RunAssumption DEF Init
<1>2. todo = Asked /\ todo \in Seq(Carrier)
  BY <1>1, AskedSeq DEF Init, Asked
<1>3. TypeOK
  BY <1>1, <1>2, NoFilesTyped DEF Init, TypeOK
<1>4. PlanSound /\ PlanWhole
  BY <1>2 DEF Init, PlanSound, PlanWhole
<1>5. ~Writing
  BY DEF Init, Writing
<1>6. Unwritten /\ Written /\ Reported
  BY <1>5 DEF Init, Unwritten, Written, SoFar, OthersDone, OwnDone, Reported
<1>7. JobSound /\ SecondPass
  BY DEF Init, JobSound, SecondPass
<1>8. Recorded
  BY DEF Init, Recorded
<1> QED
  BY <1>3, <1>4, <1>6, <1>7, <1>8 DEF IInv

\* The settings that are being patched, and how.
LEMMA JobTyped ==
    ASSUME TypeOK, JobSound, pc = "patch"
    PROVE  /\ IsJob(job) /\ job.name \in Carrier /\ job.set.name = job.name
           /\ job.entry \in ListEntry
<1>1. IsJob(job) /\ job.set \in ListSettings
  BY DEF JobSound, JobOf, IsJob
<1>2. job.name = job.set.name /\ job.entry = EntryOf(job.name)
  BY DEF JobSound, JobOf
<1>3. job.name \in Carrier
  BY <1>1, <1>2 DEF ListSettings
<1> QED
  BY <1>1, <1>2, <1>3, EntryTyped DEF TypeOK

LEMMA PatchedTyped ==
    ASSUME NEW j, IsJob(j)
    PROVE  /\ Patched(j) \in ListSettings
           /\ Patched(j).name = j.set.name /\ Patched(j).keys = j.set.keys
           /\ Patched(j).apns = IF ApnOutcome(j) = "added" THEN Append(j.set.apns, "ims") ELSE j.set.apns
<1>1. j.set \in ListSettings
  BY DEF IsJob
<1>2. Append(j.set.apns, "ims") \in Seq(ApnType)
  BY <1>1 DEF ListSettings, ApnType
<1> QED
  BY <1>1, <1>2 DEF Patched, ListSettings

\* TypeOK is kept by every step.
LEMMA TypeStep ==
    ASSUME IInv, [Next]_vars
    PROVE  TypeOK'
<1>0. TypeOK /\ PlanSound /\ Written /\ JobSound
  BY DEF IInv
<1> USE DEF TypeOK
<1>16. todo # <<>> => Tail(todo) \in Seq(Carrier)
  BY <1>0
<1>17. CASE PassOver
  BY <1>0, <1>16, <1>17 DEF PassOver, Planning
<1>1. CASE Refuse
  BY <1>0, <1>16, <1>1 DEF Refuse, Planning
<1>2. CASE Leave
  <2>1. Head(todo) \in Carrier /\ Stock(Head(todo)) \in {"missing", "certified"}
    BY <1>0, <1>2 DEF Leave, Planning, LeftAlone, TypeOK
  <2>2. LeftEntry(Head(todo), Stock(Head(todo))) \in Alone
    BY <2>1 DEF LeftEntry, Alone
  <2> QED
    BY <1>0, <1>2, <2>2 DEF Leave, Planning, TypeOK
<1>3. CASE Take
  <2> DEFINE name == Head(todo)
  <2>1. name \in Carrier /\ Decide(name) \in {"configured", "detected"}
    BY <1>0, <1>3 DEF Take, Planning, Wanted, Decide, TypeOK
  <2>2. EntryOf(name) \in ListEntry
    BY <1>0, <2>1, EntryTyped DEF TypeOK
  <2>3. [name |-> name, entry |-> EntryOf(name), reason |-> Decide(name)] \in Target
    BY <2>1, <2>2 DEF Target
  <2> QED
    BY <1>0, <1>3, <2>3 DEF Take, Planning, TypeOK
<1>4. CASE NothingToPatch
  BY <1>0, <1>4 DEF NothingToPatch, TypeOK
<1>5. CASE BeginOthers
  <2>1. IsListDir(out')
    BY <1>0, <1>5, NoFilesTyped DEF BeginOthers, TypeOK, IsListDir, NoFiles
  <2> QED
    BY <1>0, <1>5, <2>1 DEF BeginOthers, TypeOK
<1>6. CASE SkipSettings \/ TakeSettings
  BY <1>0, <1>6 DEF SkipSettings, TakeSettings, AtSettings, TypeOK
<1>7. CASE SetFlag \/ SetArray
  BY <1>0, <1>7 DEF SetFlag, SetArray, Patching, TypeOK
<1>8. ASSUME Finish
      PROVE  reports' \in Seq(Reports) /\ changed' \in Nat
  <2>1. pc = "patch"
    BY <1>8 DEF Finish, Patching
  <2>2. IsJob(job) /\ job.name \in Carrier
    BY <1>0, <2>1, JobTyped
  <2>3. Report(job) \in Reports
    BY <2>2 DEF Report, Reports, ApnOutcome, IsJob
  <2>4. Changes(Report(job)) \in Nat
    BY <2>3 DEF Changes, Reports
  <2> QED
    BY <1>0, <1>8, <2>3, <2>4 DEF Finish, TypeOK
<1>9. CASE FinishSettings
  <2>1. Finish /\ pc = "patch" /\ at \in DOMAIN out.others
    BY <1>9 DEF FinishSettings, Finish, Patching
  <2>2. Patched(job) \in ListSettings
    BY <1>0, <2>1, JobTyped, PatchedTyped
  <2>3. out' = [ver |-> out.ver, others |-> [out.others EXCEPT ![at] = Patched(job)], own |-> out.own]
    BY <1>0, <1>9 DEF FinishSettings, TypeOK, IsListDir
  <2>4. [out.others EXCEPT ![at] = Patched(job)] \in Seq(ListSettings)
    BY <1>0, <2>1, <2>2 DEF TypeOK, IsListDir
  <2>5. IsListDir(out')
    BY <1>0, <2>3, <2>4 DEF TypeOK, IsListDir
  <2> QED
    BY <1>0, <1>8, <1>9, <2>1, <2>5 DEF FinishSettings, Finish, Patching, TypeOK
<1>10. CASE FinishOwn
  <2> DEFINE c == job.name
             file == [ver |-> dir.own[c].ver + 1, set |-> Patched(job)]
             own == Maps!Over([x \in {c} |-> [ver |-> dir.own[x].ver + 1, set |-> Patched(job)]], out.own)
  <2>1. Finish /\ pc = "patch" /\ at \notin DOMAIN out.others
    BY <1>10 DEF FinishOwn, Finish, Patching
  <2>2. Patched(job) \in ListSettings /\ c \in Carrier
    BY <1>0, <2>1, JobTyped, PatchedTyped
  <2>3. at > Len(dir.others)
    BY <1>0, <2>1 DEF Written, SoFar, OthersDone, OwnDone, Writing, TypeOK, IsListDir
  <2>4. todo # <<>> /\ c \in DOMAIN dir.own
    BY <1>0, <2>1, <2>3 DEF JobSound
  <2>5. file \in ListFile
    BY <1>0, <2>2, <2>4 DEF TypeOK, IsListDir, ListFile
  <2>6. out' = [ver |-> out.ver, others |-> out.others, own |-> own]
    BY <1>0, <1>10 DEF FinishOwn, TypeOK, IsListDir
  <2>7. own \in [DOMAIN own -> ListFile] /\ DOMAIN own \subseteq Carrier
    <3>1. out.own \in [DOMAIN out.own -> ListFile] /\ DOMAIN out.own \subseteq Carrier
      BY <1>0 DEF TypeOK, IsListDir
    <3> QED
      BY <2>2, <2>5, <3>1 DEF Maps!Over
  <2> HIDE DEF own
  <2>8. IsListDir(out')
    BY <1>0, <2>6, <2>7 DEF TypeOK, IsListDir
  <2> QED
    BY <1>0, <1>8, <1>10, <2>1, <2>4, <2>8 DEF FinishOwn, Finish, Patching, TypeOK
<1>11. CASE OthersWritten \/ OwnWritten
  <2>1. Names(targets) \in Seq(Carrier)
    <3>1. targets \in Seq(Target) /\ \A t \in Target : t.name \in Carrier
      BY <1>0 DEF Target
    <3> QED
      BY <3>1, NamesSeq
  <2> QED
    BY <1>0, <1>11, <2>1 DEF OthersWritten, OwnWritten, TypeOK
<1>12. CASE SkipOwn \/ TakeOwn
  BY <1>0, <1>16, <1>12 DEF SkipOwn, TakeOwn, AtOwn
<1>13. CASE RecordTarget
  BY <1>0, <1>16, <1>13 DEF RecordTarget
<1>18. CASE RecordLeft
  BY <1>0, <1>18 DEF RecordLeft
<1>14. CASE Again
  <2>1. todo' \in Seq(Carrier)
    BY <1>0, <1>14, AskedSeq DEF Again, TypeOK, Asked
  <2>2. IsListDir([out EXCEPT !.own = Maps!Over(@, dir.own)])
    <3> DEFINE own == Maps!Over(out.own, dir.own)
    <3>1. own \in [DOMAIN own -> ListFile] /\ DOMAIN own \subseteq Carrier
      <4>1. /\ out.own \in [DOMAIN out.own -> ListFile] /\ DOMAIN out.own \subseteq Carrier
            /\ dir.own \in [DOMAIN dir.own -> ListFile] /\ DOMAIN dir.own \subseteq Carrier
        BY <1>0 DEF TypeOK, IsListDir
      <4> QED
        BY <4>1 DEF Maps!Over
    <3>2. [out EXCEPT !.own = own] = [ver |-> out.ver, others |-> out.others, own |-> own]
      <4>1. out = [ver |-> out.ver, others |-> out.others, own |-> out.own]
        BY <1>0 DEF IsListDir
      <4> HIDE DEF own
      <4> QED
        BY <4>1
    <3> HIDE DEF own
    <3>3. IsListDir([out EXCEPT !.own = own])
      BY <1>0, <3>1, <3>2 DEF TypeOK, IsListDir
    <3> QED
      BY <3>3 DEF own
  <2>3. IsListDir(dir')
    BY <1>0, <1>14, <2>2 DEF Again, TypeOK
  <2> QED
    BY <1>0, <1>14, <2>1, <2>3, NoFilesTyped DEF Again, TypeOK
<1>15. CASE UNCHANGED vars
  BY <1>0, <1>15 DEF vars, TypeOK
<1> QED
  BY <1>1, <1>17, <1>18, <1>2, <1>3, <1>4, <1>5, <1>6, <1>7, <1>9, <1>10, <1>11, <1>12, <1>13, <1>14, <1>15 DEF Next
-----------------------------------------------------------------------------
(* The plan *)

\* What is said of a carrier rests on the inputs of the run.
LEMMA SameInputs ==
    ASSUME dir' = dir, cfg' = cfg, present' = present
    PROVE  /\ \A c : /\ Decide(c)' = Decide(c) /\ Stock(c)' = Stock(c)
                     /\ EntryOf(c)' = EntryOf(c) /\ (LeftAlone(c)' <=> LeftAlone(c))
                     /\ First(c)' = First(c)
           /\ Asked' = Asked
BY DEF Decide, Stock, EntryOf, LeftAlone, First, Asked

\* The loop goes on with the next name.
LEMMA PlanningStep ==
    ASSUME IInv, Planning
    PROVE  /\ Head(todo) \in Carrier /\ Head(todo) \in ToSet(Asked)
           /\ ToSet(todo') \subseteq ToSet(Asked)
           /\ \A c \in ToSet(Asked) : c = Head(todo) \/ c \in ToSet(todo') \/ Considered(c)
<1>1. todo \in Seq(Carrier) /\ todo # <<>> /\ todo' = Tail(todo) /\ pc = "plan"
  BY DEF IInv, TypeOK, Planning
<1>2. /\ Head(todo) \in ToSet(todo)
      /\ \A x : x \in ToSet(todo) <=> x = Head(todo) \/ x \in ToSet(todo')
  BY <1>1, InSeq
<1>3. ToSet(todo) \subseteq Carrier
  BY <1>1, InSeq
<1>4. /\ ToSet(todo) \subseteq ToSet(Asked)
      /\ \A c \in ToSet(Asked) : c \in ToSet(todo) \/ Considered(c)
  BY <1>1 DEF IInv, PlanWhole
<1> QED
  BY <1>2, <1>3, <1>4

LEMMA PlanStep ==
    ASSUME IInv, Next
    PROVE  PlanSound' /\ PlanWhole'
<1>1. TypeOK /\ PlanSound /\ PlanWhole /\ targets \in Seq(Target) /\ left \in Seq(Alone)
  BY DEF IInv, TypeOK
<1>2. ASSUME dir' = dir, cfg' = cfg, present' = present, targets' = targets, left' = left
      PROVE  PlanSound' /\ \A c : Considered(c)' <=> Considered(c)
  BY <1>1, <1>2, SameInputs DEF PlanSound, Considered
<1>3. CASE PassOver \/ Refuse
  <2>1. Planning /\ targets' = targets /\ left' = left /\ dir' = dir /\ cfg' = cfg /\ present' = present
    BY <1>3 DEF PassOver, Refuse, Planning
  <2>2. PassOver => Considered(Head(todo)) /\ pc' = "plan"
    BY <2>1 DEF PassOver, Wanted, Considered, Planning
  <2>3. Refuse => pc' = "failed"
    BY DEF Refuse
  <2> QED
    BY <1>2, <1>3, <2>1, <2>2, <2>3, PlanningStep, SameInputs DEF PlanWhole
<1>4. CASE Leave
  <2> DEFINE name == Head(todo)
             entry == LeftEntry(name, Stock(name))
  <2>1. /\ Planning /\ pc = "plan" /\ pc' = "plan"
        /\ targets' = targets /\ left' = Append(left, entry)
        /\ dir' = dir /\ cfg' = cfg /\ present' = present
        /\ Decide(name) # "none" /\ LeftAlone(name)
    BY <1>4 DEF Leave, Planning, Wanted
  <2>2. name \in ToSet(Asked) /\ name \in Carrier
    BY <2>1, PlanningStep
  <2>3. entry.name = name /\ entry.outcome = Stock(name) /\ entry \in Alone
    BY <2>1, <2>2 DEF LeftEntry, LeftAlone, Alone
  <2> HIDE DEF entry, name
  <2>4. /\ DOMAIN left' = 1 .. Len(left) + 1 /\ DOMAIN left = 1 .. Len(left)
        /\ left'[Len(left) + 1] = entry /\ \A i \in DOMAIN left : left'[i] = left[i]
    BY <1>1, <2>1, <2>3
  <2>5. PlanSound'
    <3>1. \A i \in DOMAIN left' :
             /\ left'[i].name \in ToSet(Asked)
             /\ Decide(left'[i].name) # "none"
             /\ LeftAlone(left'[i].name)
             /\ left'[i].outcome = Stock(left'[i].name)
      BY <1>1, <2>1, <2>2, <2>3, <2>4 DEF PlanSound
    <3> QED
      BY <1>1, <2>1, <3>1, SameInputs DEF PlanSound
  <2>6. \A c : Considered(c) \/ c = name => Considered(c)'
    <3>1. \A c : Has(left, c) \/ c = name => Has(left', c)
      BY <1>1, <2>1, <2>3, NamedAppend
    <3> QED
      BY <2>1, <3>1, SameInputs DEF Considered
  <2> QED
    BY <2>1, <2>5, <2>6, PlanningStep, SameInputs DEF PlanWhole, name
<1>5. CASE Take
  <2> DEFINE name == Head(todo)
             target == [name |-> name, entry |-> EntryOf(name), reason |-> Decide(name)]
  <2>1. /\ Planning /\ pc = "plan" /\ pc' = "plan"
        /\ left' = left /\ targets' = Append(targets, target)
        /\ dir' = dir /\ cfg' = cfg /\ present' = present
        /\ Decide(name) # "none" /\ ~Has(targets, name)
        /\ ~LeftAlone(name) /\ Stock(name) # "mismatch"
    BY <1>5 DEF Take, Planning, Wanted
  <2>2. name \in ToSet(Asked) /\ name \in Carrier
    BY <2>1, PlanningStep
  <2>3. Stock(name) \in {"plain", "certified"}
    BY <2>1 DEF Stock, LeftAlone
  <2>4. /\ target.name = name /\ target.reason = Decide(name) /\ target.entry = EntryOf(name)
        /\ target \in Target
    BY <1>1, <2>1, <2>2, EntryTyped DEF Target, Decide, TypeOK
  <2> HIDE DEF target, name
  <2>5. /\ DOMAIN targets' = 1 .. Len(targets) + 1 /\ DOMAIN targets = 1 .. Len(targets)
        /\ targets'[Len(targets) + 1] = target /\ \A i \in DOMAIN targets : targets'[i] = targets[i]
    BY <1>1, <2>1, <2>4
  <2>6. \A i \in DOMAIN targets : targets[i].name # name
    BY <1>1, <2>1, NamedIs
  <2>7. PlanSound'
    <3>1. \A i \in DOMAIN targets' :
             /\ targets'[i].name \in ToSet(Asked)
             /\ Decide(targets'[i].name) = targets'[i].reason
             /\ targets'[i].entry = EntryOf(targets'[i].name)
             /\ Stock(targets'[i].name) \in {"plain", "certified"}
             /\ ~LeftAlone(targets'[i].name)
      BY <1>1, <2>1, <2>2, <2>3, <2>4, <2>5 DEF PlanSound
    <3>2. \A i, k \in DOMAIN targets' : targets'[i].name = targets'[k].name => i = k
      BY <1>1, <2>4, <2>5, <2>6 DEF PlanSound
    <3> QED
      BY <1>1, <2>1, <3>1, <3>2, SameInputs DEF PlanSound
  <2>8. \A c : Considered(c) \/ c = name => Considered(c)'
    <3>1. \A c : Has(targets, c) \/ c = name => Has(targets', c)
      BY <1>1, <2>1, <2>4, NamedAppend
    <3> QED
      BY <2>1, <3>1, SameInputs DEF Considered
  <2> QED
    BY <2>1, <2>7, <2>8, PlanningStep, SameInputs DEF PlanWhole, name
<1>6. CASE NothingToPatch \/ BeginOthers
  <2>1. /\ pc = "plan" /\ todo = <<>> /\ pc' \in {"done", "others"}
        /\ dir' = dir /\ cfg' = cfg /\ present' = present /\ targets' = targets /\ left' = left
    BY <1>6 DEF NothingToPatch, BeginOthers
  <2>2. \A c : c \notin ToSet(todo)
    BY <2>1 DEF ToSet
  <2> QED
    BY <1>1, <1>2, <2>1, <2>2, SameInputs DEF PlanWhole
<1>7. CASE \/ SkipSettings \/ TakeSettings \/ OthersWritten \/ SkipOwn \/ TakeOwn \/ OwnWritten
           \/ SetFlag \/ SetArray \/ FinishSettings \/ FinishOwn \/ RecordTarget \/ RecordLeft
  <2>1. /\ pc \notin {"plan", "failed"} /\ pc' # "plan"
        /\ dir' = dir /\ cfg' = cfg /\ present' = present /\ targets' = targets /\ left' = left
    BY <1>7 DEF SkipSettings, TakeSettings, AtSettings, OthersWritten, SkipOwn, TakeOwn, AtOwn,
                OwnWritten, SetFlag, SetArray, FinishSettings, FinishOwn, Finish, Patching,
                RecordTarget, RecordLeft
  <2> QED
    BY <1>1, <1>2, <2>1, SameInputs DEF PlanWhole
<1>8. CASE Again
  <2>1. targets' = <<>> /\ left' = <<>> /\ todo' = Asked' /\ pc' = "plan"
    BY <1>8 DEF Again, Asked
  <2> QED
    BY <2>1 DEF PlanSound, PlanWhole
<1> QED
  BY <1>3, <1>4, <1>5, <1>6, <1>7, <1>8 DEF Next
-----------------------------------------------------------------------------
(* The plan, as in CarrierFiles *)

\* The settings plan.rs looks at: the carrier's own file comes first.
Holder(c) == IF c \in DOMAIN dir.own THEN dir.own[c].set ELSE dir.others[Named(dir.others, c)]

\* A directory, as a map.
LEMMA DirMapIs ==
    ASSUME NEW d, IsListDir(d)
    PROVE  /\ DOMAIN DirMap(d) = {OTHERS} \cup DOMAIN d.own
           /\ DirMap(d)[OTHERS].ver = d.ver
           /\ DOMAIN DirMap(d)[OTHERS].set = {c \in Carrier : Has(d.others, c)}
           /\ DirMap(d)[OTHERS].set =
                 [c \in {x \in Carrier : Has(d.others, x)} |-> SettingsMap(d.others[Named(d.others, c)])]
           /\ OTHERS \notin DOMAIN d.own
           /\ \A c \in DOMAIN d.own :
                 DirMap(d)[c] = [ver |-> d.own[c].ver, set |-> [x \in {c} |-> SettingsMap(d.own[c].set)]]
<1>1. OTHERS \notin DOMAIN d.own /\ d.others \in Seq(ListSettings)
  BY RunAssumption DEF IsListDir
<1>2. \A s \in ListSettings : s.name \in Carrier
  BY DEF ListSettings
<1>3. ToSet(Names(d.others)) = {c \in Carrier : Has(d.others, c)}
  <2>1. ToSet(Names(d.others)) \subseteq Carrier
    BY <1>1, <1>2, NamesSeq, InSeq
  <2>2. \A c : c \in ToSet(Names(d.others)) <=> Has(d.others, c)
    BY <1>1, NamesAre
  <2> QED
    BY <2>1, <2>2
<1> QED
  BY <1>1, <1>3 DEF DirMap

LEMMA KnownMeans ==
    ASSUME IsListDir(dir), NEW c \in Carrier
    PROVE  /\ Maps!Known(DirMap(dir), c) <=> c \in DOMAIN dir.own \/ Has(dir.others, c)
           /\ Maps!Known(DirMap(dir), c) => Maps!SettingsOf(DirMap(dir), c) = SettingsMap(Holder(c))
           /\ Maps!Known(DirMap(dir), c) => Holder(c) \in ListSettings
<1>1. c # OTHERS
  BY RunAssumption
<1>2. c \in DOMAIN DirMap(dir) <=> c \in DOMAIN dir.own
  BY <1>1, DirMapIs
<1>3. c \in DOMAIN DirMap(dir)[OTHERS].set <=> Has(dir.others, c)
  BY DirMapIs
<1>4. Maps!Known(DirMap(dir), c) <=> c \in DOMAIN dir.own \/ Has(dir.others, c)
  BY <1>2, <1>3 DEF Maps!Known
<1>5. CASE c \in DOMAIN dir.own
  <2>1. DirMap(dir)[c] = [ver |-> dir.own[c].ver, set |-> [x \in {c} |-> SettingsMap(dir.own[c].set)]]
    BY <1>5, DirMapIs
  <2>2. dir.own[c] \in ListFile
    BY <1>5 DEF IsListDir
  <2> QED
    BY <1>2, <1>4, <1>5, <2>1, <2>2 DEF Maps!SettingsOf, Holder, ListFile
<1>6. CASE c \notin DOMAIN dir.own /\ Has(dir.others, c)
  <2>1. DirMap(dir)[OTHERS].set[c] = SettingsMap(dir.others[Named(dir.others, c)])
    <3>1. DirMap(dir)[OTHERS].set =
             [x \in {y \in Carrier : Has(dir.others, y)} |-> SettingsMap(dir.others[Named(dir.others, x)])]
      BY DirMapIs
    <3> QED
      BY <1>6, <3>1
  <2>2. dir.others[Named(dir.others, c)] \in ListSettings
    <3>1. dir.others \in Seq(ListSettings)
      BY DEF IsListDir
    <3>2. Named(dir.others, c) \in DOMAIN dir.others
      BY <1>6, <3>1, NamedIs
    <3> QED
      BY <3>1, <3>2
  <2> QED
    BY <1>2, <1>4, <1>6, <2>1, <2>2 DEF Maps!SettingsOf, Holder
<1> QED
  BY <1>4, <1>5, <1>6

\* The certification guard.
LEMMA StockMeans ==
    ASSUME IsListDir(dir), NEW c \in Carrier, Stock(c) # "mismatch"
    PROVE  /\ Stock(c) = "missing" <=> ~Maps!Known(DirMap(dir), c)
           /\ Maps!Known(DirMap(dir), c) =>
                 (Stock(c) = "certified" <=> Maps!Certified(DirMap(dir), c))
<1>1. Stock(c) = "missing" <=> ~Maps!Known(DirMap(dir), c)
  BY KnownMeans DEF Stock
<1>2. ASSUME Maps!Known(DirMap(dir), c)
      PROVE  Stock(c) = "certified" <=> Maps!Certified(DirMap(dir), c)
  <2>1. Holder(c) \in ListSettings /\ Holder(c).keys \in Seq(Pair)
    BY <1>2, KnownMeans DEF ListSettings, Pair
  <2>2. Stock(c) = "certified" <=> VolteEnabled(Holder(c))
    BY <1>2, KnownMeans DEF Stock, Holder
  <2>3. VolteEnabled(Holder(c)) <=>
           VolteKey \in DOMAIN KeysMap(Holder(c).keys) /\ KeysMap(Holder(c).keys)[VolteKey] = On
    BY <2>1, KeysMapIs DEF VolteEnabled
  <2>4. Maps!SettingsOf(DirMap(dir), c).keys = KeysMap(Holder(c).keys)
    BY <1>2, KnownMeans DEF SettingsMap
  <2> QED
    BY <2>2, <2>3, <2>4 DEF Maps!Certified
<1> QED
  BY <1>1, <1>2

\* Who is asked for is configured or in the phone.
LEMMA AskedAre ==
    ASSUME cfg \in ListConfig, present \in Seq(Carrier)
    PROVE  \A c : c \in ToSet(Asked) <=> Has(cfg.carriers, c) \/ c \in ToSet(present)
<1>1. cfg.carriers \in Seq(ListEntry) /\ \A e \in ListEntry : e.name \in Carrier
  BY DEF ListConfig, ListEntry
<1> DEFINE first == Names(cfg.carriers)
<1>2. first \in Seq(Carrier)
  BY <1>1, NamesSeq
<1>3. \A c : c \in ToSet(first) <=> Has(cfg.carriers, c)
  BY <1>1, NamesAre
<1> HIDE DEF first
<1>4. \A c : c \in ToSet(first \o present) <=> c \in ToSet(first) \/ c \in ToSet(present)
  <2> DEFINE all == first \o present
  <2>1. /\ all \in Seq(Carrier)
        /\ Len(all) = Len(first) + Len(present)
        /\ \A i \in 1 .. Len(first) : all[i] = first[i]
        /\ \A i \in 1 .. Len(present) : all[Len(first) + i] = present[i]
    BY <1>2
  <2> HIDE DEF all
  <2>2. \A c : c \in ToSet(first) \/ c \in ToSet(present) => c \in ToSet(all)
    <3>1. ASSUME NEW c, c \in ToSet(first) PROVE c \in ToSet(all)
      BY <1>2, <2>1, <3>1, InSeq
    <3>2. ASSUME NEW c, c \in ToSet(present) PROVE c \in ToSet(all)
      <4>1. PICK i \in 1 .. Len(present) : present[i] = c
        BY <3>2, InSeq
      <4>2. Len(first) + i \in 1 .. Len(all) /\ all[Len(first) + i] = c
        BY <1>2, <2>1, <4>1
      <4> QED
        BY <2>1, <4>2, InSeq
    <3> QED
      BY <3>1, <3>2
  <2>3. ASSUME NEW c, c \in ToSet(all) PROVE c \in ToSet(first) \/ c \in ToSet(present)
    <3>1. PICK i \in 1 .. Len(all) : all[i] = c
      BY <2>1, <2>3, InSeq
    <3>2. CASE i \in 1 .. Len(first)
      BY <1>2, <2>1, <3>1, <3>2, InSeq
    <3>3. CASE i \notin 1 .. Len(first)
      <4>1. i - Len(first) \in 1 .. Len(present) /\ Len(first) + (i - Len(first)) = i
        BY <1>2, <2>1, <3>1, <3>3
      <4>2. present[i - Len(first)] = c
        BY <2>1, <3>1, <4>1
      <4> QED
        BY <4>1, <4>2, InSeq
    <3> QED
      BY <3>2, <3>3
  <2> QED
    BY <2>2, <2>3 DEF all
<1> QED
  BY <1>3, <1>4 DEF Asked, first

\* When the loop is over, the list of targets is the plan.
LEMMA PlanMeans ==
    ASSUME IInv, pc \notin {"plan", "failed"}
    PROVE  /\ DOMAIN PlanMap = {c \in Carrier : Has(targets, c)}
           /\ \A c \in DOMAIN PlanMap : PlanMap[c] = EntryMap(EntryOf(c))
           /\ IsMap(PlanMap)
<1>1. /\ IsListDir(dir) /\ cfg \in ListConfig /\ present \in Seq(Carrier)
      /\ targets \in Seq(Target) /\ left \in Seq(Alone)
      /\ cfg.carriers \in Seq(ListEntry)
  BY DEF IInv, TypeOK, ListConfig
<1>2. \A c : c \in DOMAIN ConfigMap.carriers <=> Has(cfg.carriers, c)
  BY <1>1, NamesAre DEF ConfigMap
<1> DEFINE stock == DirMap(dir)
           Is(c) == Maps!Targeted(ConfigMap, stock, ToSet(present), c)
<1>3. \A c : Is(c) <=> /\ c \notin cfg.skip
                       /\ Maps!Known(stock, c)
                       /\ \/ Has(cfg.carriers, c)
                          \/ c \in ToSet(present) /\ cfg.auto /\ ~Maps!Certified(stock, c)
  BY <1>2 DEF Maps!Targeted, ConfigMap
<1> HIDE DEF stock, Is
<1>4. ASSUME NEW c \in Carrier, Is(c) PROVE Has(targets, c)
  <2>1. c \in ToSet(Asked) /\ Decide(c) # "none"
    BY <1>1, <1>3, <1>4, AskedAre DEF Decide
  <2>2. Has(targets, c) \/ Has(left, c)
    BY <2>1 DEF IInv, PlanWhole, Considered
  <2>3. ASSUME Has(left, c) PROVE FALSE
    <3>1. PICK i \in DOMAIN left : left[i].name = c
      BY <1>1, <2>3, NamedIs
    <3>2. LeftAlone(c)
      BY <3>1 DEF IInv, PlanSound
    <3>3. Stock(c) = "certified" /\ Decide(c) = "detected"
      BY <1>1, <1>3, <1>4, <3>2, StockMeans DEF LeftAlone, stock
    <3>4. ~Has(cfg.carriers, c) /\ Maps!Certified(stock, c)
      BY <1>1, <1>3, <1>4, <3>3, StockMeans DEF Decide, stock
    <3> QED
      BY <1>3, <1>4, <3>4
  <2> QED
    BY <2>2, <2>3
<1>5. ASSUME NEW c \in Carrier, Has(targets, c) PROVE Is(c)
  <2>1. PICK i \in DOMAIN targets : targets[i].name = c
    BY <1>1, <1>5, NamedIs
  <2>2. /\ c \in ToSet(Asked) /\ Decide(c) \in {"configured", "detected"}
        /\ Stock(c) \in {"plain", "certified"} /\ ~LeftAlone(c)
    <3>1. targets[i] \in Target
      BY <1>1, <2>1
    <3>2. targets[i].reason \in {"configured", "detected"}
      BY <3>1 DEF Target
    <3> QED
      BY <2>1, <3>2 DEF IInv, PlanSound
  <2>3. c \notin cfg.skip /\ Maps!Known(stock, c)
    BY <1>1, <2>2, StockMeans DEF Decide, stock
  <2>4. CASE Decide(c) = "configured"
    BY <1>3, <2>3, <2>4 DEF Decide
  <2>5. CASE Decide(c) = "detected"
    <3>1. ~Has(cfg.carriers, c) /\ cfg.auto
      BY <2>5 DEF Decide
    <3>2. c \in ToSet(present)
      BY <1>1, <2>2, <3>1, AskedAre
    <3>3. ~Maps!Certified(stock, c)
      BY <1>1, <2>2, <2>3, <2>5, StockMeans DEF LeftAlone, stock
    <3> QED
      BY <1>3, <2>3, <3>1, <3>2, <3>3
  <2> QED
    BY <2>2, <2>4, <2>5
<1>6. DOMAIN PlanMap = {c \in Carrier : Is(c)}
  BY DEF PlanMap, Maps!Plan, Is, stock
<1>7. \A c \in DOMAIN PlanMap : PlanMap[c] = EntryMap(EntryOf(c))
  <2>1. SUFFICES ASSUME NEW c \in DOMAIN PlanMap PROVE PlanMap[c] = EntryMap(EntryOf(c))
    OBVIOUS
  <2>2. PlanMap[c] = IF Has(cfg.carriers, c) THEN ConfigMap.carriers[c] ELSE Maps!DefaultEntry
    BY <1>2, <2>1 DEF PlanMap, Maps!Plan
  <2>3. CASE Has(cfg.carriers, c)
    <3>1. c \in ToSet(Names(cfg.carriers))
      BY <1>1, <2>3, NamesAre
    <3> QED
      BY <2>2, <2>3, <3>1 DEF ConfigMap
  <2>4. CASE ~Has(cfg.carriers, c)
    <3>1. Maps!Over(Maps!Nothing, Maps!Nothing) = Maps!Nothing
      BY DEF Maps!Over, Maps!Nothing
    <3> QED
      BY <2>2, <2>4, <3>1 DEF EntryOf, EntryMap, Maps!DefaultEntry
  <2> QED
    BY <2>3, <2>4
<1>8. IsMap(PlanMap)
  BY DEF PlanMap, Maps!Plan, IsMap
<1> QED
  BY <1>4, <1>5, <1>6, <1>7, <1>8
-----------------------------------------------------------------------------
(* The patch of one carrier *)

\* One more key of f is written.
LEMMA OverMore ==
    ASSUME NEW f, NEW g, NEW S, NEW k \in DOMAIN f
    PROVE  Maps!Over(One(k, f[k]), Maps!Over(Maps!Only(f, S), g)) = Maps!Over(Maps!Only(f, S \cup {k}), g)
<1> DEFINE p == Maps!Over(One(k, f[k]), Maps!Over(Maps!Only(f, S), g))
           q == Maps!Over(Maps!Only(f, S \cup {k}), g)
<1>1. DOMAIN p = DOMAIN q
  BY DEF Maps!Over, Maps!Only, One
<1>2. ASSUME NEW x \in DOMAIN q PROVE p[x] = q[x]
  BY DEF Maps!Over, Maps!Only, One
<1>3. IsMap(p) /\ IsMap(q)
  BY DEF Maps!Over, IsMap
<1> HIDE DEF p, q
<1>4. p = q
  BY <1>1, <1>2, <1>3 DEF IsMap
<1> QED
  BY <1>4 DEF p, q

\* None of the keys of f is written.
LEMMA OverNone ==
    ASSUME NEW f, NEW g, IsMap(g)
    PROVE  Maps!Over(Maps!Only(f, {}), g) = g
BY DEF Maps!Over, Maps!Only, IsMap

\* All of them are.
LEMMA OnlyAll ==
    ASSUME NEW f, IsMap(f)
    PROVE  Maps!Only(f, DOMAIN f) = f
BY DEF Maps!Only, IsMap

\* Arrays over overrides over what everybody gets.
LEMMA WritesAre ==
    ASSUME NEW e
    PROVE  Maps!Configs2Write(EntryMap(e)) = Maps!Over(e.arrays, Flags2Write(e))
<1> DEFINE p == Maps!Over(Maps!Over(e.arrays, e.bools), Base)
           q == Maps!Over(e.arrays, Maps!Over(e.bools, Base))
<1>1. DOMAIN p = DOMAIN q
  BY DEF Maps!Over
<1>2. ASSUME NEW x \in DOMAIN q PROVE p[x] = q[x]
  BY DEF Maps!Over
<1>3. IsMap(p) /\ IsMap(q)
  BY DEF Maps!Over, IsMap
<1> HIDE DEF p, q
<1>4. p = q
  BY <1>1, <1>2, <1>3 DEF IsMap
<1> QED
  BY <1>4 DEF p, q, Maps!Configs2Write, EntryMap, Flags2Write

\* A patch in three layers.
LEMMA OverOver ==
    ASSUME NEW f, NEW g, NEW h
    PROVE  Maps!Over(f, Maps!Over(g, h)) = Maps!Over(Maps!Over(f, g), h)
<1> DEFINE p == Maps!Over(f, Maps!Over(g, h))
           q == Maps!Over(Maps!Over(f, g), h)
<1>1. DOMAIN p = DOMAIN q
  BY DEF Maps!Over
<1>2. ASSUME NEW x \in DOMAIN q PROVE p[x] = q[x]
  BY DEF Maps!Over
<1>3. IsMap(p) /\ IsMap(q)
  BY DEF Maps!Over, IsMap
<1> HIDE DEF p, q
<1>4. p = q
  BY <1>1, <1>2, <1>3 DEF IsMap
<1> QED
  BY <1>4 DEF p, q

\* The entry of a target.
LEMMA TargetIs ==
    ASSUME TypeOK, PlanSound, NEW c, Has(targets, c)
    PROVE  /\ TargetEntry(c) = EntryOf(c) /\ c \in Carrier
           /\ Stock(c) \in {"plain", "certified"}
           /\ c \in ToSet(Asked) /\ Decide(c) # "none" /\ ~LeftAlone(c)
           /\ targets[Named(targets, c)].reason = Decide(c)
<1>1. targets \in Seq(Target)
  BY DEF TypeOK
<1> DEFINE i == Named(targets, c)
<1>2. i \in DOMAIN targets /\ targets[i].name = c
  BY <1>1, NamedIs
<1> HIDE DEF i
<1>3. targets[i] \in Target
  BY <1>1, <1>2
<1>4. c \in Carrier /\ targets[i].reason # "none"
  BY <1>2, <1>3 DEF Target
<1>5. /\ c \in ToSet(Asked) /\ Decide(c) = targets[i].reason
      /\ targets[i].entry = EntryOf(c)
      /\ Stock(c) \in {"plain", "certified"} /\ ~LeftAlone(c)
  BY <1>2 DEF PlanSound
<1> QED
  BY <1>4, <1>5 DEF TargetEntry, i

LEMMA StartSound ==
    ASSUME NEW s \in ListSettings, NEW name
    PROVE  JobOf(Start(s, name), s)
<1> DEFINE j == Start(s, name)
           e == TargetEntry(name)
           w == Flags2Write(e)
           was == KeysMap(s.keys)
<1>1. /\ j = [set |-> s, name |-> name, entry |-> e, bools |-> DOMAIN w,
              arrays |-> DOMAIN e.arrays, written |-> 0]
  BY DEF Start
<1> HIDE DEF j
<1>2. IsJob(j) /\ j.set = s /\ j.entry = e /\ j.bools = DOMAIN w /\ j.arrays = DOMAIN e.arrays /\ j.written = 0
  BY <1>1 DEF IsJob
<1>3. DOMAIN w \ j.bools = {} /\ DOMAIN e.arrays \ j.arrays = {}
  BY <1>2
<1>4. IsMap(was) /\ Maps!Over(Maps!Only(w, {}), was) = was
  BY OverNone DEF KeysMap, IsMap
<1>5. Maps!Over(Maps!Only(e.arrays, {}), was) = was
  BY <1>4, OverNone
<1> HIDE DEF e, w, was
<1>6. JobOf(j, s)
  BY <1>2, <1>3, <1>4, <1>5 DEF JobOf, e, w, was
<1> QED
  BY <1>6 DEF j

\* One thing less to do.
LEMMA LessFlags ==
    ASSUME NEW j, IsJob(j), NEW key
    PROVE  LET new == [j EXCEPT !.bools = @ \ {key}]
           IN  /\ IsJob(new) /\ new.name = j.name /\ new.entry = j.entry /\ new.set = j.set
               /\ new.bools = j.bools \ {key} /\ new.arrays = j.arrays /\ new.written = j.written
BY DEF IsJob

LEMMA LessArrays ==
    ASSUME NEW j, IsJob(j), NEW key
    PROVE  LET new == [j EXCEPT !.arrays = @ \ {key}]
           IN  /\ IsJob(new) /\ new.name = j.name /\ new.entry = j.entry /\ new.set = j.set
               /\ new.bools = j.bools /\ new.arrays = j.arrays \ {key} /\ new.written = j.written
BY DEF IsJob

\* One Boolean key.
LEMMA SetFlagSound ==
    ASSUME NEW j, NEW s, JobOf(j, s), j.entry \in ListEntry, NEW key \in j.bools
    PROVE  JobOf([SetConfig(j, key, Flags2Write(j.entry)[key]) EXCEPT !.bools = @ \ {key}], s)
<1> DEFINE e == j.entry
           w == Flags2Write(e)
           was == KeysMap(s.keys)
           now == KeysMap(j.set.keys)
           flags == DOMAIN w \ j.bools
           more == DOMAIN w \ (j.bools \ {key})
           set == SetConfig(j, key, w[key])
           new == [set EXCEPT !.bools = @ \ {key}]
<1>1. /\ IsJob(j) /\ j.bools \subseteq DOMAIN w /\ j.arrays = DOMAIN e.arrays
      /\ j.set.name = s.name /\ j.set.apns = s.apns
  BY DEF JobOf
<1>2. key \in DOMAIN w /\ key \in Key /\ w[key] \in Value
  BY <1>1, WritesTyped
<1>3. /\ IsJob(set) /\ set.name = j.name /\ set.entry = e
      /\ set.bools = j.bools /\ set.arrays = j.arrays
      /\ set.set.name = j.set.name /\ set.set.apns = j.set.apns
      /\ KeysMap(set.set.keys) = Maps!Over(One(key, w[key]), now)
      /\ IF key \in DOMAIN now /\ now[key] = w[key] THEN set = j ELSE set.written = j.written + 1
  BY <1>1, <1>2, SetConfigDoes
<1> HIDE DEF set
<1>4. /\ IsJob(new) /\ new.name = set.name /\ new.entry = e /\ new.set = set.set
      /\ new.bools = j.bools \ {key} /\ new.arrays = j.arrays /\ new.written = set.written
  <2>1. IsJob(set)
    BY <1>3
  <2>2. /\ IsJob(new) /\ new.name = set.name /\ new.entry = set.entry /\ new.set = set.set
        /\ new.bools = set.bools \ {key} /\ new.arrays = set.arrays /\ new.written = set.written
    BY <2>1, LessFlags
  <2> HIDE DEF new
  <2> QED
    BY <1>3, <2>2
<1>5. DOMAIN e.arrays \ j.arrays = {}
  BY <1>1
<1>6. more = flags \cup {key}
  BY <1>2
<1> HIDE DEF new
<1>7. now = Maps!Over(Maps!Only(w, flags), was)
  <2>1. now = Maps!Over(Maps!Only(e.arrays, {}), Maps!Over(Maps!Only(w, flags), was))
    BY <1>5 DEF JobOf
  <2>2. IsMap(Maps!Over(Maps!Only(w, flags), was))
    BY DEF Maps!Over, IsMap
  <2> QED
    BY <2>1, <2>2, OverNone
<1> HIDE DEF flags, more
<1>8. KeysMap(new.set.keys) = Maps!Over(Maps!Only(w, more), was)
  BY <1>2, <1>3, <1>4, <1>6, <1>7, OverMore
<1>9. KeysMap(new.set.keys) = Maps!Over(Maps!Only(e.arrays, {}), Maps!Over(Maps!Only(w, more), was))
  <2>1. IsMap(Maps!Over(Maps!Only(w, more), was))
    BY DEF Maps!Over, IsMap
  <2> QED
    BY <1>8, <2>1, OverNone
<1>10. /\ j.written = 0 => j.set.keys = s.keys /\ \A k \in flags : Holds(was, w, k)
       /\ j.written # 0 => \E k \in flags : ~Holds(was, w, k)
  BY <1>5 DEF JobOf, flags
<1>11. ASSUME new.written = 0
       PROVE  new.set.keys = s.keys /\ \A k \in more : Holds(was, w, k)
  <2>1. j.written \in Nat
    BY <1>1 DEF IsJob
  <2>2. set = j /\ key \in DOMAIN now /\ now[key] = w[key]
    BY <1>3, <1>4, <1>11, <2>1
  <2>3. j.written = 0
    BY <1>4, <1>11, <2>2
  <2>4. Holds(was, w, key)
    BY <1>10, <2>2, <2>3 DEF Holds
  <2> QED
    BY <1>4, <1>6, <1>10, <2>2, <2>3, <2>4
<1>12. ASSUME new.written # 0
       PROVE  \E k \in more : ~Holds(was, w, k)
  <2>1. CASE j.written # 0
    BY <1>6, <1>10, <2>1
  <2>2. CASE j.written = 0
    <3>1. ~(key \in DOMAIN now /\ now[key] = w[key])
      BY <1>3, <1>4, <1>12, <2>2
    <3>2. ~Holds(was, w, key)
      BY <1>10, <2>2, <3>1 DEF Holds
    <3> QED
      BY <1>6, <3>2
  <2> QED
    BY <2>1, <2>2
<1>13. /\ new.bools \subseteq DOMAIN w /\ new.arrays = DOMAIN e.arrays
       /\ new.set.name = s.name /\ new.set.apns = s.apns
       /\ DOMAIN w \ new.bools = more /\ DOMAIN e.arrays \ new.arrays = {}
  BY <1>1, <1>3, <1>4, <1>5 DEF more
<1> HIDE DEF e, w, was
<1>14. JobOf(new, s)
  BY <1>4, <1>9, <1>11, <1>12, <1>13 DEF JobOf, e, w, was
<1> QED
  BY <1>14 DEF new, set, w, e

\* One array.
LEMMA SetArraySound ==
    ASSUME NEW j, NEW s, JobOf(j, s), j.entry \in ListEntry, j.bools = {}, NEW key \in j.arrays
    PROVE  JobOf([SetConfig(j, key, j.entry.arrays[key]) EXCEPT !.arrays = @ \ {key}], s)
<1> DEFINE e == j.entry
           w == Flags2Write(e)
           was == KeysMap(s.keys)
           now == KeysMap(j.set.keys)
           flags == DOMAIN w \ j.bools
           lists == DOMAIN e.arrays \ j.arrays
           more == DOMAIN e.arrays \ (j.arrays \ {key})
           under == Maps!Over(Maps!Only(w, flags), was)
           set == SetConfig(j, key, e.arrays[key])
           new == [set EXCEPT !.arrays = @ \ {key}]
<1>1. /\ IsJob(j) /\ j.arrays \subseteq DOMAIN e.arrays
      /\ j.set.name = s.name /\ j.set.apns = s.apns
  BY DEF JobOf
<1>2. key \in DOMAIN e.arrays /\ key \in Key /\ e.arrays[key] \in Value
  BY <1>1, WritesTyped
<1>3. /\ IsJob(set) /\ set.name = j.name /\ set.entry = e
      /\ set.bools = j.bools /\ set.arrays = j.arrays
      /\ set.set.name = j.set.name /\ set.set.apns = j.set.apns
      /\ KeysMap(set.set.keys) = Maps!Over(One(key, e.arrays[key]), now)
      /\ IF key \in DOMAIN now /\ now[key] = e.arrays[key] THEN set = j ELSE set.written = j.written + 1
  BY <1>1, <1>2, SetConfigDoes
<1> HIDE DEF set
<1>4. /\ IsJob(new) /\ new.name = set.name /\ new.entry = e /\ new.set = set.set
      /\ new.bools = j.bools /\ new.arrays = j.arrays \ {key} /\ new.written = set.written
  <2>1. IsJob(set)
    BY <1>3
  <2>2. /\ IsJob(new) /\ new.name = set.name /\ new.entry = set.entry /\ new.set = set.set
        /\ new.bools = set.bools /\ new.arrays = set.arrays \ {key} /\ new.written = set.written
    BY <2>1, LessArrays
  <2> HIDE DEF new
  <2> QED
    BY <1>3, <2>2
<1>5. more = lists \cup {key}
  BY <1>2
<1> HIDE DEF new
<1>6. now = Maps!Over(Maps!Only(e.arrays, lists), under)
  BY DEF JobOf
<1> HIDE DEF lists, more, under
<1>7. KeysMap(new.set.keys) = Maps!Over(Maps!Only(e.arrays, more), under)
  BY <1>2, <1>3, <1>4, <1>5, <1>6, OverMore
<1>8. /\ j.written = 0 => /\ j.set.keys = s.keys
                          /\ \A k \in flags : Holds(was, w, k)
                          /\ \A k \in lists : Holds(was, e.arrays, k)
      /\ j.written # 0 => \/ \E k \in flags : ~Holds(was, w, k)
                          \/ \E k \in lists : ~Holds(was, e.arrays, k)
  BY DEF JobOf, lists
<1>9. ASSUME new.written = 0
      PROVE  /\ new.set.keys = s.keys
             /\ \A k \in flags : Holds(was, w, k)
             /\ \A k \in more : Holds(was, e.arrays, k)
  <2>1. j.written \in Nat
    BY <1>1 DEF IsJob
  <2>2. set = j /\ key \in DOMAIN now /\ now[key] = e.arrays[key]
    BY <1>3, <1>4, <1>9, <2>1
  <2>3. j.written = 0
    BY <1>4, <1>9, <2>2
  <2>4. Holds(was, e.arrays, key)
    BY <1>8, <2>2, <2>3 DEF Holds
  <2> QED
    BY <1>4, <1>5, <1>8, <2>2, <2>3, <2>4
<1>10. ASSUME new.written # 0
       PROVE  \/ \E k \in flags : ~Holds(was, w, k)
              \/ \E k \in more : ~Holds(was, e.arrays, k)
  <2>1. CASE j.written # 0
    BY <1>5, <1>8, <2>1
  <2>2. CASE j.written = 0
    <3>1. ~(key \in DOMAIN now /\ now[key] = e.arrays[key])
      BY <1>3, <1>4, <1>10, <2>2
    <3>2. ~Holds(was, e.arrays, key)
      BY <1>8, <2>2, <3>1 DEF Holds
    <3> QED
      BY <1>5, <3>2
  <2> QED
    BY <2>1, <2>2
<1>11. /\ new.arrays \subseteq DOMAIN e.arrays
       /\ new.set.name = s.name /\ new.set.apns = s.apns
       /\ DOMAIN w \ new.bools = flags /\ DOMAIN e.arrays \ new.arrays = more
  BY <1>1, <1>3, <1>4 DEF more
<1> HIDE DEF e, w, was, flags
<1>12. JobOf(new, s)
  BY <1>4, <1>7, <1>9, <1>10, <1>11 DEF JobOf, e, w, was, under
<1> QED
  BY <1>12 DEF new, set, e

\* The keys have been written.
LEMMA KeysDone ==
    ASSUME NEW j, NEW s, JobOf(j, s), j.bools = {}, j.arrays = {}, j.entry \in ListEntry
    PROVE  /\ KeysMap(j.set.keys) =
                 Maps!Over(Maps!Configs2Write(EntryMap(j.entry)), KeysMap(s.keys))
           /\ j.written = 0 <=> WritesOnce(j.entry) /\ KeysThere(s, j.entry)
<1> DEFINE e == j.entry
           w == Flags2Write(e)
           was == KeysMap(s.keys)
           all == Maps!Over(e.arrays, w)
<1>1. /\ DOMAIN w \ j.bools = DOMAIN w /\ DOMAIN e.arrays \ j.arrays = DOMAIN e.arrays
      /\ IsMap(w) /\ IsMap(e.arrays)
  BY WritesTyped
<1>2. Maps!Only(w, DOMAIN w) = w /\ Maps!Only(e.arrays, DOMAIN e.arrays) = e.arrays
  BY <1>1, OnlyAll
<1>3. /\ KeysMap(j.set.keys) = Maps!Over(e.arrays, Maps!Over(w, was))
      /\ j.written = 0 => /\ \A k \in DOMAIN w : Holds(was, w, k)
                          /\ \A k \in DOMAIN e.arrays : Holds(was, e.arrays, k)
      /\ j.written # 0 => \/ \E k \in DOMAIN w : ~Holds(was, w, k)
                          \/ \E k \in DOMAIN e.arrays : ~Holds(was, e.arrays, k)
  BY <1>1, <1>2 DEF JobOf
<1>4. all = Maps!Configs2Write(EntryMap(e))
  BY WritesAre
<1>5. KeysMap(j.set.keys) = Maps!Over(all, was)
  BY <1>3, OverOver
<1>6. /\ DOMAIN all = DOMAIN e.arrays \cup DOMAIN w
      /\ \A k \in DOMAIN e.arrays : all[k] = e.arrays[k] /\ e.arrays[k] \notin Flag
      /\ \A k \in DOMAIN w : w[k] \in Flag
      /\ \A k \in DOMAIN w : k \notin DOMAIN e.arrays => all[k] = w[k]
  <2>1. /\ \A k \in DOMAIN e.arrays : e.arrays[k] \notin Flag
        /\ \A k \in DOMAIN w : w[k] \in Flag
    BY WritesTyped
  <2> HIDE DEF w, e
  <2> QED
    BY <2>1 DEF Maps!Over
<1>7. KeysThere(s, e) <=> \A k \in DOMAIN all : Holds(was, all, k)
  BY <1>4 DEF KeysThere
<1>8. WritesOnce(e) <=> \A k \in DOMAIN e.arrays : k \notin DOMAIN w
  BY DEF WritesOnce
<1> HIDE DEF e, w, was, all
<1>9. ASSUME j.written = 0 PROVE WritesOnce(e) /\ KeysThere(s, e)
  BY <1>3, <1>6, <1>7, <1>8, <1>9 DEF Holds
<1>10. ASSUME j.written # 0, WritesOnce(e), KeysThere(s, e) PROVE FALSE
  BY <1>3, <1>6, <1>7, <1>8, <1>10 DEF Holds
<1> QED
  BY <1>4, <1>5, <1>9, <1>10 DEF e, was

\* An IMS APN is there, or is added unless the entry turned it off.
LEMMA ApnDone ==
    ASSUME NEW j, NEW s, JobOf(j, s), j.entry \in ListEntry
    PROVE  /\ "ims" \in ToSet(Patched(j).apns) <=> "ims" \in ToSet(s.apns) \/ j.entry.apn
           /\ ApnOutcome(j) = "added" <=> ~ApnThere(s, j.entry)
           /\ ApnOutcome(j) \in {"disabled", "present", "added"}
<1>1. IsJob(j) /\ j.set.apns = s.apns /\ j.set.apns \in Seq(ApnType)
  BY DEF JobOf, IsJob, ListSettings
<1>2. ApnOutcome(j) = "added" <=> ~ApnThere(s, j.entry)
  BY <1>1 DEF ApnOutcome, ApnThere
<1>3. ApnOutcome(j) \in {"disabled", "present", "added"}
  BY DEF ApnOutcome
<1>4. CASE ApnOutcome(j) = "added"
  <2> DEFINE more == Append(s.apns, "ims")
  <2>1. Patched(j).apns = more
    BY <1>1, <1>4, PatchedTyped
  <2>2. more \in Seq(ApnType) /\ Len(s.apns) + 1 \in 1 .. Len(more) /\ more[Len(s.apns) + 1] = "ims"
    BY <1>1 DEF ApnType
  <2> HIDE DEF more
  <2>3. "ims" \in ToSet(more)
    BY <2>2, InSeq
  <2> QED
    BY <1>2, <1>4, <1>3, <2>1, <2>3 DEF ApnThere
<1>5. CASE ApnOutcome(j) # "added"
  <2>1. Patched(j).apns = s.apns
    BY <1>1, <1>5, PatchedTyped
  <2> QED
    BY <1>2, <1>5, <1>3, <2>1 DEF ApnThere
<1> QED
  BY <1>2, <1>3, <1>4, <1>5

\* The patch of a carrier ends: its settings are what CarrierFiles says, and
\* the report is true.
LEMMA JobDone ==
    ASSUME NEW j, NEW s, JobOf(j, s), j.bools = {}, j.arrays = {},
           j.name = s.name, j.name \in Carrier, j.entry = EntryOf(s.name), j.entry \in ListEntry
    PROVE  /\ PatchedTo(s, Patched(j), EntryOf(s.name)) /\ Tells(Report(j), s)
           /\ Patched(j) \in ListSettings /\ Report(j) \in Reports
<1> DEFINE e == j.entry
<1>1. IsJob(j) /\ j.set.name = s.name /\ e.apn \in BOOLEAN
  BY DEF JobOf, ListEntry
<1>2. /\ Patched(j) \in ListSettings
      /\ Patched(j).name = s.name /\ Patched(j).keys = j.set.keys
  BY <1>1, PatchedTyped
<1>3. PatchedTo(s, Patched(j), e)
  <2>1. KeysMap(Patched(j).keys) = Maps!Over(Maps!Configs2Write(EntryMap(e)), KeysMap(s.keys))
    BY <1>2, KeysDone
  <2>2. ("ims" \in ToSet(Patched(j).apns)) = (("ims" \in ToSet(s.apns)) \/ e.apn)
    BY <1>1, ApnDone
  <2> HIDE DEF e
  <2>3. SettingsMap(Patched(j)) = Maps!PatchSettings(SettingsMap(s), EntryMap(e))
    BY <2>1, <2>2 DEF SettingsMap, Maps!PatchSettings, EntryMap
  <2> QED
    BY <1>2, <2>3 DEF PatchedTo
<1>4. Report(j).name = s.name /\ Report(j).keys = j.written /\ Report(j).apn = ApnOutcome(j)
  BY DEF Report
<1>5. Tells(Report(j), s)
  <2>1. (j.written = 0) = (WritesOnce(e) /\ KeysThere(s, e))
    BY KeysDone
  <2>2. (ApnOutcome(j) = "added") = ~ApnThere(s, e)
    BY ApnDone
  <2> HIDE DEF e
  <2>3. e = EntryOf(s.name)
    BY DEF e
  <2> QED
    BY <1>4, <2>1, <2>2, <2>3 DEF Tells
<1>6. Report(j) \in Reports
  <2>1. j.written \in Nat
    BY <1>1 DEF IsJob
  <2> QED
    BY <2>1, ApnDone DEF Report, Reports
<1> QED
  BY <1>2, <1>3, <1>5, <1>6
-----------------------------------------------------------------------------
(* The steps of the patch *)

LEMMA UnwrittenStep ==
    ASSUME IInv, Next
    PROVE  Unwritten'
<1>1. Unwritten
  BY DEF IInv
<1>2. CASE PassOver \/ Refuse \/ Leave \/ Take \/ NothingToPatch
  <2>1. /\ pc = "plan" /\ out' = out /\ reports' = reports /\ changed' = changed
        /\ pc' \in {"plan", "failed", "done"}
    BY <1>2 DEF PassOver, Refuse, Leave, Take, Planning, NothingToPatch
  <2> QED
    BY <1>1, <2>1 DEF Unwritten, Writing
<1>3. CASE BeginOthers
  BY <1>3 DEF BeginOthers, Unwritten, Writing
<1>4. CASE \/ SkipSettings \/ TakeSettings \/ OthersWritten \/ SkipOwn \/ TakeOwn \/ OwnWritten
           \/ SetFlag \/ SetArray \/ FinishSettings \/ FinishOwn \/ RecordTarget \/ RecordLeft
  <2>1. /\ pc \in {"others", "own", "patch", "record"} /\ targets' = targets
        /\ pc' \in {"others", "own", "patch", "record", "done"}
    BY <1>4 DEF SkipSettings, TakeSettings, AtSettings, OthersWritten, SkipOwn, TakeOwn, AtOwn,
                OwnWritten, SetFlag, SetArray, FinishSettings, FinishOwn, Finish, Patching,
                RecordTarget, RecordLeft
  <2> QED
    BY <1>1, <2>1 DEF Unwritten, Writing
<1>5. CASE Again
  BY <1>5 DEF Again, Unwritten
<1> QED
  BY <1>2, <1>3, <1>4, <1>5 DEF Next

\* The settings that are patched are of the carrier, and a target's own file is
\* the target's.
LEMMA SourceIs ==
    ASSUME IInv, pc = "patch"
    PROVE  /\ Source \in ListSettings /\ Source.name = job.name
           /\ Has(targets, job.name) /\ job.name \in Carrier
           /\ job.entry = EntryOf(job.name) /\ job.entry \in ListEntry
           /\ JobOf(job, Source)
           /\ at \in 1 .. Len(dir.others) + 1 /\ Len(dir.others) \in Nat
           /\ Len(out.others) = Len(dir.others)
           /\ at <= Len(dir.others) => at \in DOMAIN dir.others /\ Source = dir.others[at]
           /\ at > Len(dir.others) =>
                 /\ todo # <<>> /\ Head(todo) = job.name
                 /\ job.name \in DOMAIN dir.own /\ Source = dir.own[job.name].set
<1>1. TypeOK /\ JobSound /\ Written
  BY DEF IInv
<1>2. at \in 1 .. Len(dir.others) + 1 /\ Len(out.others) = Len(dir.others)
  BY <1>1 DEF Written, SoFar, OthersDone, OwnDone, Writing
<1>3. dir.others \in Seq(ListSettings) /\ dir.own \in [DOMAIN dir.own -> ListFile]
  BY <1>1 DEF TypeOK, IsListDir
<1>4. /\ Has(targets, job.name) /\ job.name = Source.name
      /\ job.entry = EntryOf(job.name) /\ JobOf(job, Source)
      /\ at > Len(dir.others) => todo # <<>> /\ Head(todo) \in DOMAIN dir.own /\ job.name = Head(todo)
  BY <1>1 DEF JobSound
<1>5. job.name \in Carrier /\ job.entry \in ListEntry
  BY <1>1, JobTyped
<1>6. Source \in ListSettings
  <2>1. CASE at <= Len(dir.others)
    BY <1>2, <1>3, <2>1 DEF Source
  <2>2. CASE at > Len(dir.others)
    <3>1. dir.own[Head(todo)] \in ListFile
      BY <1>3, <1>4, <2>2
    <3> QED
      BY <1>2, <1>3, <2>2, <3>1 DEF Source, ListFile
  <2> QED
    BY <1>2, <1>3, <2>1, <2>2
<1>7. at <= Len(dir.others) => at \in DOMAIN dir.others /\ Source = dir.others[at]
  BY <1>2, <1>3 DEF Source
<1>8. at > Len(dir.others) => Source = dir.own[job.name].set
  BY <1>2, <1>3, <1>4 DEF Source
<1> QED
  BY <1>2, <1>3, <1>4, <1>5, <1>6, <1>7, <1>8

\* A target's own file holds it.
LEMMA OwnIs ==
    ASSUME IInv, NEW c \in DOMAIN dir.own, Has(targets, c)
    PROVE  dir.own[c].set \in ListSettings /\ dir.own[c].set.name = c
<1>1. TypeOK /\ PlanSound
  BY DEF IInv
<1>2. Stock(c) \in {"plain", "certified"}
  BY <1>1, TargetIs
<1>3. dir.own[c].set.name = c
  BY <1>2 DEF Stock
<1>4. dir.own[c] \in ListFile
  BY <1>1 DEF TypeOK, IsListDir
<1> QED
  BY <1>3, <1>4 DEF ListFile

LEMMA FinishDoes ==
    ASSUME IInv, Finish
    PROVE  /\ pc = "patch"
           /\ PatchedTo(Source, Patched(job), EntryOf(job.name))
           /\ Tells(Report(job), Source) /\ Report(job) \in Reports
<1>1. pc = "patch" /\ job.bools = {} /\ job.arrays = {}
  BY DEF Finish, Patching
<1> QED
  BY <1>1, SourceIs, JobDone

LEMMA JobStep ==
    ASSUME IInv, Next
    PROVE  JobSound'
<1>1. TypeOK /\ PlanSound /\ Written /\ JobSound
  BY DEF IInv
<1>2. dir.others \in Seq(ListSettings)
  BY <1>1 DEF TypeOK, IsListDir
<1>3. ASSUME NEW s \in ListSettings, NEW c, Has(targets, c)
      PROVE  /\ JobOf(Start(s, c), s) /\ Start(s, c).name = c /\ Start(s, c).entry = EntryOf(c)
  BY <1>1, <1>3, StartSound, TargetIs DEF Start
<1>4. CASE TakeSettings
  <2>1. /\ pc = "others" /\ at \in DOMAIN out.others /\ Has(targets, out.others[at].name)
        /\ job' = Start(out.others[at], out.others[at].name)
        /\ dir' = dir /\ cfg' = cfg /\ present' = present /\ targets' = targets /\ at' = at
    BY <1>4 DEF TakeSettings, AtSettings
  <2>2. at \in 1 .. Len(dir.others) /\ out.others[at] = dir.others[at] /\ dir.others[at] \in ListSettings
    BY <1>1, <1>2, <2>1 DEF Written, SoFar, OthersDone, OwnDone, Writing, TypeOK, IsListDir
  <2>3. Source' = dir.others[at]
    BY <1>2, <2>1, <2>2 DEF Source
  <2>4. /\ JobOf(job', Source') /\ job'.name = dir.others[at].name
        /\ job'.entry = EntryOf(dir.others[at].name)
    BY <1>3, <2>1, <2>2, <2>3
  <2> QED
    BY <1>2, <2>1, <2>2, <2>3, <2>4, SameInputs DEF JobSound
<1>5. CASE TakeOwn
  <2> DEFINE c == Head(todo)
  <2>1. /\ pc = "own" /\ todo # <<>> /\ c \in DOMAIN dir.own
        /\ job' = Start(dir.own[c].set, c)
        /\ dir' = dir /\ cfg' = cfg /\ present' = present /\ targets' = targets /\ at' = at /\ todo' = todo
    BY <1>5 DEF TakeOwn, AtOwn
  <2>2. at = Len(dir.others) + 1 /\ Has(targets, c)
    <3>1. c \in ToSet(todo)
      BY <1>1, <2>1, InSeq DEF TypeOK
    <3> QED
      BY <1>1, <2>1, <3>1 DEF Written, SoFar, OthersDone, OwnDone, Writing
  <2>3. dir.own[c].set \in ListSettings /\ dir.own[c].set.name = c
    BY <2>1, <2>2, OwnIs
  <2>4. Source' = dir.own[c].set
    BY <1>2, <2>1, <2>2 DEF Source
  <2>5. JobOf(job', Source') /\ job'.name = c /\ job'.entry = EntryOf(c)
    BY <1>3, <2>1, <2>2, <2>3, <2>4
  <2> QED
    BY <2>1, <2>2, <2>3, <2>4, <2>5, SameInputs DEF JobSound
<1>6. CASE SetFlag \/ SetArray
  <2>1. /\ pc = "patch" /\ pc' = "patch" /\ todo' = todo /\ at' = at
        /\ dir' = dir /\ cfg' = cfg /\ present' = present /\ targets' = targets
    BY <1>6 DEF SetFlag, SetArray, Patching
  <2>2. IsJob(job) /\ JobOf(job, Source) /\ job.entry \in ListEntry
    BY <2>1, SourceIs DEF JobOf
  <2>3. ASSUME NEW key \in Key, NEW val \in Value, NEW set, set = SetConfig(job, key, val)
        PROVE  IsJob(set) /\ set.name = job.name /\ set.entry = job.entry
    BY <2>2, <2>3, SetConfigDoes
  <2>4. JobOf(job', Source) /\ job'.name = job.name /\ job'.entry = job.entry
    <3>1. CASE SetFlag
      <4>1. PICK key \in job.bools :
               job' = [SetConfig(job, key, Flags2Write(job.entry)[key]) EXCEPT !.bools = @ \ {key}]
        BY <3>1 DEF SetFlag
      <4>2. key \in Key /\ Flags2Write(job.entry)[key] \in Value
        BY <2>2, WritesTyped DEF JobOf
      <4> DEFINE set == SetConfig(job, key, Flags2Write(job.entry)[key])
      <4>3. IsJob(set) /\ set.name = job.name /\ set.entry = job.entry
        BY <2>3, <4>2
      <4> HIDE DEF set
      <4>4. LET new == [set EXCEPT !.bools = @ \ {key}]
            IN  new.name = set.name /\ new.entry = set.entry
        BY <4>3, LessFlags
      <4>5. JobOf(job', Source)
        BY <2>2, <4>1, SetFlagSound
      <4> QED
        BY <4>1, <4>3, <4>4, <4>5 DEF set
    <3>2. CASE SetArray
      <4>1. PICK key \in job.arrays :
               job' = [SetConfig(job, key, job.entry.arrays[key]) EXCEPT !.arrays = @ \ {key}]
        BY <3>2 DEF SetArray
      <4>2. key \in Key /\ job.entry.arrays[key] \in Value
        BY <2>2, WritesTyped DEF JobOf
      <4> DEFINE set == SetConfig(job, key, job.entry.arrays[key])
      <4>3. IsJob(set) /\ set.name = job.name /\ set.entry = job.entry
        BY <2>3, <4>2
      <4> HIDE DEF set
      <4>4. LET new == [set EXCEPT !.arrays = @ \ {key}]
            IN  new.name = set.name /\ new.entry = set.entry
        BY <4>3, LessArrays
      <4>5. job.bools = {}
        BY <3>2 DEF SetArray
      <4>6. JobOf(job', Source)
        BY <2>2, <4>1, <4>5, SetArraySound
      <4> QED
        BY <4>1, <4>3, <4>4, <4>6 DEF set
    <3> QED
      BY <1>6, <3>1, <3>2
  <2>5. Source' = Source
    BY <2>1 DEF Source
  <2> QED
    BY <1>1, <2>1, <2>4, <2>5, SameInputs DEF JobSound
<1>7. CASE \/ PassOver \/ Refuse \/ Leave \/ Take \/ NothingToPatch \/ BeginOthers
           \/ SkipSettings \/ OthersWritten \/ SkipOwn \/ OwnWritten
           \/ FinishSettings \/ FinishOwn \/ RecordTarget \/ RecordLeft \/ Again
  <2>1. pc' # "patch"
    BY <1>7 DEF PassOver, Refuse, Leave, Take, Planning, NothingToPatch, BeginOthers,
                SkipSettings, AtSettings, OthersWritten, SkipOwn, AtOwn, OwnWritten,
                FinishSettings, FinishOwn, RecordTarget, RecordLeft, Again
  <2> QED
    BY <2>1 DEF JobSound
<1> QED
  BY <1>4, <1>5, <1>6, <1>7 DEF Next

\* What is said of others.pb and of the targets' own files is kept where they are.
LEMMA FilesKept ==
    ASSUME dir' = dir, cfg' = cfg, present' = present, targets' = targets
    PROVE  /\ out'.others = out.others /\ at' = at /\ OthersDone => OthersDone'
           /\ out'.own = out.own /\ OwnDone
                 /\ (pc' \in {"own", "patch"} =>
                        /\ \A c \in ToSet(todo') : Has(targets, c)
                        /\ \A c \in DOMAIN dir.own : Has(targets, c) => c \in DOMAIN out.own \cup ToSet(todo'))
                 /\ (pc' \in {"record", "done"} =>
                        \A c \in DOMAIN dir.own : Has(targets, c) => c \in DOMAIN out.own)
              => OwnDone'
<1>1. ASSUME out'.others = out.others, at' = at, OthersDone PROVE OthersDone'
  BY <1>1, SameInputs DEF OthersDone
<1>2. ASSUME out'.own = out.own, OwnDone,
             pc' \in {"own", "patch"} =>
                /\ \A c \in ToSet(todo') : Has(targets, c)
                /\ \A c \in DOMAIN dir.own : Has(targets, c) => c \in DOMAIN out.own \cup ToSet(todo'),
             pc' \in {"record", "done"} =>
                \A c \in DOMAIN dir.own : Has(targets, c) => c \in DOMAIN out.own
      PROVE  OwnDone'
  BY <1>2, SameInputs DEF OwnDone
<1> QED
  BY <1>1, <1>2

LEMMA WrittenStep ==
    ASSUME IInv, Next
    PROVE  Written'
<1>1. TypeOK /\ (Writing => SoFar /\ OthersDone /\ OwnDone)
  BY DEF IInv, Written
<1>2. /\ dir.others \in Seq(ListSettings) /\ out.others \in Seq(ListSettings)
      /\ dir.own \in [DOMAIN dir.own -> ListFile] /\ at \in Nat
      /\ out = [ver |-> out.ver, others |-> out.others, own |-> out.own]
      /\ DOMAIN dir.others = 1 .. Len(dir.others) /\ DOMAIN out.others = 1 .. Len(out.others)
      /\ Len(dir.others) \in Nat
  BY <1>1 DEF TypeOK, IsListDir
<1>3. SUFFICES ASSUME Writing' PROVE SoFar' /\ OthersDone' /\ OwnDone'
  BY DEF Written
<1>4. ~(PassOver \/ Refuse \/ Leave \/ Take \/ NothingToPatch \/ Again)
  BY <1>3 DEF PassOver, Refuse, Leave, Take, Planning, NothingToPatch, Again, Writing
<1>5. CASE BeginOthers
  <2>1. /\ pc' = "others" /\ at' = 1 /\ dir' = dir /\ cfg' = cfg /\ present' = present /\ targets' = targets
        /\ out'.ver = dir.ver + 1 /\ out'.others = dir.others /\ out'.own = NoFiles.own
    BY <1>5 DEF BeginOthers
  <2>2. DOMAIN NoFiles.own = {}
    BY DEF NoFiles, Maps!Nothing
  <2>3. SoFar'
    BY <1>2, <2>1 DEF SoFar
  <2>4. OthersDone'
    BY <1>2, <2>1 DEF OthersDone
  <2>5. OwnDone'
    BY <2>1, <2>2 DEF OwnDone
  <2> QED
    BY <2>3, <2>4, <2>5
<1>6. CASE SkipSettings
  <2>1. /\ pc = "others" /\ pc' = "others" /\ at \in DOMAIN out.others /\ at' = at + 1
        /\ ~Has(targets, out.others[at].name)
        /\ dir' = dir /\ cfg' = cfg /\ present' = present /\ targets' = targets /\ out' = out
    BY <1>6 DEF SkipSettings, AtSettings
  <2>2. SoFar /\ OthersDone /\ OwnDone
    BY <1>1, <2>1 DEF Writing
  <2>3. at \in 1 .. Len(dir.others) /\ out.others[at] = dir.others[at]
    BY <1>2, <2>1, <2>2 DEF SoFar, OthersDone
  <2>4. SoFar'
    BY <1>2, <2>1, <2>2, <2>3 DEF SoFar
  <2>5. \A i \in DOMAIN dir.others :
           IF i < at + 1 /\ Has(targets, dir.others[i].name)
           THEN PatchedTo(dir.others[i], out.others[i], EntryOf(dir.others[i].name))
           ELSE out.others[i] = dir.others[i]
    BY <1>2, <2>1, <2>2, <2>3 DEF OthersDone
  <2>6. OthersDone'
    BY <2>1, <2>5, SameInputs DEF OthersDone
  <2>7. OwnDone'
    BY <2>1, <2>2, FilesKept
  <2> QED
    BY <2>4, <2>6, <2>7
<1>7. CASE TakeSettings \/ SetFlag \/ SetArray \/ TakeOwn
  <2>1. /\ dir' = dir /\ cfg' = cfg /\ present' = present /\ targets' = targets
        /\ out' = out /\ at' = at /\ todo' = todo /\ pc' = "patch"
        /\ \/ pc = "patch"
           \/ pc = "others" /\ at \in DOMAIN out.others
           \/ pc = "own"
    BY <1>7 DEF TakeSettings, AtSettings, SetFlag, SetArray, Patching, TakeOwn, AtOwn
  <2>2. SoFar /\ OthersDone /\ OwnDone
    BY <1>1, <2>1 DEF Writing
  <2>3. SoFar'
    BY <1>2, <2>1, <2>2 DEF SoFar
  <2>4. OthersDone'
    BY <2>1, <2>2, FilesKept
  <2>5. OwnDone'
    <3>1. pc = "others" => at <= Len(dir.others)
      BY <1>2, <2>1, <2>2 DEF SoFar
    <3> QED
      BY <1>2, <2>1, <2>2, <3>1, SameInputs DEF OwnDone
  <2> QED
    BY <2>3, <2>4, <2>5
<1>8. CASE OthersWritten \/ SkipOwn \/ OwnWritten \/ RecordTarget \/ RecordLeft
  <2>1. /\ dir' = dir /\ cfg' = cfg /\ present' = present /\ targets' = targets
        /\ out' = out /\ at' = at
        /\ \/ pc = "others" /\ pc' = "own" /\ at \notin DOMAIN out.others /\ todo' = Names(targets)
           \/ /\ pc = "own" /\ pc' = "own" /\ todo # <<>> /\ todo' = Tail(todo)
              /\ Head(todo) \notin DOMAIN dir.own
           \/ pc = "own" /\ pc' = "record" /\ todo = <<>>
           \/ pc = "record" /\ pc' \in {"record", "done"}
    BY <1>8 DEF OthersWritten, SkipOwn, AtOwn, OwnWritten, RecordTarget, RecordLeft
  <2>2. SoFar /\ OthersDone /\ OwnDone
    BY <1>1, <2>1 DEF Writing
  <2>3. SoFar'
    BY <1>2, <2>1, <2>2 DEF SoFar
  <2>4. OthersDone'
    BY <2>1, <2>2, FilesKept
  <2>5. CASE pc = "others" /\ pc' = "own" /\ todo' = Names(targets)
    <3>1. \A c : c \in ToSet(todo') <=> Has(targets, c)
      BY <1>1, <2>5, NamesAre DEF TypeOK
    <3> QED
      BY <2>1, <2>2, <2>3, <2>4, <2>5, <3>1, FilesKept
  <2>6. CASE /\ pc = "own" /\ pc' = "own" /\ todo # <<>> /\ todo' = Tail(todo)
             /\ Head(todo) \notin DOMAIN dir.own
    <3>1. \A x : x \in ToSet(todo) <=> x = Head(todo) \/ x \in ToSet(todo')
      BY <1>1, <2>6, InSeq DEF TypeOK
    <3>2. /\ \A c \in ToSet(todo') : Has(targets, c)
          /\ \A c \in DOMAIN dir.own : Has(targets, c) => c \in DOMAIN out.own \cup ToSet(todo')
      BY <2>2, <2>6, <3>1 DEF OwnDone
    <3> QED
      BY <2>1, <2>2, <2>3, <2>4, <2>6, <3>2, FilesKept
  <2>7. CASE pc = "own" /\ pc' = "record" /\ todo = <<>>
    <3>1. \A c : c \notin ToSet(todo)
      BY <2>7 DEF ToSet
    <3>2. \A c \in DOMAIN dir.own : Has(targets, c) => c \in DOMAIN out.own
      BY <2>2, <2>7, <3>1 DEF OwnDone
    <3> QED
      BY <2>1, <2>2, <2>3, <2>4, <2>7, <3>2, FilesKept
  <2>8. CASE pc = "record" /\ pc' \in {"record", "done"}
    <3>1. \A c \in DOMAIN dir.own : Has(targets, c) => c \in DOMAIN out.own
      BY <2>2, <2>8 DEF OwnDone
    <3> QED
      BY <2>1, <2>2, <2>3, <2>4, <2>8, <3>1, FilesKept
  <2> QED
    BY <2>1, <2>5, <2>6, <2>7, <2>8
<1>9. CASE FinishSettings
  <2>1. /\ dir' = dir /\ cfg' = cfg /\ present' = present /\ targets' = targets
        /\ at' = at + 1 /\ pc' = "others" /\ Finish /\ at \in DOMAIN out.others
        /\ out' = [out EXCEPT !.others[at] = Patched(job)]
    BY <1>9 DEF FinishSettings, Finish, Patching
  <2>2. /\ pc = "patch" /\ PatchedTo(Source, Patched(job), EntryOf(job.name))
    BY <2>1, FinishDoes
  <2>3. SoFar /\ OthersDone /\ OwnDone
    BY <1>1, <2>2 DEF Writing
  <2>4. /\ at \in 1 .. Len(dir.others) /\ Source = dir.others[at]
        /\ job.name = dir.others[at].name /\ Has(targets, job.name)
    BY <1>2, <2>1, <2>2, SourceIs
  <2>5. /\ out'.ver = out.ver /\ out'.own = out.own
        /\ Len(out'.others) = Len(out.others) /\ out'.others[at] = Patched(job)
        /\ \A i \in DOMAIN out.others : i # at => out'.others[i] = out.others[i]
    BY <1>2, <2>1
  <2>6. SoFar'
    BY <1>2, <2>1, <2>2, <2>3, <2>4, <2>5 DEF SoFar
  <2>7. \A i \in DOMAIN dir.others :
           IF i < at + 1 /\ Has(targets, dir.others[i].name)
           THEN PatchedTo(dir.others[i], out'.others[i], EntryOf(dir.others[i].name))
           ELSE out'.others[i] = dir.others[i]
    BY <1>2, <2>2, <2>3, <2>4, <2>5 DEF SoFar, OthersDone
  <2>8. dir' = dir /\ cfg' = cfg /\ present' = present /\ targets' = targets /\ at' = at + 1 /\ pc' = "others"
    BY <2>1
  <2>9. OthersDone'
    BY <2>7, <2>8, SameInputs DEF OthersDone
  <2>10. OwnDone'
    BY <2>3, <2>5, <2>8, FilesKept
  <2> QED
    BY <2>6, <2>9, <2>10
<1>10. CASE FinishOwn
  <2> DEFINE c == job.name
  <2>1. /\ dir' = dir /\ cfg' = cfg /\ present' = present /\ targets' = targets
        /\ at' = at /\ pc' = "own" /\ Finish /\ at \notin DOMAIN out.others /\ todo' = Tail(todo)
        /\ out' = [out EXCEPT !.own = Maps!Over([x \in {c} |-> [ver |-> dir.own[x].ver + 1,
                                                               set |-> Patched(job)]], @)]
    BY <1>10 DEF FinishOwn, Finish, Patching
  <2>2. /\ pc = "patch" /\ PatchedTo(Source, Patched(job), EntryOf(job.name))
    BY <2>1, FinishDoes
  <2>3. SoFar /\ OthersDone /\ OwnDone
    BY <1>1, <2>2 DEF Writing
  <2>4. /\ at = Len(dir.others) + 1 /\ c \in DOMAIN dir.own /\ Source = dir.own[c].set
        /\ Has(targets, c) /\ todo # <<>> /\ Head(todo) = c
    BY <1>2, <2>1, <2>2, SourceIs
  <2>5. /\ out'.ver = out.ver /\ out'.others = out.others
        /\ DOMAIN out'.own = DOMAIN out.own \cup {c}
        /\ out'.own[c] = [ver |-> dir.own[c].ver + 1, set |-> Patched(job)]
        /\ \A x \in DOMAIN out.own : x # c => out'.own[x] = out.own[x]
    <3> DEFINE f == [x \in {c} |-> [ver |-> dir.own[x].ver + 1, set |-> Patched(job)]]
               own == Maps!Over(f, out.own)
    <3>1. out'.ver = out.ver /\ out'.others = out.others /\ out'.own = own
      BY <1>2, <2>1
    <3>2. /\ DOMAIN own = DOMAIN out.own \cup {c}
          /\ own[c] = [ver |-> dir.own[c].ver + 1, set |-> Patched(job)]
          /\ \A x \in DOMAIN out.own : x # c => own[x] = out.own[x]
      BY DEF Maps!Over
    <3> HIDE DEF own
    <3> QED
      BY <3>1, <3>2
  <2>6. \A x : x \in ToSet(todo) <=> x = c \/ x \in ToSet(todo')
    BY <1>1, <2>1, <2>4, InSeq DEF TypeOK
  <2>7. SoFar'
    BY <1>2, <2>1, <2>3, <2>4, <2>5 DEF SoFar
  <2>8. dir' = dir /\ cfg' = cfg /\ present' = present /\ targets' = targets /\ at' = at /\ pc' = "own"
    BY <2>1
  <2>9. OthersDone'
    BY <2>3, <2>5, <2>8, FilesKept
  <2>10. \A x \in DOMAIN out'.own :
            /\ Has(targets, x) /\ x \in DOMAIN dir.own
            /\ out'.own[x].ver = dir.own[x].ver + 1
            /\ PatchedTo(dir.own[x].set, out'.own[x].set, EntryOf(x))
    BY <2>2, <2>3, <2>4, <2>5 DEF OwnDone
  <2>11. at > Len(dir.others)
    BY <1>2, <2>4
  <2>12. /\ \A x \in ToSet(todo') : Has(targets, x)
         /\ \A x \in DOMAIN dir.own : Has(targets, x) => x \in DOMAIN out'.own \cup ToSet(todo')
    BY <2>2, <2>3, <2>5, <2>6, <2>11 DEF OwnDone
  <2> HIDE DEF c
  <2>13. OwnDone'
    BY <2>8, <2>10, <2>12, SameInputs DEF OwnDone
  <2> QED
    BY <2>7, <2>9, <2>13
<1> QED
  BY <1>4, <1>5, <1>6, <1>7, <1>8, <1>9, <1>10 DEF Next
-----------------------------------------------------------------------------
(* The reports *)

LEMMA SameTells ==
    ASSUME dir' = dir, cfg' = cfg, present' = present
    PROVE  \A r, s : Tells(r, s)' <=> Tells(r, s)
BY SameInputs DEF Tells

\* No step but the end of a patch changes what is reported.
LEMMA ReportsKept ==
    ASSUME IInv, dir' = dir, cfg' = cfg, present' = present, Finished' = Finished,
           reports' = reports, changed' = changed, Writing
    PROVE  Reported'
<1>1. Reported
  BY DEF IInv
<1> QED
  BY <1>1, SameTells, SameInputs DEF Reported

\* The first report of a carrier is of its first settings.
LEMMA FirstReport ==
    ASSUME IInv, Finish, ~Has(reports, job.name)
    PROVE  Source = First(job.name)
<1> DEFINE c == job.name
<1>1. pc = "patch" /\ Writing
  BY DEF Finish, Patching, Writing
<1>2. dir.others \in Seq(ListSettings) /\ reports \in Seq(Reports)
  BY DEF IInv, TypeOK, IsListDir
<1>3. ASSUME NEW i \in DOMAIN dir.others, i < at PROVE dir.others[i].name # c
  <2>1. SUFFICES ASSUME dir.others[i].name = c PROVE FALSE
    OBVIOUS
  <2>2. dir.others[i] \in Finished
    BY <1>1, <1>3, <2>1, SourceIs DEF Finished
  <2>3. PICK k \in DOMAIN reports : Tells(reports[k], dir.others[i])
    BY <1>1, <2>2 DEF IInv, Reported
  <2>4. reports[k].name = c
    BY <2>1, <2>3 DEF Tells
  <2>5. Has(reports, c)
    BY <1>2, <2>4, NamedIs
  <2> QED
    BY <2>5
<1>4. CASE at <= Len(dir.others)
  <2>1. at \in DOMAIN dir.others /\ Source = dir.others[at] /\ dir.others[at].name = c
    BY <1>1, <1>4, SourceIs
  <2>2. Named(dir.others, c) = at
    BY <1>2, <1>3, <2>1, NamedUnique
  <2>3. Has(dir.others, c)
    BY <1>2, <2>1, NamedIs
  <2> QED
    BY <2>1, <2>2, <2>3 DEF First
<1>5. CASE at > Len(dir.others)
  <2>1. Source = dir.own[c].set /\ at = Len(dir.others) + 1
    BY <1>1, <1>5, SourceIs
  <2>2. ~Has(dir.others, c)
    <3>1. DOMAIN dir.others = 1 .. Len(dir.others) /\ Len(dir.others) \in Nat
      BY <1>2
    <3>2. \A i \in DOMAIN dir.others : dir.others[i].name # c
      BY <1>3, <2>1, <3>1
    <3> QED
      BY <1>2, <3>2, NamedIs
  <2> QED
    BY <2>1, <2>2 DEF First
<1> QED
  BY <1>1, <1>4, <1>5, SourceIs

\* The end of a patch adds a report.
LEMMA ReportAdded ==
    ASSUME IInv, Finish, Finished' = Finished \cup {Source}
    PROVE  Reported'
<1> DEFINE r == Report(job)
<1>1. /\ pc = "patch" /\ reports' = Append(reports, r) /\ changed' = changed + Changes(r)
      /\ dir' = dir /\ cfg' = cfg /\ present' = present
  BY DEF Finish, Patching
<1>2. /\ reports \in Seq(Reports) /\ changed \in Nat
      /\ Tells(r, Source) /\ r \in Reports /\ r.name = job.name
  BY FinishDoes DEF IInv, TypeOK, Report
<1>3. Reported /\ Writing
  BY <1>1 DEF IInv, Writing
<1> HIDE DEF r
<1>4. /\ DOMAIN reports' = 1 .. Len(reports) + 1 /\ DOMAIN reports = 1 .. Len(reports)
      /\ reports'[Len(reports) + 1] = r /\ \A i \in DOMAIN reports : reports'[i] = reports[i]
      /\ Len(reports) \in Nat
  BY <1>1, <1>2
<1>5. \A s \in Finished \cup {Source} : \E i \in DOMAIN reports' : Tells(reports'[i], s)
  <2>1. ASSUME NEW s \in Finished PROVE \E i \in DOMAIN reports' : Tells(reports'[i], s)
    <3>1. PICK i \in DOMAIN reports : Tells(reports[i], s)
      BY <1>3, <2>1 DEF Reported
    <3> QED
      BY <1>4, <3>1
  <2>2. Tells(reports'[Len(reports) + 1], Source)
    BY <1>2, <1>4
  <2> QED
    BY <1>4, <2>1, <2>2
<1>6. \A i \in DOMAIN reports' : \E s \in Finished \cup {Source} : Tells(reports'[i], s)
  BY <1>2, <1>3, <1>4 DEF Reported
<1>7. ASSUME NEW c \in Carrier, Has(reports', c)
      PROVE  Tells(reports'[Named(reports', c)], First(c))
  <2>1. CASE Has(reports, c)
    <3>1. Named(reports', c) = Named(reports, c)
      BY <1>1, <1>2, <2>1, NamedAppend
    <3>2. Named(reports, c) \in DOMAIN reports
      BY <1>2, <2>1, NamedIs
    <3> QED
      BY <1>3, <1>4, <2>1, <3>1, <3>2 DEF Reported
  <2>2. CASE ~Has(reports, c)
    <3>1. r.name = c /\ Named(reports', c) = Len(reports) + 1
      BY <1>1, <1>2, <1>7, <2>2, NamedAppend
    <3>2. Source = First(c)
      BY <1>2, <2>2, <3>1, FirstReport
    <3> QED
      BY <1>2, <1>4, <3>1, <3>2
  <2> QED
    BY <2>1, <2>2
<1>8. (changed' = 0) <=> \A i \in DOMAIN reports' : Changes(reports'[i]) = 0
  <2>1. Changes(r) \in Nat
    BY <1>2 DEF Changes, Reports
  <2>2. (changed = 0) <=> \A i \in DOMAIN reports : Changes(reports[i]) = 0
    BY <1>3 DEF Reported
  <2>3. (changed' = 0) <=> (changed = 0 /\ Changes(r) = 0)
    BY <1>1, <1>2, <2>1
  <2>4. (\A i \in DOMAIN reports' : Changes(reports'[i]) = 0)
           <=> (\A i \in DOMAIN reports : Changes(reports[i]) = 0) /\ Changes(r) = 0
    <3>1. \A i \in DOMAIN reports' : i \in DOMAIN reports \/ i = Len(reports) + 1
      BY <1>4
    <3>2. Len(reports) + 1 \in DOMAIN reports' /\ DOMAIN reports \subseteq DOMAIN reports'
      BY <1>4
    <3> QED
      BY <1>4, <3>1, <3>2
  <2> QED
    BY <2>2, <2>3, <2>4
<1>9. dir' = dir /\ cfg' = cfg /\ present' = present
  BY <1>1
<1> QED
  BY <1>5, <1>6, <1>7, <1>8, <1>9, SameTells, SameInputs DEF Reported

LEMMA ReportedStep ==
    ASSUME IInv, Next
    PROVE  Reported'
<1>1. TypeOK /\ Written /\ Unwritten
  BY DEF IInv
<1>2. /\ dir.others \in Seq(ListSettings) /\ at \in Nat
      /\ DOMAIN dir.others = 1 .. Len(dir.others) /\ Len(dir.others) \in Nat
      /\ out = [ver |-> out.ver, others |-> out.others, own |-> out.own]
      /\ DOMAIN out.others = 1 .. Len(out.others)
  BY <1>1 DEF TypeOK, IsListDir
<1>3. CASE PassOver \/ Refuse \/ Leave \/ Take \/ NothingToPatch \/ Again
  <2>1. ~Writing'
    BY <1>3 DEF PassOver, Refuse, Leave, Take, Planning, NothingToPatch, Again, Writing
  <2> QED
    BY <2>1 DEF Reported
<1>4. CASE BeginOthers
  <2>1. /\ pc = "plan" /\ at' = 1 /\ out'.own = NoFiles.own /\ dir' = dir /\ cfg' = cfg /\ present' = present
        /\ reports' = reports /\ changed' = changed
    BY <1>4 DEF BeginOthers
  <2>2. reports = <<>> /\ changed = 0
    BY <1>1, <2>1 DEF Unwritten, Writing
  <2>3. Finished' = {}
    <3>1. DOMAIN out'.own = {}
      BY <2>1 DEF NoFiles, Maps!Nothing
    <3>2. \A j \in DOMAIN dir.others : ~(j < 1)
      BY <1>2
    <3> QED
      BY <2>1, <3>1, <3>2 DEF Finished
  <2>4. DOMAIN reports = {} /\ reports \in Seq(Reports)
    BY <1>1, <2>2 DEF TypeOK
  <2>5. ASSUME NEW c PROVE ~Has(reports, c)
    BY <2>4, NamedIs
  <2>6. \A c : ~Has(reports', c)
    BY <2>1, <2>5
  <2>7. DOMAIN reports' = {} /\ changed' = 0
    BY <2>1, <2>2, <2>4
  <2> QED
    BY <2>3, <2>6, <2>7 DEF Reported
<1>5. CASE SkipSettings
  <2>1. /\ pc = "others" /\ at \in DOMAIN out.others /\ at' = at + 1
        /\ ~Has(targets, out.others[at].name) /\ targets' = targets
        /\ dir' = dir /\ cfg' = cfg /\ present' = present /\ out' = out
        /\ reports' = reports /\ changed' = changed
    BY <1>5 DEF SkipSettings, AtSettings
  <2>2. Writing
    BY <2>1 DEF Writing
  <2>3. out.others[at] = dir.others[at]
    BY <1>1, <1>2, <2>1, <2>2 DEF Written, SoFar, OthersDone, OwnDone
  <2>4. Finished' = Finished
    <3>1. \A j \in DOMAIN dir.others : j < at + 1 /\ Has(targets, dir.others[j].name)
                                         <=> j < at /\ Has(targets, dir.others[j].name)
      BY <1>2, <2>1, <2>3
    <3>2. {j \in DOMAIN dir.others : j < at + 1 /\ Has(targets, dir.others[j].name)}
             = {j \in DOMAIN dir.others : j < at /\ Has(targets, dir.others[j].name)}
      BY <3>1
    <3> QED
      BY <2>1, <3>2 DEF Finished
  <2> QED
    BY <2>1, <2>2, <2>4, ReportsKept
<1>6. CASE \/ TakeSettings \/ SetFlag \/ SetArray \/ TakeOwn \/ OthersWritten \/ SkipOwn
           \/ OwnWritten \/ RecordTarget \/ RecordLeft
  <2>1. /\ pc \in {"others", "own", "patch", "record"} /\ at' = at
        /\ dir' = dir /\ cfg' = cfg /\ present' = present /\ out' = out /\ targets' = targets
        /\ reports' = reports /\ changed' = changed
    BY <1>6 DEF TakeSettings, AtSettings, SetFlag, SetArray, Patching, TakeOwn, SkipOwn, AtOwn,
                OthersWritten, OwnWritten, RecordTarget, RecordLeft
  <2>2. Writing /\ Finished' = Finished
    BY <2>1 DEF Writing, Finished
  <2> QED
    BY <2>1, <2>2, ReportsKept
<1>7. CASE FinishSettings
  <2>1. /\ Finish /\ at \in DOMAIN out.others /\ at' = at + 1 /\ dir' = dir /\ targets' = targets
        /\ out' = [out EXCEPT !.others[at] = Patched(job)]
    BY <1>7 DEF FinishSettings, Finish, Patching
  <2>2. at \in DOMAIN dir.others /\ Source = dir.others[at] /\ Has(targets, dir.others[at].name)
    BY <1>2, <2>1, SourceIs, FinishDoes
  <2>3. out'.own = out.own
    BY <1>2, <2>1
  <2>4. Finished' = Finished \cup {Source}
    <3>1. \A j \in DOMAIN dir.others : j < at + 1 /\ Has(targets, dir.others[j].name)
                                         <=> (j < at /\ Has(targets, dir.others[j].name)) \/ j = at
      BY <1>2, <2>1, <2>2
    <3>2. {j \in DOMAIN dir.others : j < at + 1 /\ Has(targets, dir.others[j].name)}
             = {j \in DOMAIN dir.others : j < at /\ Has(targets, dir.others[j].name)} \cup {at}
      BY <2>2, <3>1
    <3> DEFINE before == {j \in DOMAIN dir.others : j < at /\ Has(targets, dir.others[j].name)}
    <3>3. Finished' = {dir.others[i] : i \in before \cup {at}} \cup {dir.own[c].set : c \in DOMAIN out.own}
      BY <2>1, <2>3, <3>2 DEF Finished
    <3>4. Finished = {dir.others[i] : i \in before} \cup {dir.own[c].set : c \in DOMAIN out.own}
      BY DEF Finished
    <3> HIDE DEF before
    <3> QED
      BY <2>2, <3>3, <3>4
  <2> QED
    BY <2>1, <2>4, ReportAdded
<1>8. CASE FinishOwn
  <2>1. /\ Finish /\ at \notin DOMAIN out.others /\ at' = at /\ dir' = dir /\ targets' = targets
        /\ out' = [out EXCEPT !.own = Maps!Over([x \in {job.name} |-> [ver |-> dir.own[x].ver + 1,
                                                                      set |-> Patched(job)]], @)]
    BY <1>8 DEF FinishOwn, Finish, Patching
  <2>2. Source = dir.own[job.name].set
    BY <1>2, <2>1, SourceIs, FinishDoes
  <2>3. DOMAIN out'.own = DOMAIN out.own \cup {job.name}
    BY <1>2, <2>1 DEF Maps!Over
  <2>4. Finished' = Finished \cup {Source}
    BY <2>1, <2>2, <2>3 DEF Finished
  <2> QED
    BY <2>1, <2>4, ReportAdded
<1> QED
  BY <1>3, <1>4, <1>5, <1>6, <1>7, <1>8 DEF Next
-----------------------------------------------------------------------------
(* The record *)

\* "each one has a report" (plan.rs:200).
LEMMA TargetReported ==
    ASSUME IInv, pc \in {"record", "done"}, NEW c, Has(targets, c)
    PROVE  Has(reports, c)
<1>1. TypeOK /\ PlanSound /\ Written /\ Reported
  BY DEF IInv
<1>2. dir.others \in Seq(ListSettings) /\ reports \in Seq(Reports) /\ targets \in Seq(Target)
  BY <1>1 DEF TypeOK, IsListDir
<1>3. targets # <<>>
  <2>1. Named(targets, c) \in DOMAIN targets
    BY <1>2, NamedIs
  <2> QED
    BY <2>1
<1>4. Writing
  BY <1>3 DEF Writing
<1>5. \E s \in Finished : s.name = c
  <2>1. CASE Has(dir.others, c)
    <3> DEFINE i == Named(dir.others, c)
    <3>1. i \in DOMAIN dir.others /\ dir.others[i].name = c
      BY <1>2, <2>1, NamedIs
    <3>2. at = Len(dir.others) + 1
      BY <1>1, <1>4 DEF Written, SoFar, OthersDone, OwnDone
    <3>3. i < at
      BY <1>2, <3>1, <3>2
    <3> HIDE DEF i
    <3>4. dir.others[i] \in Finished
      BY <3>1, <3>3 DEF Finished
    <3> QED
      BY <3>1, <3>4
  <2>2. CASE ~Has(dir.others, c)
    <3>1. c \in DOMAIN dir.own
      BY <1>1, <2>2, TargetIs DEF Stock
    <3>2. dir.own[c].set.name = c
      BY <3>1, OwnIs
    <3>3. c \in DOMAIN out.own
      BY <1>1, <1>4, <3>1 DEF Written, SoFar, OthersDone, OwnDone
    <3> QED
      BY <3>2, <3>3 DEF Finished
  <2> QED
    BY <2>1, <2>2
<1>6. PICK s \in Finished : s.name = c
  BY <1>5
<1>7. PICK k \in DOMAIN reports : Tells(reports[k], s)
  BY <1>1, <1>4, <1>6 DEF Reported
<1>8. reports[k].name = c
  BY <1>6, <1>7 DEF Tells
<1> QED
  BY <1>2, <1>8, NamedIs

LEMMA RecordedStep ==
    ASSUME IInv, Next
    PROVE  Recorded'
<1>1. TypeOK /\ PlanSound /\ Recorded
  BY DEF IInv
<1>2. targets \in Seq(Target) /\ left \in Seq(Alone) /\ todo \in Seq(Carrier)
  BY <1>1 DEF TypeOK
<1> DEFINE Entries == {EntryFor(i) : i \in DOMAIN targets}
<1>3. CASE PassOver \/ Refuse \/ Leave \/ Take
  BY <1>1, <1>3 DEF PassOver, Refuse, Leave, Take, Planning, Recorded
<1>4. CASE NothingToPatch
  <2>1. pc' = "done" /\ record' = left /\ left' = left /\ targets' = <<>>
    BY <1>4 DEF NothingToPatch
  <2>2. Len(targets') = 0 /\ DOMAIN left = 1 .. Len(left) /\ Len(left) \in Nat
    BY <1>2, <2>1
  <2> QED
    BY <2>1, <2>2 DEF Recorded
<1>5. CASE \/ BeginOthers \/ SkipSettings \/ TakeSettings \/ OthersWritten \/ SkipOwn \/ TakeOwn
           \/ SetFlag \/ SetArray \/ FinishSettings \/ FinishOwn
  <2>1. /\ pc \in {"plan", "others", "own", "patch"} /\ pc' \in {"others", "own", "patch"}
        /\ record' = record
    BY <1>5 DEF BeginOthers, SkipSettings, TakeSettings, AtSettings, OthersWritten, SkipOwn, TakeOwn,
                AtOwn, SetFlag, SetArray, FinishSettings, FinishOwn, Finish, Patching
  <2> QED
    BY <1>1, <2>1 DEF Recorded
<1>6. CASE OwnWritten
  <2>1. /\ pc = "own" /\ pc' = "record" /\ record' = record /\ todo' = Names(targets) /\ targets' = targets
    BY <1>6 DEF OwnWritten
  <2>2. record' = <<>>
    BY <1>1, <2>1 DEF Recorded
  <2>3. \A t \in Target : t.name \in Carrier
    BY DEF Target
  <2>4. Len(todo') = Len(targets) /\ \A i \in DOMAIN targets : todo'[i] = targets[i].name
    BY <1>2, <2>1, <2>3, NamesSeq
  <2>5. DOMAIN targets = 1 .. Len(targets) /\ Len(targets) \in Nat /\ \A i \in DOMAIN targets : 0 + i = i
    BY <1>2
  <2>6. record' \in Seq(Entries') /\ Len(record') = 0
    BY <2>2
  <2> HIDE DEF Entries
  <2>7. \A i \in 1 .. Len(todo') : todo'[i] = targets'[Len(record') + i].name
    BY <2>1, <2>4, <2>5, <2>6
  <2> QED
    BY <2>1, <2>4, <2>5, <2>6, <2>7 DEF Recorded, Entries
<1>7. CASE RecordTarget
  <2> DEFINE name == Head(todo)
             n == Len(record) + 1
             r == PatchedEntry(reports[Named(reports, name)], targets[Named(targets, name)].reason)
  <2>1. /\ pc = "record" /\ pc' = "record" /\ todo # <<>> /\ todo' = Tail(todo)
        /\ targets' = targets /\ reports' = reports
        /\ record' = IF Has(reports, name) THEN Append(record, r) ELSE record
    BY <1>7 DEF RecordTarget
  <2>2. /\ record \in Seq(Entries) /\ Len(record) + Len(todo) = Len(targets)
        /\ \A i \in 1 .. Len(record) : record[i] = EntryFor(i)
        /\ \A i \in 1 .. Len(todo) : todo[i] = targets[Len(record) + i].name
    BY <1>1, <2>1 DEF Recorded
  <2> HIDE DEF Entries
  <2>3. /\ Len(todo) \in Nat \ {0} /\ Len(record) \in Nat /\ name = todo[1]
        /\ Len(Tail(todo)) = Len(todo) - 1 /\ \A i \in 1 .. Len(todo) - 1 : Tail(todo)[i] = todo[i + 1]
        /\ DOMAIN targets = 1 .. Len(targets)
    BY <1>2, <2>1, <2>2
  <2>4. n \in DOMAIN targets /\ targets[n].name = name
    BY <2>2, <2>3
  <2>5. Has(targets, name) /\ Named(targets, name) = n
    <3>1. Has(targets, name)
      BY <1>2, <2>4, NamedIs
    <3>2. Named(targets, name) \in DOMAIN targets /\ targets[Named(targets, name)].name = name
      BY <1>2, <3>1, NamedIs
    <3> QED
      BY <1>1, <2>4, <3>1, <3>2 DEF PlanSound
  <2>6. Has(reports, name)
    BY <2>1, <2>5, TargetReported
  <2>7. r = EntryFor(n) /\ r \in Entries
    BY <2>4, <2>5 DEF EntryFor, Entries
  <2> HIDE DEF r
  <2>8. /\ record' \in Seq(Entries) /\ Len(record') = Len(record) + 1
        /\ record'[n] = r /\ \A i \in 1 .. Len(record) : record'[i] = record[i]
    BY <2>1, <2>2, <2>6, <2>7
  <2>9. \A i \in 1 .. Len(record') : record'[i] = EntryFor(i)
    <3>1. \A i \in 1 .. Len(record') : i \in 1 .. Len(record) \/ i = n
      BY <2>3, <2>8
    <3> HIDE DEF n
    <3> QED
      BY <2>2, <2>7, <2>8, <3>1
  <2>10. Len(record') + Len(todo') = Len(targets)
    BY <2>1, <2>2, <2>3, <2>8
  <2>11. \A i \in 1 .. Len(todo') : todo'[i] = targets[Len(record') + i].name
    <3>1. SUFFICES ASSUME NEW i \in 1 .. Len(todo) - 1
                   PROVE  Tail(todo)[i] = targets[Len(record) + 1 + i].name
      BY <2>1, <2>3, <2>8
    <3>2. i + 1 \in 1 .. Len(todo) /\ Len(record) + (i + 1) = Len(record) + 1 + i
      BY <2>3
    <3> QED
      BY <2>2, <2>3, <3>2
  <2>12. \A i : EntryFor(i)' = EntryFor(i)
    BY <2>1 DEF EntryFor
  <2> QED
    BY <2>1, <2>8, <2>9, <2>10, <2>11, <2>12 DEF Recorded, Entries
<1>8. CASE RecordLeft
  <2>1. /\ pc = "record" /\ pc' = "done" /\ todo = <<>> /\ record' = record \o left
        /\ targets' = targets /\ left' = left /\ reports' = reports
    BY <1>8 DEF RecordLeft
  <2>2. /\ record \in Seq(Entries) /\ Len(record) + Len(todo) = Len(targets)
        /\ \A i \in 1 .. Len(record) : record[i] = EntryFor(i)
    BY <1>1, <2>1 DEF Recorded
  <2> HIDE DEF Entries
  <2>3. Len(record) = Len(targets) /\ Len(record) \in Nat /\ Len(left) \in Nat
    BY <1>2, <2>1, <2>2
  <2>4. /\ record \in Seq(Entries \cup Alone) /\ left \in Seq(Entries \cup Alone)
    BY <1>2, <2>2
  <2>5. /\ DOMAIN record' = 1 .. Len(record) + Len(left)
        /\ \A i \in 1 .. Len(record) : record'[i] = record[i]
        /\ \A i \in 1 .. Len(left) : record'[Len(record) + i] = left[i]
    BY <2>1, <2>4
  <2>6. \A i : EntryFor(i)' = EntryFor(i)
    BY <2>1 DEF EntryFor
  <2> QED
    BY <2>1, <2>2, <2>3, <2>5, <2>6 DEF Recorded
<1>9. CASE Again
  BY <1>9 DEF Again, Recorded
<1> QED
  BY <1>3, <1>4, <1>5, <1>6, <1>7, <1>8, <1>9 DEF Next
-----------------------------------------------------------------------------
(* The output *)

\* What has been patched holds what was asked for.
LEMMA PatchedIsThere ==
    ASSUME NEW s, NEW o, NEW e, PatchedTo(s, o, e)
    PROVE  KeysThere(o, e) /\ ApnThere(o, e)
<1> DEFINE w == Maps!Configs2Write(EntryMap(e))
<1>1. /\ KeysMap(o.keys) = Maps!Over(w, KeysMap(s.keys))
      /\ ("ims" \in ToSet(o.apns)) = (("ims" \in ToSet(s.apns)) \/ e.apn)
  BY DEF PatchedTo, SettingsMap, Maps!PatchSettings, EntryMap
<1> HIDE DEF w
<1>2. \A k \in DOMAIN w : Holds(KeysMap(o.keys), w, k)
  BY <1>1 DEF Holds, Maps!Over
<1> QED
  BY <1>1, <1>2 DEF KeysThere, ApnThere, w

\* A patch changes nothing exactly where everything is there.
LEMMA NothingNew ==
    ASSUME NEW s, NEW e, e.apn \in BOOLEAN
    PROVE  Maps!PatchSettings(SettingsMap(s), EntryMap(e)) = SettingsMap(s)
              <=> KeysThere(s, e) /\ ApnThere(s, e)
<1> DEFINE w == Maps!Configs2Write(EntryMap(e))
           was == KeysMap(s.keys)
           new == Maps!Over(w, was)
           apn == "ims" \in ToSet(s.apns)
<1>1. /\ Maps!PatchSettings(SettingsMap(s), EntryMap(e)) = [keys |-> new, apn |-> apn \/ e.apn]
      /\ SettingsMap(s) = [keys |-> was, apn |-> apn]
  BY DEF SettingsMap, Maps!PatchSettings, EntryMap
<1>2. apn \in BOOLEAN /\ IsMap(was)
  BY DEF KeysMap, IsMap
<1>3. new = was <=> \A k \in DOMAIN w : Holds(was, w, k)
  <2> HIDE DEF w, was
  <2>1. ASSUME new = was, NEW k \in DOMAIN w PROVE Holds(was, w, k)
    <3>1. k \in DOMAIN new /\ new[k] = w[k]
      BY DEF Maps!Over
    <3> QED
      BY <2>1, <3>1 DEF Holds
  <2>2. ASSUME \A k \in DOMAIN w : Holds(was, w, k) PROVE new = was
    BY <1>2, <2>2 DEF Maps!Over, Holds, IsMap
  <2> QED
    BY <2>1, <2>2
<1>4. (apn \/ e.apn) = apn <=> (e.apn => apn)
  BY <1>2
<1> HIDE DEF w, was, new, apn
<1>5. [keys |-> new, apn |-> apn \/ e.apn] = [keys |-> was, apn |-> apn]
         <=> new = was /\ (apn \/ e.apn) = apn
  OBVIOUS
<1> QED
  BY <1>1, <1>3, <1>4, <1>5 DEF KeysThere, ApnThere, w, was, apn

\* A finished run has patched the targets' settings, everywhere, and left the
\* others as they were.
LEMMA OutIs ==
    ASSUME IInv, pc = "done", targets # <<>>
    PROVE  /\ out # NoFiles /\ out.ver = dir.ver + 1
           /\ DOMAIN out.others = DOMAIN dir.others
           /\ \A i \in DOMAIN dir.others :
                 /\ out.others[i].name = dir.others[i].name
                 /\ IF Has(targets, dir.others[i].name)
                    THEN PatchedTo(dir.others[i], out.others[i], EntryOf(dir.others[i].name))
                    ELSE out.others[i] = dir.others[i]
           /\ \A c : Named(out.others, c) = Named(dir.others, c) /\ Has(out.others, c) = Has(dir.others, c)
           /\ DOMAIN out.own = {c \in DOMAIN dir.own : Has(targets, c)}
           /\ \A c \in DOMAIN out.own :
                 /\ out.own[c].ver = dir.own[c].ver + 1
                 /\ out.own[c].set.name = c /\ dir.own[c].set.name = c
                 /\ PatchedTo(dir.own[c].set, out.own[c].set, EntryOf(c))
<1>1. TypeOK /\ Written /\ Writing
  BY DEF IInv, Writing
<1>2. /\ dir.others \in Seq(ListSettings) /\ out.others \in Seq(ListSettings)
      /\ dir.ver \in Nat /\ Len(dir.others) \in Nat
  BY <1>1 DEF TypeOK, IsListDir
<1>3. DOMAIN dir.others = 1 .. Len(dir.others) /\ DOMAIN out.others = 1 .. Len(out.others)
  BY <1>2
<1>4. at = Len(dir.others) + 1 /\ out.ver = dir.ver + 1 /\ Len(out.others) = Len(dir.others)
  BY <1>1 DEF Written, SoFar, OthersDone, OwnDone
<1>5. out # NoFiles
  BY <1>2, <1>4 DEF NoFiles
<1>6. \A i \in DOMAIN dir.others :
         IF Has(targets, dir.others[i].name)
         THEN PatchedTo(dir.others[i], out.others[i], EntryOf(dir.others[i].name))
         ELSE out.others[i] = dir.others[i]
  BY <1>1, <1>2, <1>3, <1>4 DEF Written, SoFar, OthersDone, OwnDone
<1>7. \A i \in DOMAIN dir.others : out.others[i].name = dir.others[i].name
  BY <1>6 DEF PatchedTo
<1>8. ASSUME NEW c PROVE Named(out.others, c) = Named(dir.others, c) /\ Has(out.others, c) = Has(dir.others, c)
  <2>1. {i \in 1 .. Len(out.others) : out.others[i].name = c} = {i \in 1 .. Len(dir.others) : dir.others[i].name = c}
    BY <1>3, <1>4, <1>7
  <2>2. Named(out.others, c) = Named(dir.others, c)
    BY <2>1 DEF Named, SelectInSeq
  <2> QED
    BY <2>2 DEF Has
<1>9. DOMAIN out.own = {c \in DOMAIN dir.own : Has(targets, c)}
  BY <1>1 DEF Written, SoFar, OthersDone, OwnDone
<1>10. \A c \in DOMAIN out.own :
          /\ out.own[c].ver = dir.own[c].ver + 1
          /\ PatchedTo(dir.own[c].set, out.own[c].set, EntryOf(c))
  BY <1>1 DEF Written, SoFar, OthersDone, OwnDone
<1>11. \A c \in DOMAIN out.own : dir.own[c].set.name = c
  BY <1>9, OwnIs
<1>12. \A c \in DOMAIN out.own : out.own[c].set.name = c
  BY <1>10, <1>11 DEF PatchedTo
<1> QED
  BY <1>3, <1>4, <1>5, <1>6, <1>7, <1>8, <1>9, <1>10, <1>11, <1>12

\* What the second pass finds.
LEMMA AgainIs ==
    ASSUME IInv, Again
    PROVE  /\ DOMAIN dir'.own = DOMAIN dir.own
           /\ DOMAIN dir'.others = DOMAIN dir.others
           /\ \A c : Named(dir'.others, c) = Named(dir.others, c) /\ Has(dir'.others, c) = Has(dir.others, c)
           /\ \A i \in DOMAIN dir.others :
                 /\ dir'.others[i].name = dir.others[i].name
                 /\ IF Has(targets, dir.others[i].name)
                    THEN PatchedTo(dir.others[i], dir'.others[i], EntryOf(dir.others[i].name))
                    ELSE dir'.others[i] = dir.others[i]
           /\ \A c \in DOMAIN dir.own :
                 IF Has(targets, c)
                 THEN PatchedTo(dir.own[c].set, dir'.own[c].set, EntryOf(c))
                 ELSE dir'.own[c] = dir.own[c]
<1>1. /\ pc = "done" /\ dir' = IF out = NoFiles THEN dir ELSE [out EXCEPT !.own = Maps!Over(@, dir.own)]
  BY DEF Again
<1>2. CASE targets = <<>>
  <2>1. out = NoFiles
    BY <1>1, <1>2 DEF IInv, Unwritten, Writing
  <2>2. dir' = dir
    BY <1>1, <2>1
  <2>3. ASSUME NEW c PROVE ~Has(targets, c)
    <3>1. DOMAIN targets = {} /\ targets \in Seq(Target)
      BY <1>2 DEF IInv, TypeOK
    <3> QED
      BY <3>1, NamedIs
  <2> QED
    BY <2>2, <2>3
<1>3. CASE targets # <<>>
  <2> DEFINE own == Maps!Over(out.own, dir.own)
  <2>1. out = [ver |-> out.ver, others |-> out.others, own |-> out.own]
    BY DEF IInv, TypeOK, IsListDir
  <2>2. out # NoFiles /\ DOMAIN out.own = {c \in DOMAIN dir.own : Has(targets, c)}
    BY <1>1, <1>3, OutIs
  <2>3. dir'.others = out.others /\ dir'.own = own
    <3> HIDE DEF own
    <3>1. dir' = [out EXCEPT !.own = own]
      BY <1>1, <2>2 DEF own
    <3> QED
      BY <2>1, <3>1
  <2>4. /\ DOMAIN own = DOMAIN dir.own
        /\ \A c \in DOMAIN dir.own : own[c] = IF Has(targets, c) THEN out.own[c] ELSE dir.own[c]
    BY <2>2 DEF Maps!Over
  <2> HIDE DEF own
  <2>5. \A c \in DOMAIN dir.own :
           IF Has(targets, c)
           THEN PatchedTo(dir.own[c].set, dir'.own[c].set, EntryOf(c))
           ELSE dir'.own[c] = dir.own[c]
    <3>1. \A c \in DOMAIN out.own : PatchedTo(dir.own[c].set, out.own[c].set, EntryOf(c))
      BY <1>1, <1>3, OutIs
    <3> QED
      BY <2>2, <2>3, <2>4, <3>1
  <2>6. /\ DOMAIN out.others = DOMAIN dir.others
        /\ \A i \in DOMAIN dir.others :
              /\ out.others[i].name = dir.others[i].name
              /\ IF Has(targets, dir.others[i].name)
                 THEN PatchedTo(dir.others[i], out.others[i], EntryOf(dir.others[i].name))
                 ELSE out.others[i] = dir.others[i]
        /\ \A c : Named(out.others, c) = Named(dir.others, c) /\ Has(out.others, c) = Has(dir.others, c)
    BY <1>1, <1>3, OutIs
  <2> QED
    BY <2>3, <2>4, <2>5, <2>6
<1> QED
  BY <1>2, <1>3

LEMMA SecondPassStep ==
    ASSUME IInv, Next
    PROVE  SecondPass'
<1>1. TypeOK /\ PlanSound /\ PlanWhole /\ SecondPass
  BY DEF IInv
<1>2. CASE Again
  <2>1. cfg' = cfg /\ present' = present /\ pc = "done"
    BY <1>2 DEF Again
  <2>2. Asked' = Asked /\ \A c : Decide(c)' = Decide(c) /\ EntryOf(c)' = EntryOf(c)
    BY <2>1 DEF Asked, Decide, EntryOf
  <2>3. ASSUME NEW c \in ToSet(Asked), ToBePatched(c)' PROVE Has(targets, c)
    <3>1. SUFFICES ASSUME ~Has(targets, c) PROVE FALSE
      OBVIOUS
    <3>2. Decide(c) # "none"
      BY <2>2, <2>3 DEF ToBePatched
    <3>3. Has(left, c)
      BY <1>1, <2>1, <3>1, <3>2 DEF PlanWhole, Considered
    <3>4. LeftAlone(c)
      <4>1. PICK i \in DOMAIN left : left[i].name = c
        BY <1>1, <3>3, NamedIs DEF TypeOK
      <4> QED
        BY <1>1, <4>1 DEF PlanSound
    <3>5. Stock(c)' = Stock(c)
      <4>1. CASE c \in DOMAIN dir.own
        <5>1. c \in DOMAIN dir'.own /\ dir'.own[c] = dir.own[c]
          BY <1>2, <3>1, <4>1, AgainIs
        <5> QED
          BY <4>1, <5>1 DEF Stock
      <4>2. CASE c \notin DOMAIN dir.own /\ ~Has(dir.others, c)
        <5>1. c \notin DOMAIN dir'.own /\ ~Has(dir'.others, c)
          BY <1>2, <4>2, AgainIs
        <5> QED
          BY <4>2, <5>1 DEF Stock
      <4>3. CASE c \notin DOMAIN dir.own /\ Has(dir.others, c)
        <5> DEFINE i == Named(dir.others, c)
        <5>1. dir.others \in Seq(ListSettings)
          BY <1>1 DEF TypeOK, IsListDir
        <5>2. i \in DOMAIN dir.others /\ dir.others[i].name = c
          BY <4>3, <5>1, NamedIs
        <5>3. c \notin DOMAIN dir'.own /\ Has(dir'.others, c) /\ Named(dir'.others, c) = i
          BY <1>2, <4>3, AgainIs
        <5> HIDE DEF i
        <5>4. dir'.others[i] = dir.others[i]
          BY <1>2, <3>1, <5>2, AgainIs
        <5>5. Stock(c) = IF VolteEnabled(dir.others[i]) THEN "certified" ELSE "plain"
          BY <4>3 DEF Stock, i
        <5>6. Stock(c)' = IF VolteEnabled(dir'.others[i]) THEN "certified" ELSE "plain"
          BY <5>3 DEF Stock
        <5> QED
          BY <5>4, <5>5, <5>6
      <4> QED
        BY <4>1, <4>2, <4>3
    <3>6. LeftAlone(c)'
      BY <2>2, <3>4, <3>5 DEF LeftAlone
    <3> QED
      BY <2>3, <3>6 DEF ToBePatched
  <2>4. ASSUME NEW c \in ToSet(Asked), ToBePatched(c)', NEW i \in DOMAIN dir'.others, dir'.others[i].name = c
        PROVE  KeysThere(dir'.others[i], EntryOf(c)) /\ ApnThere(dir'.others[i], EntryOf(c))
    <3>1. Has(targets, c)
      BY <2>3, <2>4
    <3>2. i \in DOMAIN dir.others /\ dir.others[i].name = c
      BY <1>2, <2>4, AgainIs
    <3>3. PatchedTo(dir.others[i], dir'.others[i], EntryOf(c))
      BY <1>2, <3>1, <3>2, AgainIs
    <3> QED
      BY <3>3, PatchedIsThere
  <2>5. ASSUME NEW c \in ToSet(Asked), ToBePatched(c)', c \in DOMAIN dir'.own
        PROVE  KeysThere(dir'.own[c].set, EntryOf(c)) /\ ApnThere(dir'.own[c].set, EntryOf(c))
    <3>1. Has(targets, c) /\ c \in DOMAIN dir.own
      BY <1>2, <2>3, <2>5, AgainIs
    <3>2. PatchedTo(dir.own[c].set, dir'.own[c].set, EntryOf(c))
      BY <1>2, <3>1, AgainIs
    <3> QED
      BY <3>2, PatchedIsThere
  <2> QED
    BY <2>2, <2>4, <2>5 DEF SecondPass
<1>3. CASE ~Again
  <2>1. dir' = dir /\ cfg' = cfg /\ present' = present /\ pass' = pass
    BY <1>3 DEF Next, PassOver, Refuse, Leave, Take, Planning, NothingToPatch, BeginOthers, SkipSettings,
                TakeSettings, AtSettings, OthersWritten, SkipOwn, TakeOwn, AtOwn, OwnWritten, SetFlag,
                SetArray, FinishSettings, FinishOwn, Finish, Patching, RecordTarget, RecordLeft
  <2>2. \A c : ToBePatched(c)' <=> ToBePatched(c)
    BY <2>1, SameInputs DEF ToBePatched
  <2> QED
    BY <1>1, <2>1, <2>2, SameInputs DEF SecondPass
<1> QED
  BY <1>2, <1>3

\* The invariant is inductive.
LEMMA InvStep ==
    ASSUME IInv, [Next]_vars
    PROVE  IInv'
<1>1. CASE Next
  BY <1>1, TypeStep, PlanStep, UnwrittenStep, WrittenStep, JobStep, ReportedStep, RecordedStep,
     SecondPassStep DEF IInv
<1>2. CASE UNCHANGED vars
  <2>1. /\ dir' = dir /\ cfg' = cfg /\ present' = present /\ pc' = pc /\ todo' = todo /\ targets' = targets
        /\ left' = left /\ out' = out /\ at' = at /\ job' = job /\ changed' = changed
        /\ reports' = reports /\ record' = record /\ pass' = pass
    BY <1>2 DEF vars
  <2>2. TypeOK' /\ Recorded' /\ Unwritten'
    BY <2>1 DEF IInv, TypeOK, Recorded, EntryFor, Unwritten, Writing
  <2>3. PlanSound' /\ PlanWhole'
    BY <2>1, SameInputs DEF IInv, PlanSound, PlanWhole, Considered
  <2>4. Written' /\ JobSound'
    BY <2>1, SameInputs DEF IInv, Written, SoFar, OthersDone, OwnDone, Writing, JobSound, Source
  <2>5. Reported'
    <3>1. Finished' = Finished /\ (Writing' <=> Writing)
      BY <2>1 DEF Finished, Writing
    <3>2. CASE Writing
      BY <2>1, <3>1, <3>2, ReportsKept
    <3>3. CASE ~Writing
      BY <3>1, <3>3 DEF Reported
    <3> QED
      BY <3>2, <3>3
  <2>6. SecondPass'
    BY <2>1, SameInputs DEF IInv, SecondPass, ToBePatched
  <2> QED
    BY <2>2, <2>3, <2>4, <2>5, <2>6 DEF IInv
<1> QED
  BY <1>1, <1>2

\* The invariant holds in every state.
LEMMA Invariance == Spec => []IInv
<1>1. Init => IInv
  BY InitInv
<1>2. IInv /\ [Next]_vars => IInv'
  BY InvStep
<1> QED
  BY <1>1, <1>2, PTL DEF Spec
-----------------------------------------------------------------------------
(* What the runs check *)

\* Whose settings have been patched.
LEMMA FinishedAre ==
    ASSUME IInv, NEW s \in Finished, Writing
    PROVE  /\ s \in ListSettings /\ Has(targets, s.name)
           /\ \/ \E i \in DOMAIN dir.others : s = dir.others[i]
              \/ s.name \in DOMAIN out.own /\ s.name \in DOMAIN dir.own /\ s = dir.own[s.name].set
<1>1. dir.others \in Seq(ListSettings)
  BY DEF IInv, TypeOK, IsListDir
<1>2. CASE \E i \in DOMAIN dir.others : Has(targets, dir.others[i].name) /\ s = dir.others[i]
  BY <1>1, <1>2
<1>3. CASE \E c \in DOMAIN out.own : s = dir.own[c].set
  <2>1. PICK c \in DOMAIN out.own : s = dir.own[c].set
    BY <1>3
  <2>2. Has(targets, c) /\ c \in DOMAIN dir.own
    BY <2>1 DEF IInv, Written, SoFar, OthersDone, OwnDone
  <2>3. s \in ListSettings /\ s.name = c
    BY <2>1, <2>2, OwnIs
  <2> QED
    BY <2>1, <2>2, <2>3
<1> QED
  BY <1>2, <1>3 DEF Finished

\* In a finished run, what changed is what the reports tell, and they are of all
\* targets.
LEMMA ChangedMeans ==
    ASSUME IInv, pc = "done", targets # <<>>
    PROVE  changed = 0 <=> \A s \in Finished : /\ WritesOnce(EntryOf(s.name))
                                               /\ KeysThere(s, EntryOf(s.name))
                                               /\ ApnThere(s, EntryOf(s.name))
<1> DEFINE Same(s) == /\ WritesOnce(EntryOf(s.name))
                      /\ KeysThere(s, EntryOf(s.name))
                      /\ ApnThere(s, EntryOf(s.name))
<1>1. Writing
  BY DEF Writing
<1>2. /\ \A s \in Finished : \E i \in DOMAIN reports : Tells(reports[i], s)
      /\ \A i \in DOMAIN reports : \E s \in Finished : Tells(reports[i], s)
      /\ (changed = 0) = \A i \in DOMAIN reports : Changes(reports[i]) = 0
      /\ reports \in Seq(Reports)
  BY <1>1 DEF IInv, Reported, TypeOK
<1>3. ASSUME NEW i \in DOMAIN reports, NEW s, Tells(reports[i], s)
      PROVE  Changes(reports[i]) = 0 <=> Same(s)
  <2> DEFINE r == reports[i]
  <2>1. r \in Reports
    BY <1>2
  <2>2. r.keys \in Nat
    BY <2>1 DEF Reports
  <2>3. (r.keys = 0) = (WritesOnce(EntryOf(s.name)) /\ KeysThere(s, EntryOf(s.name)))
    BY <1>3 DEF Tells
  <2>4. (r.apn = "added") = ~ApnThere(s, EntryOf(s.name))
    BY <1>3 DEF Tells
  <2> HIDE DEF r
  <2>5. Changes(r) = 0 <=> r.keys = 0 /\ r.apn # "added"
    BY <2>2 DEF Changes
  <2>6. Changes(r) = 0 <=> Same(s)
    BY <2>3, <2>4, <2>5
  <2> QED
    BY <2>6 DEF r
<1> HIDE DEF Same
<1>4. (\A i \in DOMAIN reports : Changes(reports[i]) = 0) <=> (\A s \in Finished : Same(s))
  BY <1>2, <1>3
<1> QED
  BY <1>2, <1>4 DEF Same

\* Every target has been patched somewhere.
LEMMA TargetsFinished ==
    ASSUME IInv, pc = "done", NEW c, Has(targets, c)
    PROVE  \E s \in Finished : s.name = c
<1>1. targets # <<>>
  <2>1. Named(targets, c) \in DOMAIN targets
    BY NamedIs DEF IInv, TypeOK
  <2> QED
    BY <2>1
<1>2. Has(reports, c) /\ reports \in Seq(Reports) /\ Writing
  BY <1>1, TargetReported DEF IInv, TypeOK, Writing
<1>3. PICK i \in DOMAIN reports : reports[i].name = c
  BY <1>2, NamedIs
<1>4. PICK s \in Finished : Tells(reports[i], s)
  BY <1>2 DEF IInv, Reported
<1> QED
  BY <1>3, <1>4 DEF Tells

LEMMA OnceMeans ==
    ASSUME IInv
    PROVE  EveryTargetOnce <=> \A c : Has(targets, c) => WritesOnce(EntryOf(c))
<1>1. targets \in Seq(Target)
  BY DEF IInv, TypeOK
<1>2. \A i \in DOMAIN targets : targets[i].entry = EntryOf(targets[i].name) /\ Has(targets, targets[i].name)
  BY <1>1, NamedIs DEF IInv, PlanSound
<1>3. \A c : Has(targets, c) => Named(targets, c) \in DOMAIN targets /\ targets[Named(targets, c)].name = c
  BY <1>1, NamedIs
<1>4. ASSUME NEW c, Has(targets, c), EveryTargetOnce PROVE WritesOnce(EntryOf(c))
  <2>1. Named(targets, c) \in DOMAIN targets /\ targets[Named(targets, c)].name = c
    BY <1>3, <1>4
  <2>2. WritesOnce(targets[Named(targets, c)].entry)
    BY <1>4, <2>1 DEF EveryTargetOnce
  <2> QED
    BY <1>2, <2>1, <2>2
<1>5. ASSUME \A c : Has(targets, c) => WritesOnce(EntryOf(c)) PROVE EveryTargetOnce
  BY <1>2, <1>5 DEF EveryTargetOnce
<1> QED
  BY <1>4, <1>5

LEMMA SilentMeans ==
    ASSUME IInv
    PROVE  SecondPassSilent
<1>1. SUFFICES ASSUME pass = 2, pc = "done" PROVE (changed = 0) = EveryTargetOnce
  BY DEF SecondPassSilent
<1>2. CASE targets = <<>>
  <2>1. changed = 0
    BY <1>1, <1>2 DEF IInv, Unwritten, Writing
  <2>2. DOMAIN targets = {}
    BY <1>2
  <2> QED
    BY <2>1, <2>2 DEF EveryTargetOnce
<1>3. CASE targets # <<>>
  <2>1. Writing
    BY <1>1, <1>3 DEF Writing
  <2>2. ASSUME NEW s \in Finished
        PROVE  KeysThere(s, EntryOf(s.name)) /\ ApnThere(s, EntryOf(s.name))
    <3>1. /\ Has(targets, s.name)
          /\ \/ \E i \in DOMAIN dir.others : s = dir.others[i]
             \/ s.name \in DOMAIN dir.own /\ s = dir.own[s.name].set
      BY <2>1, <2>2, FinishedAre
    <3>2. s.name \in ToSet(Asked) /\ ToBePatched(s.name)
      BY <3>1, TargetIs DEF IInv, ToBePatched
    <3> QED
      BY <1>1, <3>1, <3>2 DEF IInv, SecondPass
  <2>3. changed = 0 <=> \A s \in Finished : WritesOnce(EntryOf(s.name))
    BY <1>1, <1>3, <2>2, ChangedMeans
  <2>4. (\A s \in Finished : WritesOnce(EntryOf(s.name))) <=> \A c : Has(targets, c) => WritesOnce(EntryOf(c))
    <3>1. \A s \in Finished : Has(targets, s.name)
      BY <2>1, FinishedAre
    <3>2. \A c : Has(targets, c) => \E s \in Finished : s.name = c
      BY <1>1, TargetsFinished
    <3> QED
      BY <3>1, <3>2
  <2> QED
    BY <2>3, <2>4, OnceMeans DEF EveryTargetOnce
<1> QED
  BY <1>2, <1>3

\* A run over the output of a run finds everything there ("a second pass over our
\* own output a no-op", patch.rs:76), except where an array is given for a key
\* that everybody gets as a Boolean: that one is written twice, whenever.
THEOREM SecondPassIsSilent == Spec => []SecondPassSilent
BY Invariance, SilentMeans, PTL

\* The files of a finished run are those of CarrierFiles.
LEMMA OutputMeans ==
    ASSUME IInv, pc = "done", targets # <<>>
    PROVE  /\ DirMap(out) = Maps!Output(DirMap(dir), PlanMap)
           /\ DOMAIN Maps!Output(DirMap(dir), PlanMap) = {OTHERS} \cup DOMAIN out.own
<1> DEFINE stock == DirMap(dir)
           want == PlanMap
           file == [n \in {OTHERS} \cup DOMAIN out.own |-> Maps!PatchFile(stock[n], want)]
<1>1. IsListDir(dir) /\ IsListDir(out) /\ targets \in Seq(Target)
  BY DEF IInv, TypeOK
<1>2. /\ DOMAIN want = {c \in Carrier : Has(targets, c)}
      /\ \A c \in DOMAIN want : want[c] = EntryMap(EntryOf(c))
  BY PlanMeans
<1>3. /\ DOMAIN stock = {OTHERS} \cup DOMAIN dir.own
      /\ stock[OTHERS].ver = dir.ver
      /\ DOMAIN stock[OTHERS].set = {c \in Carrier : Has(dir.others, c)}
      /\ stock[OTHERS].set =
            [c \in {x \in Carrier : Has(dir.others, x)} |-> SettingsMap(dir.others[Named(dir.others, c)])]
      /\ OTHERS \notin DOMAIN dir.own
      /\ \A c \in DOMAIN dir.own :
            stock[c] = [ver |-> dir.own[c].ver, set |-> [x \in {c} |-> SettingsMap(dir.own[c].set)]]
  BY <1>1, DirMapIs
<1>4. /\ DOMAIN dir.own \subseteq Carrier /\ OTHERS \notin Carrier /\ dir.others \in Seq(ListSettings)
  BY <1>1, RunAssumption DEF IsListDir
<1>5. /\ out.ver = dir.ver + 1
      /\ DOMAIN out.own = {c \in DOMAIN dir.own : Has(targets, c)}
      /\ \A c : Named(out.others, c) = Named(dir.others, c) /\ Has(out.others, c) = Has(dir.others, c)
  BY OutIs
<1>6. DOMAIN want # {}
  <2>1. 1 \in DOMAIN targets /\ targets[1] \in Target
    BY <1>1
  <2>2. targets[1].name \in Carrier /\ Has(targets, targets[1].name)
    BY <1>1, <2>1, NamedIs DEF Target
  <2> QED
    BY <1>2, <2>2
<1> HIDE DEF stock, want
<1>7. DOMAIN want \cap DOMAIN stock = DOMAIN out.own
  BY <1>2, <1>3, <1>4, <1>5
<1>8. Maps!Output(stock, want) = file
  BY <1>6, <1>7 DEF Maps!Output
<1>9. DirMap(out)[OTHERS] = Maps!PatchFile(stock[OTHERS], want)
  <2> DEFINE all == {c \in Carrier : Has(dir.others, c)}
             old == stock[OTHERS].set
             new == [c \in all |-> SettingsMap(out.others[Named(out.others, c)])]
  <2>1. DirMap(out)[OTHERS] = [ver |-> out.ver, set |-> new]
    <3>1. OTHERS \in DOMAIN DirMap(out)
      BY <1>1, DirMapIs
    <3>2. DirMap(out)[OTHERS].ver = out.ver
      BY <1>1, DirMapIs
    <3>3. DirMap(out)[OTHERS].set =
             [c \in {x \in Carrier : Has(out.others, x)} |-> SettingsMap(out.others[Named(out.others, c)])]
      BY <1>1, DirMapIs
    <3>4. {x \in Carrier : Has(out.others, x)} = all
      BY <1>5
    <3>5. DirMap(out)[OTHERS].set = new
      BY <3>3, <3>4
    <3>6. DirMap(out)[OTHERS] = [ver |-> DirMap(out)[OTHERS].ver, set |-> DirMap(out)[OTHERS].set]
      BY DEF DirMap
    <3> HIDE DEF new
    <3> QED
      BY <3>2, <3>5, <3>6
  <2>2. ASSUME NEW c \in all
        PROVE  new[c] = IF c \in DOMAIN want THEN Maps!PatchSettings(old[c], want[c]) ELSE old[c]
    <3> DEFINE i == Named(dir.others, c)
    <3>1. i \in DOMAIN dir.others /\ dir.others[i].name = c /\ Named(out.others, c) = i
      BY <1>4, <1>5, <2>2, NamedIs
    <3>2. old[c] = SettingsMap(dir.others[i]) /\ new[c] = SettingsMap(out.others[i])
      BY <1>3, <3>1
    <3> HIDE DEF i, new, old
    <3>3. IF Has(targets, c)
          THEN PatchedTo(dir.others[i], out.others[i], EntryOf(c))
          ELSE out.others[i] = dir.others[i]
      BY <3>1, OutIs
    <3>4. c \in DOMAIN want <=> Has(targets, c)
      BY <1>2, <2>2
    <3> QED
      BY <1>2, <3>2, <3>3, <3>4 DEF PatchedTo
  <2>3. Maps!PatchFile(stock[OTHERS], want) =
           [ver |-> dir.ver + 1,
            set |-> [c \in all |-> IF c \in DOMAIN want THEN Maps!PatchSettings(old[c], want[c]) ELSE old[c]]]
    BY <1>3 DEF Maps!PatchFile
  <2>4. new = [c \in all |-> new[c]]
    OBVIOUS
  <2> HIDE DEF new, old, all
  <2>5. new = [c \in all |-> IF c \in DOMAIN want THEN Maps!PatchSettings(old[c], want[c]) ELSE old[c]]
    BY <2>2, <2>4
  <2> QED
    BY <1>5, <2>1, <2>3, <2>5
<1>10. ASSUME NEW c \in DOMAIN out.own
       PROVE  DirMap(out)[c] = Maps!PatchFile(stock[c], want)
  <2>1. c \in DOMAIN dir.own /\ c \in DOMAIN want
    BY <1>2, <1>4, <1>5
  <2>2. /\ out.own[c].ver = dir.own[c].ver + 1
        /\ PatchedTo(dir.own[c].set, out.own[c].set, EntryOf(c))
    BY OutIs
  <2>3. DirMap(out)[c] = [ver |-> out.own[c].ver, set |-> [x \in {c} |-> SettingsMap(out.own[c].set)]]
    BY <1>1, DirMapIs
  <2>4. stock[c] = [ver |-> dir.own[c].ver, set |-> [x \in {c} |-> SettingsMap(dir.own[c].set)]]
    BY <1>3, <2>1
  <2>5. Maps!PatchFile(stock[c], want) =
           [ver |-> dir.own[c].ver + 1,
            set |-> [x \in {c} |-> Maps!PatchSettings(SettingsMap(dir.own[c].set), want[c])]]
    BY <2>1, <2>4 DEF Maps!PatchFile
  <2>6. SettingsMap(out.own[c].set) = Maps!PatchSettings(SettingsMap(dir.own[c].set), want[c])
    BY <1>2, <2>1, <2>2 DEF PatchedTo
  <2> QED
    BY <2>2, <2>3, <2>5, <2>6
<1>11. DirMap(out) = file
  <2>1. DOMAIN DirMap(out) = {OTHERS} \cup DOMAIN out.own
    BY <1>1, DirMapIs
  <2>2. DirMap(out) = [n \in DOMAIN DirMap(out) |-> DirMap(out)[n]]
    BY DEF DirMap
  <2>3. \A n \in {OTHERS} \cup DOMAIN out.own : DirMap(out)[n] = Maps!PatchFile(stock[n], want)
    BY <1>9, <1>10
  <2>4. [n \in DOMAIN DirMap(out) |-> DirMap(out)[n]] = file
    BY <2>1, <2>3
  <2> QED
    BY <2>2, <2>4
<1> HIDE DEF file
<1>12. DirMap(out) = Maps!Output(stock, want)
  BY <1>8, <1>11
<1>13. DOMAIN Maps!Output(stock, want) = {OTHERS} \cup DOMAIN out.own
  BY <1>8 DEF file
<1> QED
  BY <1>12, <1>13 DEF stock, want

\* What changes in a file that is written.
LEMMA SetChanges ==
    ASSUME IInv, pc = "done", targets # <<>>
    PROVE  /\ Maps!PatchFile(DirMap(dir)[OTHERS], PlanMap).set # DirMap(dir)[OTHERS].set
                 <=> \E c \in Carrier :
                        /\ Has(targets, c) /\ Has(dir.others, c)
                        /\ LET s == dir.others[Named(dir.others, c)]
                           IN  ~(KeysThere(s, EntryOf(c)) /\ ApnThere(s, EntryOf(c)))
           /\ \A c \in DOMAIN out.own :
                 Maps!PatchFile(DirMap(dir)[c], PlanMap).set # DirMap(dir)[c].set
                    <=> LET s == dir.own[c].set
                        IN  ~(KeysThere(s, EntryOf(c)) /\ ApnThere(s, EntryOf(c)))
<1> DEFINE want == PlanMap
           First0(c) == dir.others[Named(dir.others, c)]
           Same(s, c) == KeysThere(s, EntryOf(c)) /\ ApnThere(s, EntryOf(c))
<1>1. IsListDir(dir) /\ cfg \in ListConfig
  BY DEF IInv, TypeOK
<1>2. /\ DOMAIN want = {c \in Carrier : Has(targets, c)}
      /\ \A c \in DOMAIN want : want[c] = EntryMap(EntryOf(c))
  BY PlanMeans
<1>3. ASSUME NEW c \in DOMAIN want, NEW s
      PROVE  Maps!PatchSettings(SettingsMap(s), want[c]) = SettingsMap(s) <=> Same(s, c)
  <2>1. EntryOf(c) \in ListEntry
    BY <1>1, <1>2, <1>3, EntryTyped
  <2>2. EntryOf(c).apn \in BOOLEAN
    BY <2>1 DEF ListEntry
  <2> QED
    BY <1>2, <2>2, NothingNew
<1>4. Maps!PatchFile(DirMap(dir)[OTHERS], want).set # DirMap(dir)[OTHERS].set
         <=> \E c \in Carrier : Has(targets, c) /\ Has(dir.others, c) /\ ~Same(First0(c), c)
  <2> DEFINE all == {c \in Carrier : Has(dir.others, c)}
             old == DirMap(dir)[OTHERS].set
             new == Maps!PatchFile(DirMap(dir)[OTHERS], want).set
  <2>1. old = [c \in all |-> SettingsMap(First0(c))] /\ DOMAIN old = all
    BY <1>1, DirMapIs
  <2>2. new = [c \in DOMAIN old |-> IF c \in DOMAIN want THEN Maps!PatchSettings(old[c], want[c]) ELSE old[c]]
    BY DEF Maps!PatchFile
  <2> HIDE DEF old, new, want, Same, First0, all
  <2>3. new # old <=> \E c \in all : new[c] # old[c]
    BY <2>1, <2>2
  <2>4. \A c \in all : old[c] = SettingsMap(First0(c))
    BY <2>1
  <2>5. \A c \in all : new[c] # old[c] <=> c \in DOMAIN want /\ ~Same(First0(c), c)
    BY <1>3, <2>1, <2>2, <2>4
  <2> QED
    BY <1>2, <2>3, <2>5 DEF all, new, old
<1>5. ASSUME NEW c \in DOMAIN out.own
      PROVE  Maps!PatchFile(DirMap(dir)[c], want).set # DirMap(dir)[c].set <=> ~Same(dir.own[c].set, c)
  <2> DEFINE old == DirMap(dir)[c].set
             new == Maps!PatchFile(DirMap(dir)[c], want).set
  <2>1. c \in DOMAIN dir.own /\ Has(targets, c)
    BY OutIs
  <2>2. c \in DOMAIN want
    BY <1>1, <1>2, <2>1 DEF IsListDir
  <2>3. old = [x \in {c} |-> SettingsMap(dir.own[c].set)]
    <3>1. DirMap(dir)[c] = [ver |-> dir.own[c].ver, set |-> [x \in {c} |-> SettingsMap(dir.own[c].set)]]
      BY <1>1, <2>1, DirMapIs
    <3> QED
      BY <3>1
  <2>4. new = [x \in DOMAIN old |-> IF x \in DOMAIN want THEN Maps!PatchSettings(old[x], want[x]) ELSE old[x]]
    BY DEF Maps!PatchFile
  <2> HIDE DEF old, new, want, Same
  <2>5. new # old <=> new[c] # old[c]
    BY <2>3, <2>4
  <2>6. new[c] # old[c] <=> ~Same(dir.own[c].set, c)
    BY <1>3, <2>2, <2>3, <2>4
  <2> QED
    BY <2>5, <2>6 DEF old, new
<1> QED
  BY <1>4, <1>5

LEMMA SpecifiedMeans ==
    ASSUME IInv
    PROVE  AsSpecified
<1> DEFINE stock == DirMap(dir)
           want == PlanMap
<1>1. SUFFICES ASSUME pc = "done"
      PROVE  /\ (IF out = NoFiles THEN Maps!Nothing ELSE DirMap(out)) = Maps!Output(stock, want)
             /\ Maps!Changed(stock, want) \/ ~EveryTargetOnce => changed > 0
             /\ NoRepeats /\ changed > 0 => Maps!Changed(stock, want) \/ ~EveryTargetOnce
  BY DEF AsSpecified
<1>2. DOMAIN want = {c \in Carrier : Has(targets, c)}
  BY <1>1, PlanMeans
<1>3. targets \in Seq(Target) /\ changed \in Nat
  BY DEF IInv, TypeOK
<1>4. CASE targets = <<>>
  <2>1. out = NoFiles /\ changed = 0
    BY <1>1, <1>4 DEF IInv, Unwritten, Writing
  <2>2. DOMAIN targets = {}
    BY <1>4
  <2>3. ASSUME NEW c PROVE ~Has(targets, c)
    BY <1>3, <2>2, NamedIs
  <2>4. DOMAIN want = {}
    BY <1>2, <2>3
  <2> HIDE DEF want, stock
  <2>5. Maps!Output(stock, want) = Maps!Nothing
    BY <2>4 DEF Maps!Output, Maps!Nothing
  <2>6. ~Maps!Changed(stock, want)
    BY <2>5 DEF Maps!Changed, Maps!Nothing
  <2>7. EveryTargetOnce
    BY <2>2 DEF EveryTargetOnce
  <2> QED
    BY <2>1, <2>5, <2>6, <2>7
<1>5. CASE targets # <<>>
  <2> DEFINE Same(s, c) == KeysThere(s, EntryOf(c)) /\ ApnThere(s, EntryOf(c))
  <2>1. Writing
    BY <1>1, <1>5 DEF Writing
  <2>2. /\ out # NoFiles /\ DirMap(out) = Maps!Output(stock, want)
        /\ DOMAIN Maps!Output(stock, want) = {OTHERS} \cup DOMAIN out.own
    BY <1>1, <1>5, OutputMeans, OutIs
  <2>3. Maps!Changed(stock, want) <=>
           \/ \E c \in Carrier : /\ Has(targets, c) /\ Has(dir.others, c)
                                 /\ ~Same(dir.others[Named(dir.others, c)], c)
           \/ \E c \in DOMAIN out.own : ~Same(dir.own[c].set, c)
    <3>1. Maps!Changed(stock, want) <=>
             \/ Maps!PatchFile(stock[OTHERS], want).set # stock[OTHERS].set
             \/ \E c \in DOMAIN out.own : Maps!PatchFile(stock[c], want).set # stock[c].set
      BY <2>2 DEF Maps!Changed
    <3> QED
      BY <1>1, <1>5, <3>1, SetChanges
  <2>4. changed = 0 <=> \A s \in Finished : WritesOnce(EntryOf(s.name)) /\ Same(s, s.name)
    BY <1>1, <1>5, ChangedMeans
  <2>5. EveryTargetOnce <=> \A s \in Finished : WritesOnce(EntryOf(s.name))
    <3>1. \A s \in Finished : Has(targets, s.name)
      BY <2>1, FinishedAre
    <3>2. \A c : Has(targets, c) => \E s \in Finished : s.name = c
      BY <1>1, TargetsFinished
    <3> QED
      BY <3>1, <3>2, OnceMeans
  <2>6. dir.others \in Seq(ListSettings) /\ at = Len(dir.others) + 1
    BY <1>1, <2>1 DEF IInv, TypeOK, IsListDir, Written, SoFar, OthersDone, OwnDone
  <2> HIDE DEF Same, want, stock
  <2>7. ASSUME Maps!Changed(stock, want) PROVE \E s \in Finished : ~Same(s, s.name)
    <3>1. ASSUME NEW c \in Carrier, Has(targets, c), Has(dir.others, c), ~Same(dir.others[Named(dir.others, c)], c)
          PROVE  \E s \in Finished : ~Same(s, s.name)
      <4> DEFINE i == Named(dir.others, c)
      <4>1. i \in DOMAIN dir.others /\ dir.others[i].name = c
        BY <2>6, <3>1, NamedIs
      <4>2. i < at
        BY <2>6, <4>1
      <4>3. dir.others[i] \in Finished
        BY <3>1, <4>1, <4>2 DEF Finished
      <4> QED
        BY <3>1, <4>1, <4>3
    <3>2. ASSUME NEW c \in DOMAIN out.own, ~Same(dir.own[c].set, c)
          PROVE  \E s \in Finished : ~Same(s, s.name)
      <4>1. dir.own[c].set \in Finished
        BY <3>2 DEF Finished
      <4>2. dir.own[c].set.name = c
        BY <1>1, <1>5, <3>2, OutIs
      <4> QED
        BY <3>2, <4>1, <4>2
    <3> QED
      BY <2>3, <2>7, <3>1, <3>2
  <2>8. ASSUME NoRepeats, NEW s \in Finished, ~Same(s, s.name) PROVE Maps!Changed(stock, want)
    <3>1. CASE \E i \in DOMAIN dir.others : s = dir.others[i]
      <4>1. PICK i \in DOMAIN dir.others : s = dir.others[i]
        BY <3>1
      <4>2. Has(dir.others, s.name)
        BY <2>6, <4>1, NamedIs
      <4>3. Named(dir.others, s.name) \in DOMAIN dir.others /\ dir.others[Named(dir.others, s.name)].name = s.name
        BY <2>6, <4>2, NamedIs
      <4>4. Named(dir.others, s.name) = i
        BY <2>8, <4>1, <4>3 DEF NoRepeats
      <4>5. Has(targets, s.name) /\ s \in ListSettings
        BY <2>1, FinishedAre
      <4>6. s.name \in Carrier
        BY <4>5 DEF ListSettings
      <4> QED
        BY <2>3, <2>8, <4>1, <4>2, <4>4, <4>5, <4>6
    <3>2. CASE s.name \in DOMAIN out.own /\ s = dir.own[s.name].set
      BY <2>3, <2>8, <3>2
    <3> QED
      BY <2>1, <3>1, <3>2, FinishedAre
  <2>9. changed > 0 <=> changed # 0
    BY <1>3
  <2> QED
    BY <2>2, <2>4, <2>5, <2>7, <2>8, <2>9
<1> QED
  BY <1>4, <1>5

\* What the loops over lists write, skip and count is what CarrierFiles says with
\* maps, for files, configurations and carriers of any number.
THEOREM RunsAsSpecified == Spec => []AsSpecified
BY Invariance, SpecifiedMeans, PTL

\* "A carrier's settings live in one or the other, never both" (plan.rs:60).
OneHome == \A d \in Dirs : \A c \in DOMAIN d.own : ~Has(d.others, c)

AtHome == \A c \in DOMAIN dir.own : ~Has(dir.others, c)

LEMMA HomeKept ==
    ASSUME OneHome
    PROVE  Spec => []AtHome
<1>1. Init => AtHome
  BY DEF Init, OneHome, AtHome
<1>2. IInv /\ AtHome /\ [Next]_vars => AtHome'
  <2>1. SUFFICES ASSUME IInv, AtHome, [Next]_vars PROVE AtHome'
    OBVIOUS
  <2>2. CASE Again
    BY <2>1, <2>2, AgainIs DEF AtHome
  <2>3. CASE ~Again
    <3>1. dir' = dir
      BY <2>1, <2>3 DEF Next, PassOver, Refuse, Leave, Take, Planning, NothingToPatch, BeginOthers,
         SkipSettings, TakeSettings, AtSettings, OthersWritten, SkipOwn, TakeOwn, AtOwn, OwnWritten,
         SetFlag, SetArray, FinishSettings, FinishOwn, Finish, Patching, RecordTarget, RecordLeft, vars
    <3> QED
      BY <2>1, <3>1 DEF AtHome
  <2> QED
    BY <2>2, <2>3
<1> QED
  BY <1>1, <1>2, Invariance, PTL DEF Spec

\* In a finished run, the entries of the targets come first, then those of the
\* carriers left alone.
LEMMA RecordIs ==
    ASSUME IInv, pc = "done"
    PROVE  /\ \A i \in DOMAIN record :
                 \/ /\ i \in DOMAIN targets /\ record[i] = EntryFor(i)
                    /\ record[i].name = targets[i].name /\ Has(targets, targets[i].name)
                    /\ record[i].outcome = "patched" /\ record[i].reason = Decide(targets[i].name)
                    /\ record[i].keys = reports[Named(reports, targets[i].name)].keys
                    /\ record[i].apn = reports[Named(reports, targets[i].name)].apn
                    /\ Has(reports, targets[i].name)
                 \/ \E k \in DOMAIN left : record[i] = left[k]
           /\ \A c : Has(targets, c) \/ Has(left, c) => \E i \in DOMAIN record : record[i].name = c
<1>1. /\ targets \in Seq(Target) /\ left \in Seq(Alone) /\ reports \in Seq(Reports)
      /\ PlanSound
  BY DEF IInv, TypeOK
<1>2. /\ DOMAIN record = 1 .. Len(targets) + Len(left)
      /\ \A i \in 1 .. Len(targets) : record[i] = EntryFor(i)
      /\ \A i \in 1 .. Len(left) : record[Len(targets) + i] = left[i]
  BY DEF IInv, Recorded
<1>3. /\ DOMAIN targets = 1 .. Len(targets) /\ Len(targets) \in Nat
      /\ DOMAIN left = 1 .. Len(left) /\ Len(left) \in Nat
  BY <1>1
<1>4. ASSUME NEW i \in DOMAIN targets
      PROVE  /\ i \in DOMAIN record /\ record[i] = EntryFor(i)
             /\ record[i].name = targets[i].name /\ Has(targets, targets[i].name)
             /\ record[i].outcome = "patched" /\ record[i].reason = Decide(targets[i].name)
             /\ record[i].keys = reports[Named(reports, targets[i].name)].keys
             /\ record[i].apn = reports[Named(reports, targets[i].name)].apn
             /\ Has(reports, targets[i].name)
  <2> DEFINE c == targets[i].name
  <2>1. Has(targets, c) /\ targets[i].reason = Decide(c)
    BY <1>1, <1>4, NamedIs DEF PlanSound
  <2>2. Has(reports, c)
    BY <2>1, TargetReported
  <2>3. reports[Named(reports, c)].name = c
    BY <1>1, <2>2, NamedIs
  <2>4. i \in DOMAIN record /\ record[i] = EntryFor(i)
    BY <1>2, <1>3, <1>4
  <2> QED
    BY <2>1, <2>2, <2>3, <2>4 DEF EntryFor, PatchedEntry
<1>5. ASSUME NEW i \in DOMAIN record, i \notin DOMAIN targets
      PROVE  \E k \in DOMAIN left : record[i] = left[k]
  <2>1. i - Len(targets) \in DOMAIN left /\ Len(targets) + (i - Len(targets)) = i
    BY <1>2, <1>3, <1>5
  <2>2. record[i] = left[i - Len(targets)]
    BY <1>2, <1>3, <2>1
  <2> QED
    BY <2>1, <2>2
<1>6. ASSUME NEW c, Has(targets, c) PROVE \E i \in DOMAIN record : record[i].name = c
  <2>1. Named(targets, c) \in DOMAIN targets /\ targets[Named(targets, c)].name = c
    BY <1>1, <1>6, NamedIs
  <2> QED
    BY <1>4, <2>1
<1>7. ASSUME NEW c, Has(left, c) PROVE \E i \in DOMAIN record : record[i].name = c
  <2> DEFINE k == Named(left, c)
  <2>1. k \in DOMAIN left /\ left[k].name = c
    BY <1>1, <1>7, NamedIs
  <2>2. Len(targets) + k \in DOMAIN record /\ record[Len(targets) + k] = left[k]
    BY <1>2, <1>3, <2>1
  <2> QED
    BY <2>1, <2>2
<1> QED
  BY <1>4, <1>5, <1>6, <1>7

\* Where the settings are in one place, the first report is of those that
\* plan.rs looked at.
LEMMA FirstIsHolder ==
    ASSUME IInv, AtHome, NEW c, Has(targets, c)
    PROVE  First(c) = Holder(c) /\ First(c).name = c /\ Maps!Known(DirMap(dir), c)
<1>1. IsListDir(dir) /\ dir.others \in Seq(ListSettings)
  BY DEF IInv, TypeOK, IsListDir
<1>2. c \in Carrier /\ Stock(c) \in {"plain", "certified"}
  BY TargetIs DEF IInv
<1>3. Maps!Known(DirMap(dir), c)
  BY <1>1, <1>2, StockMeans
<1>4. CASE c \in DOMAIN dir.own
  BY <1>3, <1>4, OwnIs DEF AtHome, First, Holder
<1>5. CASE c \notin DOMAIN dir.own
  <2>1. Has(dir.others, c)
    BY <1>2, <1>5 DEF Stock
  <2>2. dir.others[Named(dir.others, c)].name = c
    BY <1>1, <2>1, NamedIs
  <2> QED
    BY <1>3, <1>5, <2>1, <2>2 DEF First, Holder
<1> QED
  BY <1>4, <1>5

LEMMA RecordMeans ==
    ASSUME IInv, AtHome
    PROVE  RecordTells
<1> DEFINE asked == {c \in ToSet(Names(cfg.carriers) \o present) : Decide(c) # "none"}
           about(c) == {i \in DOMAIN record : record[i].name = c}
           stock == DirMap(dir)
           want(c) == Maps!Configs2Write(PlanMap[c])
           Tale(c, i) ==
              CASE ~Maps!Known(stock, c) -> record[i].outcome = "missing"
                [] Maps!Known(stock, c) /\ c \notin DOMAIN PlanMap -> record[i].outcome = "certified"
                [] OTHER -> /\ record[i].outcome = "patched"
                            /\ about(c) = {i}
                            /\ record[i].reason = IF c \in DOMAIN ConfigMap.carriers
                                                  THEN "configured" ELSE "detected"
                            /\ (record[i].keys = 0) =
                                  /\ WritesOnce(EntryOf(c))
                                  /\ \A k \in DOMAIN want(c) :
                                        /\ k \in DOMAIN Maps!SettingsOf(stock, c).keys
                                        /\ Maps!SettingsOf(stock, c).keys[k] = want(c)[k]
                            /\ (record[i].apn = "added") =
                                  (PlanMap[c].apn /\ ~Maps!SettingsOf(stock, c).apn)
<1>1. SUFFICES ASSUME pc = "done"
      PROVE  ToSet(Names(record)) = asked /\ \A c \in asked : \A i \in about(c) : Tale(c, i)
  BY DEF RecordTells
<1>2. /\ IsListDir(dir) /\ cfg \in ListConfig /\ present \in Seq(Carrier)
      /\ targets \in Seq(Target) /\ left \in Seq(Alone) /\ reports \in Seq(Reports)
      /\ cfg.carriers \in Seq(ListEntry) /\ PlanSound /\ PlanWhole
  BY DEF IInv, TypeOK, ListConfig
<1>3. asked = {c \in ToSet(Asked) : Decide(c) # "none"}
  BY DEF Asked
<1>4. ASSUME NEW k \in DOMAIN left
      PROVE  /\ left[k].name \in asked /\ LeftAlone(left[k].name)
             /\ left[k].outcome = Stock(left[k].name) /\ ~Has(targets, left[k].name)
             /\ left[k].name \in Carrier
  <2>1. LeftAlone(left[k].name) /\ left[k].name \in asked /\ left[k].outcome = Stock(left[k].name)
    BY <1>2, <1>3, <1>4 DEF PlanSound
  <2>2. left[k] \in Alone
    BY <1>2, <1>4
  <2>3. ~Has(targets, left[k].name)
    BY <2>1, TargetIs DEF IInv
  <2> QED
    BY <2>1, <2>2, <2>3 DEF Alone
<1>5. ToSet(Names(record)) = asked
  <2>1. ToSet(Names(record)) = {record[i].name : i \in DOMAIN record}
    BY DEF ToSet, Names
  <2>2. ASSUME NEW i \in DOMAIN record PROVE record[i].name \in asked
    <3>1. CASE record[i].name = targets[i].name /\ Has(targets, targets[i].name)
      <4>1. targets[i].name \in ToSet(Asked) /\ Decide(targets[i].name) # "none"
        BY <3>1, TargetIs DEF IInv
      <4> QED
        BY <1>3, <3>1, <4>1
    <3>2. CASE \E k \in DOMAIN left : record[i] = left[k]
      BY <1>4, <3>2
    <3> QED
      BY <1>1, <2>2, <3>1, <3>2, RecordIs
  <2>3. ASSUME NEW c \in asked PROVE \E i \in DOMAIN record : record[i].name = c
    <3>1. Has(targets, c) \/ Has(left, c)
      BY <1>1, <1>2, <1>3, <2>3 DEF PlanWhole, Considered
    <3> QED
      BY <1>1, <3>1, RecordIs
  <2> QED
    BY <2>1, <2>2, <2>3
<1>6. /\ DOMAIN PlanMap = {c \in Carrier : Has(targets, c)}
      /\ \A c \in DOMAIN PlanMap : PlanMap[c] = EntryMap(EntryOf(c))
  BY <1>1, PlanMeans
<1>7. ASSUME NEW c, NEW i \in about(c), Has(targets, c) PROVE Tale(c, i)
  <2>1. c \in Carrier /\ c \in DOMAIN PlanMap
    BY <1>6, <1>7, TargetIs DEF IInv
  <2>2. /\ i \in DOMAIN targets /\ targets[i].name = c /\ record[i].outcome = "patched"
        /\ record[i].reason = Decide(c) /\ Has(reports, c)
        /\ record[i].keys = reports[Named(reports, c)].keys
        /\ record[i].apn = reports[Named(reports, c)].apn
    BY <1>1, <1>4, <1>7, RecordIs
  <2>3. about(c) = {i}
    <3>1. ASSUME NEW k \in about(c) PROVE k = i
      <4>1. k \in DOMAIN targets /\ targets[k].name = c
        BY <1>1, <1>4, <1>7, <3>1, RecordIs
      <4> QED
        BY <1>2, <2>2, <4>1 DEF PlanSound
    <3> QED
      BY <1>7, <3>1
  <2>4. record[i].reason = IF c \in DOMAIN ConfigMap.carriers THEN "configured" ELSE "detected"
    <3>1. c \in DOMAIN ConfigMap.carriers <=> Has(cfg.carriers, c)
      BY <1>2, NamesAre DEF ConfigMap
    <3>2. Decide(c) # "none"
      BY <1>7, TargetIs DEF IInv
    <3> QED
      BY <2>2, <3>1, <3>2 DEF Decide
  <2>5. /\ Maps!Known(stock, c) /\ First(c) = Holder(c) /\ First(c).name = c
        /\ Maps!SettingsOf(stock, c) = SettingsMap(First(c))
    BY <1>2, <1>7, <2>1, FirstIsHolder, KnownMeans
  <2>6. Tells(reports[Named(reports, c)], First(c))
    <3>1. targets # <<>>
      BY <2>2
    <3> QED
      BY <1>1, <2>1, <2>2, <3>1 DEF IInv, Reported, Writing
  <2>7. PlanMap[c] = EntryMap(EntryOf(c))
    BY <1>6, <2>1
  <2>8. (record[i].keys = 0) =
           /\ WritesOnce(EntryOf(c))
           /\ \A k \in DOMAIN want(c) :
                 /\ k \in DOMAIN Maps!SettingsOf(stock, c).keys
                 /\ Maps!SettingsOf(stock, c).keys[k] = want(c)[k]
    <3> DEFINE w == Maps!Configs2Write(EntryMap(EntryOf(c)))
               keys == KeysMap(First(c).keys)
    <3>1. (record[i].keys = 0) = (WritesOnce(EntryOf(c)) /\ KeysThere(First(c), EntryOf(c)))
      BY <2>2, <2>5, <2>6 DEF Tells
    <3>2. want(c) = w
      BY <2>7
    <3>3. Maps!SettingsOf(stock, c).keys = keys
      BY <2>5 DEF SettingsMap
    <3>4. KeysThere(First(c), EntryOf(c)) <=> \A k \in DOMAIN w : k \in DOMAIN keys /\ keys[k] = w[k]
      BY DEF KeysThere, Holds
    <3> HIDE DEF w, keys, want, stock
    <3> QED
      BY <3>1, <3>2, <3>3, <3>4
  <2>9. (record[i].apn = "added") = (PlanMap[c].apn /\ ~Maps!SettingsOf(stock, c).apn)
    <3>1. (record[i].apn = "added") = ~ApnThere(First(c), EntryOf(c))
      BY <2>2, <2>5, <2>6 DEF Tells
    <3>2. Maps!SettingsOf(stock, c).apn = ("ims" \in ToSet(First(c).apns))
      BY <2>5 DEF SettingsMap
    <3>3. PlanMap[c].apn = EntryOf(c).apn
      BY <2>7 DEF EntryMap
    <3>4. EntryOf(c).apn \in BOOLEAN
      BY <1>2, <2>1, EntryTyped DEF ListEntry
    <3> QED
      BY <3>1, <3>2, <3>3, <3>4 DEF ApnThere
  <2> HIDE DEF about, stock, want
  <2> QED
    BY <2>1, <2>2, <2>3, <2>4, <2>5, <2>8, <2>9
<1>8. ASSUME NEW c \in asked, NEW i \in about(c), ~Has(targets, c) PROVE Tale(c, i)
  <2>1. PICK k \in DOMAIN left : record[i] = left[k] /\ left[k].name = c
    BY <1>1, <1>8, RecordIs
  <2>2. /\ LeftAlone(c) /\ record[i].outcome = Stock(c) /\ c \in Carrier
        /\ c \notin DOMAIN PlanMap
    BY <1>4, <1>6, <1>8, <2>1
  <2>3. Stock(c) \in {"missing", "certified"}
    BY <2>2 DEF LeftAlone
  <2>4. Stock(c) = "missing" <=> ~Maps!Known(stock, c)
    BY <1>2, <2>2, <2>3, StockMeans
  <2> HIDE DEF about, stock, want
  <2> QED
    BY <2>2, <2>3, <2>4
<1> HIDE DEF Tale, about, asked
<1>9. \A c \in asked : \A i \in about(c) : Tale(c, i)
  BY <1>7, <1>8
<1> QED
  BY <1>5, <1>9

\* "what became of one carrier, and why" (status.rs:27): the record has everybody
\* who was asked for, and says what telephony will find, where a carrier's
\* settings are in one place.
THEOREM RecordIsTrue ==
    ASSUME OneHome
    PROVE  Spec => []RecordTells
BY Invariance, HomeKept, RecordMeans, PTL
=============================================================================
