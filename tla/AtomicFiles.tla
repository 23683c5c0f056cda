----------------------------- MODULE AtomicFiles -----------------------------
(***************************************************************************)
(* How native/src/atomic.rs replaces a file (write) and a directory        *)
(* (replace_dir, with the callers in cache.rs and publish.rs that fill the *)
(* staging directory and clean up), on a disk that keeps what was synced,  *)
(* and of the rest any part.                                               *)
(*                                                                         *)
(* A file or directory is an inode.  A name refers to one inode at a time; *)
(* `log' has them all, in order.  Changes of a name reach the disk in      *)
(* order, at the latest when the parent directory is synced; contents      *)
(* reach the disk at the latest when they are synced, in any order.        *)
(***************************************************************************)
EXTENDS Naturals, Sequences

CONSTANTS
    Files,      \* names of files, each written by `write'
    Dirs,       \* names of directories, each replaced by `replace_dir'
    Inode,      \* inodes for what is written; a new one has a name of its own
    Torn,       \* no value: something that is not whole
    Proc,       \* processes
    SyncFails   \* may syncing the parent fail after directories were exchanged?

Name == Files \cup Dirs

ASSUME AtomicAssumption ==
    /\ Files \cap Dirs = {}
    /\ Inode \cap Name = {}
    /\ Torn \notin Inode \cup Name
    /\ SyncFails \in BOOLEAN

\* What a name refers to at first is called by the name; it may be absent.
Object == Inode \cup Name
Whole  == {"whole", "absent"}
Content == Whole \cup {"unused", "empty", "part"}

VARIABLES
    log,        \* by name: the inodes it has referred to, the last one being its own now
    flushed,    \* by name: how many of these changes are on the disk for sure
    mem,        \* by inode: its content, as processes see it
    disk,       \* by inode: its content, as far as it was synced
    told,       \* by name: the inodes whose writer was told that all went well
    job         \* by process: what it writes, where it is, what its exchange replaced

vars == <<log, flushed, mem, disk, told, job>>

Idle == [pc |-> "idle", name |-> Torn, new |-> Torn, old |-> Torn]

Init ==
    /\ log = [n \in Name |-> <<n>>]
    /\ flushed = [n \in Name |-> 1]
    /\ mem \in [Object -> Whole \cup {"unused"}]
    /\ \A i \in Object : mem[i] = "unused" <=> i \in Inode
    /\ disk = mem
    /\ told = [n \in Name |-> {}]
    /\ job = [p \in Proc |-> Idle]
-----------------------------------------------------------------------------
\* Before the rename.
Staging == {"fill", "sync", "move"}
Now(n) == log[n][Len(log[n])]
At(p, pc) == job[p].pc = pc
Goto(p, pc) == job' = [job EXCEPT ![p].pc = pc]
Done(p) == job' = [job EXCEPT ![p] = Idle]

\* A fault: the name of the temporary file is not unique, and what is there is
\* truncated.
CreateShared(p, n) ==
    /\ job[p] = Idle
    /\ \A q \in Proc : job[q].name = n => n \in Files
    /\ \E i \in Inode :
          /\ mem[i] = "unused" \/ \E q \in Proc : job[q].new = i
          /\ mem' = [mem EXCEPT ![i] = "empty"]
          /\ disk' = [disk EXCEPT ![i] = "empty"]
          /\ job' = [job EXCEPT ![p] = [pc |-> "fill", name |-> n, new |-> i, old |-> Torn]]
    /\ UNCHANGED <<log, flushed, told>>

\* A temporary file, or a staging directory, under a name nobody has.  Writers
\* of a directory hold the lock, writers of a file need none.
Create(p, n) ==
    /\ job[p] = Idle
    /\ \A q \in Proc : job[q].name = n => n \in Files
    /\ \E i \in Inode :
          /\ mem[i] = "unused"
          /\ mem' = [mem EXCEPT ![i] = "empty"]
          /\ disk' = [disk EXCEPT ![i] = "empty"]
          /\ job' = [job EXCEPT ![p] = [pc |-> "fill", name |-> n, new |-> i, old |-> Torn]]
    /\ UNCHANGED <<log, flushed, told>>

\* write_all, in pieces; or the files of the directory, one after the other,
\* each through `write', which returns when the file is on the disk.
Fill(p) ==
    /\ At(p, "fill")
    /\ LET i    == job[p].new
           more == IF mem[i] = "empty" THEN "part" ELSE "whole"
       IN  /\ mem' = [mem EXCEPT ![i] = more]
           /\ disk' = IF job[p].name \in Dirs THEN [disk EXCEPT ![i] = more] ELSE disk
           /\ Goto(p, IF more = "whole" THEN "sync" ELSE "fill")
    /\ UNCHANGED <<log, flushed, told>>

\* A fault: the file is moved into place before its content is on the disk.
SyncLater(p) ==
    /\ At(p, "sync")
    /\ Goto(p, "move")
    /\ UNCHANGED <<log, flushed, mem, disk, told>>

\* sync_all of the file, or of the staging directory.
Sync(p) ==
    /\ At(p, "sync")
    /\ disk' = [disk EXCEPT ![job[p].new] = mem[job[p].new]]
    /\ Goto(p, "move")
    /\ UNCHANGED <<log, flushed, mem, told>>

\* The rename over the file, the exchange of the directories, or the rename to
\* a name that had no directory.
Move(p) ==
    /\ At(p, "move")
    /\ LET n == job[p].name
       IN  /\ log' = [log EXCEPT ![n] = Append(@, job[p].new)]
           /\ job' = [job EXCEPT ![p].pc = "settle", ![p].old = Now(n)]
    /\ UNCHANGED <<flushed, mem, disk, told>>

\* Must the directory that was replaced be removed?
Leftover(p) == job[p].name \in Dirs /\ mem[job[p].old] # "absent"

\* A fault: the parent directory is not synced.
SettleUnsynced(p) ==
    /\ At(p, "settle")
    /\ told' = [told EXCEPT ![job[p].name] = @ \cup {job[p].new}]
    /\ Done(p)
    /\ UNCHANGED <<log, flushed, mem, disk>>

\* sync_parent.  After that the change is final, and the caller is told so.
Settle(p) ==
    /\ At(p, "settle")
    /\ LET n == job[p].name
       IN  /\ flushed' = [flushed EXCEPT ![n] = Len(log[n])]
           /\ told' = [told EXCEPT ![n] = @ \cup {job[p].new}]
    /\ IF Leftover(p) THEN Goto(p, "clean") ELSE Done(p)
    /\ UNCHANGED <<log, mem, disk>>

\* A fault: the old directory is removed before the parent is synced.
CleanAtOnce(p) ==
    /\ At(p, "settle")
    /\ Leftover(p)
    /\ mem' = [mem EXCEPT ![job[p].old] = "part"]
    /\ disk' = [disk EXCEPT ![job[p].old] = "part"]
    /\ UNCHANGED <<log, flushed, told, job>>

\* The directory that was replaced is removed, file by file.
Clean(p) ==
    /\ At(p, "clean")
    /\ mem' = [mem EXCEPT ![job[p].old] = "part"]
    /\ disk' = [disk EXCEPT ![job[p].old] = "part"]
    /\ Done(p)
    /\ UNCHANGED <<log, flushed, told>>

\* A step before the rename fails, and what was staged is removed.
Fail(p) ==
    /\ job[p].pc \in Staging
    /\ mem' = [mem EXCEPT ![job[p].new] = "part"]
    /\ disk' = [disk EXCEPT ![job[p].new] = "part"]
    /\ Done(p)
    /\ UNCHANGED <<log, flushed, told>>

\* The parent cannot be synced.  `write' finds no temporary file to remove any
\* more; the caller of replace_dir removes what has the staging name now, and
\* that is the directory that was replaced.
FailLate(p) ==
    /\ At(p, "settle")
    /\ IF Leftover(p)
       THEN /\ SyncFails
            /\ mem' = [mem EXCEPT ![job[p].old] = "part"]
            /\ disk' = [disk EXCEPT ![job[p].old] = "part"]
       ELSE UNCHANGED <<mem, disk>>
    /\ Done(p)
    /\ UNCHANGED <<log, flushed, told>>

\* The process dies; what it had staged stays behind.
Kill(p) ==
    /\ job[p] # Idle
    /\ Done(p)
    /\ UNCHANGED <<log, flushed, mem, disk, told>>

\* Power is lost: of the changes of each name some are on the disk, and all that
\* were before them; a content that was not synced is there in whole, in part
\* or not at all.
Crash ==
    /\ \E kept \in [Name -> UNION {1..Len(log[n]) : n \in Name}] :
          /\ \A n \in Name : kept[n] \in flushed[n]..Len(log[n])
          /\ log' = [n \in Name |-> SubSeq(log[n], 1, kept[n])]
          /\ flushed' = kept
    /\ \E found \in [{i \in Object : disk[i] # mem[i]} -> Content] :
          /\ \A i \in DOMAIN found : found[i] \in {disk[i], "part", mem[i]}
          /\ mem' = [i \in Object |-> IF i \in DOMAIN found THEN found[i] ELSE mem[i]]
    /\ disk' = mem'
    /\ job' = [p \in Proc |-> Idle]
    /\ UNCHANGED told

Next ==
    \/ \E p \in Proc :
          \/ \E n \in Name : Create(p, n)
          \/ Fill(p) \/ Sync(p) \/ Move(p) \/ Settle(p) \/ Clean(p)
          \/ Fail(p) \/ FailLate(p) \/ Kill(p)
    \/ Crash

Spec == Init /\ [][Next]_vars
-----------------------------------------------------------------------------
Pcs == {"idle", "fill", "sync", "move", "settle", "clean"}
IsJob(j) ==
    /\ j = [pc |-> j.pc, name |-> j.name, new |-> j.new, old |-> j.old]
    /\ j.pc \in Pcs
    /\ IF j.pc = "idle" THEN j = Idle ELSE j.name \in Name /\ j.new \in Inode
    /\ j.pc \in {"settle", "clean"} => j.old \in Object

TypeOK ==
    /\ log \in [Name -> Seq(Object)]
    /\ flushed \in [Name -> Nat]
    /\ \A n \in Name : flushed[n] \in 1..Len(log[n])
    /\ mem \in [Object -> Content] /\ disk \in [Object -> Content]
    /\ told \in [Name -> SUBSET Inode]
    /\ job = [p \in Proc |-> job[p]]
    /\ \A p \in Proc : IsJob(job[p])

\* A writer that was told all went well finds its value after any power loss, or
\* one that was written later.
DoneIsKept == \A n \in Name : \A i \in told[n] : \E k \in 1..flushed[n] : log[n][k] = i

\* The content of an inode is whole and on the disk (an absent directory is, too).
Kept(i) == mem[i] \in Whole /\ disk[i] = mem[i]

\* At no moment does a name refer, or would it refer after a power loss, to
\* something that is not whole and on the disk, whatever its writers are doing
\* ("Writes that either land whole or not at all", atomic.rs:1).
AlwaysWhole == \A n \in Name : \A k \in flushed[n]..Len(log[n]) : Kept(log[n][k])

\* An inode some name refers to, now or after a power loss, or has referred to.
Placed(i) == \E n \in Name : \E k \in 1..Len(log[n]) : log[n][k] = i
Used(i) == "unused" \notin {mem[i], disk[i]}
\* No inode has two names, or the same one twice.
Apart ==
    \A m, n \in Name : \A k \in 1..Len(log[m]), l \in 1..Len(log[n]) :
        log[m][k] = log[n][l] => m = n /\ k = l

SafeJob(j) ==
    /\ j.pc \in Staging => ~Placed(j.new) /\ Used(j.new)
    /\ j.pc = "sync" => mem[j.new] = "whole"
    /\ j.pc = "move" => Kept(j.new)
    /\ j.pc = "settle" => /\ \E k \in 1..Len(log[j.name]) : log[j.name][k] = j.new
                          /\ \E k \in 1..(Len(log[j.name]) - 1) : log[j.name][k] = j.old
    /\ j.pc = "clean" => \E k \in 1..(flushed[j.name] - 1) : log[j.name][k] = j.old

\* Each writer has its staging file to itself until the rename, which moves it
\* when it is whole and on the disk; what a writer removes after that, no power
\* loss can bring back.
WriterSafe ==
    /\ \A p \in Proc : SafeJob(job[p])
    /\ \A p, q \in Proc : job[p].pc \in Staging /\ job[q].pc \in Staging
                           /\ job[p].new = job[q].new => p = q
    /\ Apart
    /\ \A i \in Object : Placed(i) => Used(i)

\* The values a name has had: where a power loss cannot return to, those there
\* were, elsewhere those that would be found.
Found(i) == IF Kept(i) THEN i ELSE Torn
Values(n) == [k \in 1..Len(log[n]) |-> IF k < flushed[n] THEN log[n][k] ELSE Found(log[n][k])]

File == INSTANCE AtomicNames WITH
    Name <- Files, Value <- Inode \cup Name,
    history <- [n \in Files |-> Values(n)],
    base <- [n \in Files |-> flushed[n]], told <- [n \in Files |-> told[n]]

Dir == INSTANCE AtomicNames WITH
    Name <- Dirs, Value <- Inode \cup Name,
    history <- [n \in Dirs |-> Values(n)],
    base <- [n \in Dirs |-> flushed[n]], told <- [n \in Dirs |-> told[n]]

\* `write' implements files that change in one step and keep what their writers
\* were told, with writers that take no lock, fail, die or lose power anywhere.
FileIsAtomic == File!Spec

\* So does replace_dir together with its callers, for whole directories.
DirIsAtomic == Dir!Spec
=============================================================================
