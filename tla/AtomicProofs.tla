---------------------------- MODULE AtomicProofs ----------------------------
(***************************************************************************)
(* Theorems about AtomicFiles, checked by TLAPS: the steps of atomic.rs    *)
(* implement names whose values change in one step: files always, and      *)
(* directories if syncing the parent does not fail after the exchange.     *)
(***************************************************************************)
EXTENDS AtomicFiles, SequenceTheorems, TLAPS

\* The names whose values never depend on a parent that could not be synced.
Firm == IF SyncFails THEN Files ELSE Name
FirmWhole == \A n \in Firm : \A k \in flushed[n]..Len(log[n]) : Kept(log[n][k])

\* The inductive invariant.
IInv == TypeOK /\ FirmWhole /\ WriterSafe

\* What an idle process cannot be mistaken for.
LEMMA Kinds ==
    /\ Name \subseteq Object /\ Inode \subseteq Object /\ Torn \notin Object
    /\ Files \subseteq Name /\ Dirs \subseteq Name
    /\ Files \subseteq Firm /\ Firm \subseteq Name /\ (~SyncFails => Firm = Name)
    /\ Idle.pc = "idle" /\ Idle.pc \notin Staging
    BY AtomicAssumption DEF Name, Object, Idle, Staging, Firm

\* The staging inode of a writer is no one else's.
LEMMA StagedAlone ==
    ASSUME IInv, NEW p \in Proc, NEW q \in Proc,
           job[p].pc \in Staging, job[q].pc \in Staging, job[p].new = job[q].new
    PROVE  p = q
    BY DEF IInv, WriterSafe

\* What a name refers to is no one's staging inode.
LEMMA PlacedNotStaged ==
    ASSUME IInv, NEW p \in Proc, job[p].pc \in Staging,
           NEW n \in Name, NEW k \in 1..Len(log[n])
    PROVE  log[n][k] # job[p].new
    BY DEF IInv, WriterSafe, SafeJob, Placed
-----------------------------------------------------------------------------
(* The initial states *)

LEMMA InitInv == Init => IInv
<1> SUFFICES ASSUME Init PROVE IInv
    OBVIOUS
<1>1. TypeOK
  <2>1. log \in [Name -> Seq(Object)] /\ flushed \in [Name -> Nat] /\ told \in [Name -> SUBSET Inode]
    BY Kinds DEF Init
  <2>2. \A n \in Name : flushed[n] \in 1..Len(log[n])
    BY DEF Init
  <2>3. mem \in [Object -> Content] /\ disk \in [Object -> Content]
    BY DEF Init, Content
  <2>4. job = [p \in Proc |-> job[p]] /\ \A p \in Proc : IsJob(job[p])
    BY DEF Init, IsJob, Idle, Pcs
  <2> QED
    BY <2>1, <2>2, <2>3, <2>4 DEF TypeOK
<1>2. \A n \in Name : Len(log[n]) = 1 /\ log[n][1] = n
    BY DEF Init
<1>3. \A n \in Name : Kept(n)
    BY Kinds, AtomicAssumption DEF Init, Kept
<1>4. FirmWhole
    BY <1>2, <1>3, Kinds DEF Init, FirmWhole
<1>5. WriterSafe
  <2>1. \A p \in Proc : SafeJob(job[p]) /\ job[p].pc \notin Staging
    BY Kinds DEF Init, SafeJob, Idle
  <2>2. Apart
    BY <1>2 DEF Apart
  <2>3. \A i \in Object : Placed(i) => Used(i)
    BY <1>2, <1>3, Kinds DEF Placed, Kept, Whole, Used
  <2> QED
    BY <2>1, <2>2, <2>3 DEF WriterSafe
<1> QED
    BY <1>1, <1>4, <1>5 DEF IInv
-----------------------------------------------------------------------------
(* Steps that change contents and leave the names alone *)

\* If what a name may be found to refer to keeps its content, names stay whole.
LEMMA NamesStay ==
    ASSUME IInv, UNCHANGED <<log, flushed>>,
           \A n \in Firm : \A k \in flushed[n]..Len(log[n]) :
               mem'[log[n][k]] = mem[log[n][k]] /\ disk'[log[n][k]] = disk[log[n][k]]
    PROVE  /\ FirmWhole'
           /\ Apart'
           /\ \A i : Placed(i)' <=> Placed(i)
    BY Kinds DEF IInv, WriterSafe, FirmWhole, Apart, Placed, Kept

LEMMA CreateInv ==
    ASSUME IInv, NEW p \in Proc, NEW n \in Name, Create(p, n)
    PROVE  IInv'
<1>1. PICK i \in Inode :
          /\ mem[i] = "unused"
          /\ mem' = [mem EXCEPT ![i] = "empty"]
          /\ disk' = [disk EXCEPT ![i] = "empty"]
          /\ job' = [job EXCEPT ![p] = [pc |-> "fill", name |-> n, new |-> i, old |-> Torn]]
    BY DEF Create
<1>2. UNCHANGED <<log, flushed, told>>
    BY DEF Create
<1>3. ~Placed(i)
    BY <1>1, Kinds DEF IInv, WriterSafe, Used
<1>4. \A q \in Proc : job'[q] = IF q = p THEN [pc |-> "fill", name |-> n, new |-> i, old |-> Torn]
                                ELSE job[q]
    BY <1>1 DEF IInv, TypeOK
<1>5. \A j \in Object : j # i => mem'[j] = mem[j] /\ disk'[j] = disk[j]
    BY <1>1 DEF IInv, TypeOK
<1>6. mem'[i] = "empty" /\ disk'[i] = "empty"
    BY <1>1, Kinds DEF IInv, TypeOK
<1>7. TypeOK'
    BY <1>1, <1>2, <1>4, Kinds DEF IInv, TypeOK, IsJob, Pcs, Content
<1>8. FirmWhole' /\ Apart' /\ \A j : Placed(j)' <=> Placed(j)
  <2>1. \A m \in Name : \A k \in flushed[m]..Len(log[m]) :
            log[m][k] \in Object /\ log[m][k] # i
    BY <1>3 DEF IInv, TypeOK, Placed
  <2> QED
    BY <1>2, <1>5, <2>1, Kinds, NamesStay
<1>9. WriterSafe'
  <2>1. ASSUME NEW q \in Proc PROVE SafeJob(job[q])'
    <3>1. CASE q = p
      BY <1>3, <1>4, <1>6, <1>8, <3>1 DEF SafeJob, Used
    <3>2. CASE q # p
      <4>1. job'[q] = job[q] /\ SafeJob(job[q]) /\ IsJob(job[q])
        BY <1>4, <3>2 DEF IInv, WriterSafe, TypeOK
      <4>2. job[q].pc \in Staging => job[q].new # i /\ job[q].new \in Object
        BY <4>1, <1>1, Kinds DEF SafeJob, IsJob, Staging, Used
      <4> QED
        BY <4>1, <4>2, <1>2, <1>5, <1>8 DEF SafeJob, Kept, Staging, Used
    <3> QED
      BY <3>1, <3>2
  <2>2. ASSUME NEW q \in Proc, NEW r \in Proc,
               job'[q].pc \in Staging, job'[r].pc \in Staging, job'[q].new = job'[r].new
        PROVE  q = r
    <3>1. \A s \in Proc : job[s].pc \in Staging => job[s].new # i
      BY <1>1 DEF IInv, WriterSafe, SafeJob, Used
    <3> QED
      BY <2>2, <3>1, <1>4, StagedAlone
  <2>3. \A j \in Object : Placed(j)' => Used(j)'
    BY <1>3, <1>5, <1>8 DEF IInv, WriterSafe, Used
  <2> QED
    BY <2>1, <2>2, <2>3, <1>8 DEF WriterSafe
<1> QED
    BY <1>7, <1>8, <1>9 DEF IInv

\* A writer that has not renamed its staging file yet may do with it what it
\* likes, as long as it moves it only when it is whole and on the disk.
LEMMA StagingInv ==
    ASSUME IInv, NEW p \in Proc, job[p].pc \in Staging,
           NEW m \in Content \ {"unused"}, NEW d \in Content \ {"unused"}, NEW j,
           mem' = [mem EXCEPT ![job[p].new] = m],
           disk' = [disk EXCEPT ![job[p].new] = d],
           job' = [job EXCEPT ![p] = j],
           j = Idle \/ (j.pc \in Staging /\ j = [job[p] EXCEPT !.pc = j.pc]),
           j.pc = "sync" => m = "whole",
           j.pc = "move" => m = "whole" /\ d = "whole",
           UNCHANGED <<log, flushed, told>>
    PROVE  IInv'
<1> DEFINE i == job[p].new
<1>1. IsJob(job[p]) /\ i \in Inode /\ i \in Object
  <2>1. IsJob(job[p])
    BY DEF IInv, TypeOK
  <2> QED
    BY <2>1, Kinds DEF IsJob, Staging
<1>2. \A q \in Proc : job'[q] = IF q = p THEN j ELSE job[q]
    BY DEF IInv, TypeOK
<1>3. \A k \in Object : IF k = i THEN mem'[k] = m /\ disk'[k] = d
                               ELSE mem'[k] = mem[k] /\ disk'[k] = disk[k]
    BY <1>1 DEF IInv, TypeOK
<1>4. IsJob(j) /\ (j # Idle => j.new = i /\ j.pc \in Staging)
  <2>1. CASE j = Idle
    BY <2>1, Kinds DEF IsJob, Pcs, Idle
  <2>2. CASE j.pc \in Staging /\ j = [job[p] EXCEPT !.pc = j.pc]
    <3>1. /\ j = [pc |-> j.pc, name |-> job[p].name, new |-> job[p].new, old |-> job[p].old]
          /\ job[p].name \in Name
      BY <1>1, <2>2 DEF IsJob, Staging
    <3> QED
      BY <1>1, <2>2, <3>1 DEF IsJob, Staging, Pcs
  <2> QED
    BY <2>1, <2>2
<1>5. TypeOK'
  <2>1. mem' \in [Object -> Content] /\ disk' \in [Object -> Content]
    BY <1>1 DEF IInv, TypeOK
  <2>2. job' = [q \in Proc |-> job'[q]] /\ \A q \in Proc : IsJob(job'[q])
    BY <1>2, <1>4 DEF IInv, TypeOK
  <2> QED
    BY <2>1, <2>2 DEF IInv, TypeOK, IsJob
<1>6. FirmWhole' /\ Apart' /\ \A k : Placed(k)' <=> Placed(k)
  <2>1. \A n \in Name : \A k \in flushed[n]..Len(log[n]) :
            log[n][k] \in Object /\ log[n][k] # i
    BY PlacedNotStaged DEF IInv, TypeOK
  <2> QED
    BY <1>3, <2>1, Kinds, NamesStay
<1>7. WriterSafe'
  <2>1. ASSUME NEW q \in Proc PROVE SafeJob(job[q])'
    <3>1. CASE q = p
      <4>1. ~Placed(i)
        BY DEF IInv, WriterSafe, SafeJob
      <4> QED
        BY <1>1, <1>2, <1>3, <1>4, <1>6, <3>1, <4>1, Kinds DEF SafeJob, Kept, Staging, Whole, Used
    <3>2. CASE q # p
      <4>1. job'[q] = job[q] /\ SafeJob(job[q]) /\ IsJob(job[q])
        BY <1>2, <3>2 DEF IInv, WriterSafe, TypeOK
      <4>2. job[q].pc \in Staging => job[q].new # i /\ job[q].new \in Object
        BY <4>1, <3>2, StagedAlone, Kinds DEF IsJob, Staging
      <4> QED
        BY <4>1, <4>2, <1>3, <1>6 DEF SafeJob, Kept, Staging, Used
    <3> QED
      BY <3>1, <3>2
  <2>2. ASSUME NEW q \in Proc, NEW r \in Proc,
               job'[q].pc \in Staging, job'[r].pc \in Staging, job'[q].new = job'[r].new
        PROVE  q = r
    BY <2>2, <1>2, <1>4, StagedAlone, Kinds
  <2>3. \A k \in Object : Placed(k)' => Used(k)'
    BY <1>3, <1>6 DEF IInv, WriterSafe, Used
  <2> QED
    BY <2>1, <2>2, <2>3, <1>6 DEF WriterSafe
<1> QED
    BY <1>5, <1>6, <1>7 DEF IInv

LEMMA FillInv ==
    ASSUME IInv, NEW p \in Proc, Fill(p)
    PROVE  IInv'
<1> DEFINE i    == job[p].new
           more == IF mem[i] = "empty" THEN "part" ELSE "whole"
           d    == IF job[p].name \in Dirs THEN more ELSE disk[i]
           j    == [job[p] EXCEPT !.pc = IF more = "whole" THEN "sync" ELSE "fill"]
<1>1. job[p].pc \in Staging /\ IsJob(job[p]) /\ i \in Object
  <2>1. job[p].pc \in Staging /\ IsJob(job[p])
    BY DEF Fill, At, Staging, IInv, TypeOK
  <2> QED
    BY <2>1, Kinds DEF IsJob, Staging
<1>2. more \in Content \ {"unused"} /\ d \in Content \ {"unused"}
    BY <1>1 DEF IInv, TypeOK, Content, Whole, WriterSafe, SafeJob, Used
<1>3. disk' = [disk EXCEPT ![i] = d]
    BY <1>1 DEF Fill, IInv, TypeOK
<1>4. mem' = [mem EXCEPT ![i] = more] /\ job' = [job EXCEPT ![p] = j]
  <2>1. mem' = [mem EXCEPT ![i] = more]
    BY DEF Fill
  <2>2. job' = [job EXCEPT ![p].pc = IF more = "whole" THEN "sync" ELSE "fill"]
    BY DEF Fill, Goto
  <2> QED
    BY <2>1, <2>2
<1>5. /\ j.pc \in Staging /\ j.pc # "move" /\ (j.pc = "sync" => more = "whole")
      /\ j = [job[p] EXCEPT !.pc = j.pc]
    BY <1>1 DEF IsJob, Staging
<1>6. UNCHANGED <<log, flushed, told>>
    BY DEF Fill
<1> HIDE DEF more, d, j
<1> QED
    BY <1>1, <1>2, <1>3, <1>4, <1>5, <1>6, StagingInv

LEMMA SyncInv ==
    ASSUME IInv, NEW p \in Proc, Sync(p)
    PROVE  IInv'
<1> DEFINE i == job[p].new
           j == [job[p] EXCEPT !.pc = "move"]
<1>1. job[p].pc \in Staging /\ IsJob(job[p]) /\ i \in Object /\ mem[i] = "whole"
  <2>1. job[p].pc \in Staging /\ IsJob(job[p]) /\ SafeJob(job[p]) /\ job[p].pc = "sync"
    BY DEF Sync, At, Staging, IInv, TypeOK, WriterSafe
  <2> QED
    BY <2>1, Kinds DEF IsJob, SafeJob
<1>2. mem' = [mem EXCEPT ![i] = "whole"]
    BY <1>1 DEF Sync, IInv, TypeOK
<1>3. disk' = [disk EXCEPT ![i] = "whole"] /\ UNCHANGED <<log, flushed, told>>
    BY <1>1 DEF Sync
<1>4. job' = [job EXCEPT ![p] = j]
    BY DEF Sync, Goto
<1>5. j.pc = "move" /\ j = [job[p] EXCEPT !.pc = j.pc]
    BY <1>1 DEF IsJob
<1> QED
    BY <1>1, <1>2, <1>3, <1>4, <1>5, StagingInv DEF Staging, Content, Whole

LEMMA FailInv ==
    ASSUME IInv, NEW p \in Proc, Fail(p)
    PROVE  IInv'
    BY StagingInv, Kinds DEF Fail, Done, Content
-----------------------------------------------------------------------------
(* Steps from the rename on *)

LEMMA MoveInv ==
    ASSUME IInv, NEW p \in Proc, Move(p)
    PROVE  IInv'
<1> DEFINE i == job[p].new
           n == job[p].name
           len == Len(log[n])
<1>1. /\ IsJob(job[p]) /\ SafeJob(job[p]) /\ job[p].pc = "move" /\ job[p].pc \in Staging
      /\ n \in Name /\ i \in Inode /\ i \in Object /\ ~Placed(i) /\ Kept(i)
  <2>1. IsJob(job[p]) /\ SafeJob(job[p]) /\ job[p].pc = "move"
    BY DEF Move, At, IInv, TypeOK, WriterSafe
  <2> QED
    BY <2>1, Kinds DEF IsJob, SafeJob, Staging
<1>2. log \in [Name -> Seq(Object)] /\ flushed[n] \in 1..len /\ len \in Nat \ {0}
    BY <1>1 DEF IInv, TypeOK
<1>3. /\ log' = [log EXCEPT ![n] = Append(@, i)]
      /\ job' = [job EXCEPT ![p].pc = "settle", ![p].old = Now(n)]
      /\ UNCHANGED <<flushed, mem, disk, told>>
    BY DEF Move
<1>4. \A q \in Proc : job'[q] = IF q = p THEN [pc |-> "settle", name |-> n, new |-> i, old |-> Now(n)]
                                ELSE job[q]
  <2>1. job'[p] = [job[p] EXCEPT !.pc = "settle", !.old = Now(n)]
    BY <1>3 DEF IInv, TypeOK
  <2>2. job[p] = [pc |-> job[p].pc, name |-> n, new |-> i, old |-> job[p].old]
    BY <1>1 DEF IsJob
  <2>3. job'[p] = [pc |-> "settle", name |-> n, new |-> i, old |-> Now(n)]
    BY <2>1, <2>2
  <2>4. \A q \in Proc : q # p => job'[q] = job[q]
    BY <1>3 DEF IInv, TypeOK
  <2> QED
    BY <2>3, <2>4
<1>5. /\ Len(log'[n]) = len + 1 /\ log'[n][len + 1] = i
      /\ \A k \in 1..len : log'[n][k] = log[n][k]
      /\ \A m \in Name : m # n => log'[m] = log[m]
    BY <1>1, <1>2, <1>3
<1>e. \A a \in Name : \A b \in 1..Len(log'[a]) :
          \/ a = n /\ b = len + 1 /\ log'[a][b] = i
          \/ b \in 1..Len(log[a]) /\ log'[a][b] = log[a][b] /\ log[a][b] # i
  <2> SUFFICES ASSUME NEW a \in Name, NEW b \in 1..Len(log'[a])
               PROVE  \/ a = n /\ b = len + 1 /\ log'[a][b] = i
                      \/ b \in 1..Len(log[a]) /\ log'[a][b] = log[a][b]
    BY <1>1 DEF Placed
  <2>1. CASE a # n
    BY <1>5, <2>1
  <2>2. CASE a = n
    BY <1>2, <1>5, <2>2
  <2> QED
    BY <2>1, <2>2
<1>f. \A a \in Name : \A b \in 1..Len(log[a]) : b \in 1..Len(log'[a]) /\ log'[a][b] = log[a][b]
  <2> SUFFICES ASSUME NEW a \in Name, NEW b \in 1..Len(log[a])
               PROVE  b \in 1..Len(log'[a]) /\ log'[a][b] = log[a][b]
    OBVIOUS
  <2>1. CASE a # n
    BY <1>5, <2>1
  <2>2. CASE a = n
    BY <1>2, <1>5, <2>2
  <2> QED
    BY <2>1, <2>2
<1>6. \A j : Placed(j)' <=> Placed(j) \/ j = i
  <2> SUFFICES ASSUME NEW j PROVE Placed(j)' <=> Placed(j) \/ j = i
    OBVIOUS
  <2>1. Placed(j)' => Placed(j) \/ j = i
    BY <1>e DEF Placed
  <2>2. Placed(j) => Placed(j)'
    BY <1>f DEF Placed
  <2>3. ASSUME j = i PROVE Placed(j)'
    <3>1. len + 1 \in 1..Len(log'[n]) /\ log'[n][len + 1] = j
      BY <1>2, <1>5, <2>3
    <3> QED
      BY <1>1, <3>1 DEF Placed
  <2> QED
    BY <2>1, <2>2, <2>3
<1>7. TypeOK'
  <2>1. log' \in [Name -> Seq(Object)]
    BY <1>1, <1>2, <1>3
  <2>2. \A m \in Name : flushed'[m] \in 1..Len(log'[m])
    BY <1>2, <1>3, <1>5 DEF IInv, TypeOK
  <2>3. Now(n) \in Object
    BY <1>1, <1>2 DEF Now
  <2>4. job' = [q \in Proc |-> job'[q]] /\ \A q \in Proc : IsJob(job'[q])
    BY <1>1, <1>3, <1>4, <2>3 DEF IInv, TypeOK, IsJob, Pcs
  <2> QED
    BY <1>3, <2>1, <2>2, <2>4 DEF IInv, TypeOK, IsJob
<1>8. FirmWhole'
  <2>a. flushed' = flushed /\ mem' = mem /\ disk' = disk
    BY <1>3
  <2> SUFFICES ASSUME NEW m \in Firm, NEW k, k \in (flushed[m]..Len(log[m]))'
               PROVE  Kept(log[m][k])'
    BY DEF FirmWhole
  <2> SUFFICES mem[log'[m][k]] \in Whole /\ disk[log'[m][k]] = mem[log'[m][k]]
    BY <2>a DEF Kept
  <2>1. CASE m = n /\ k = len + 1
    BY <1>1, <1>5, <2>1 DEF Kept
  <2>2. CASE ~(m = n /\ k = len + 1)
    <3>1. k \in flushed[m]..Len(log[m]) /\ log'[m][k] = log[m][k]
      BY <1>2, <1>3, <1>5, <2>2 DEF IInv, TypeOK
    <3> QED
      BY <3>1 DEF IInv, FirmWhole, Kept
  <2> QED
    BY <2>1, <2>2
<1>9. Apart'
  <2> SUFFICES ASSUME NEW m \in Name, NEW o \in Name, NEW k \in 1..Len(log'[m]),
                      NEW l \in 1..Len(log'[o]), log'[m][k] = log'[o][l]
               PROVE  m = o /\ k = l
    BY DEF Apart
  <2> QED
    BY <1>e DEF IInv, WriterSafe, Apart
<1>10. WriterSafe'
  <2>1. ASSUME NEW q \in Proc PROVE SafeJob(job[q])'
    <3>1. CASE q = p
      <4>1. \E k \in 1..Len(log'[n]) : log'[n][k] = i
        <5>1. len + 1 \in 1..Len(log'[n])
          BY <1>2, <1>5
        <5> QED
          BY <1>5, <5>1
      <4>2. \E k \in 1..(Len(log'[n]) - 1) : log'[n][k] = Now(n)
        BY <1>2, <1>5 DEF Now
      <4> QED
        BY <1>4, <3>1, <4>1, <4>2 DEF SafeJob, Staging
    <3>2. CASE q # p
      <4>1. job'[q] = job[q] /\ SafeJob(job[q]) /\ IsJob(job[q])
        BY <1>4, <3>2 DEF IInv, WriterSafe, TypeOK
      <4>2. job[q].pc \in Staging => job[q].new # i
        BY <1>1, <3>2, StagedAlone
      <4>3. job[q].pc \in {"settle", "clean"} =>
                /\ job[q].name \in Name
                /\ Len(log[job[q].name]) \in Nat \ {0}
                /\ Len(log'[job[q].name]) \in Nat /\ Len(log[job[q].name]) <= Len(log'[job[q].name])
                /\ flushed[job[q].name] \in 1..Len(log[job[q].name])
        <5> SUFFICES ASSUME job[q].pc \in {"settle", "clean"}, NEW a, a = job[q].name
                     PROVE  /\ a \in Name
                            /\ Len(log[a]) \in Nat \ {0}
                            /\ Len(log'[a]) \in Nat /\ Len(log[a]) <= Len(log'[a])
                            /\ flushed[a] \in 1..Len(log[a])
          OBVIOUS
        <5>1. a \in Name
          BY <4>1, Kinds DEF IsJob
        <5>2. flushed[a] \in 1..Len(log[a]) /\ Len(log[a]) \in Nat \ {0}
          BY <5>1 DEF IInv, TypeOK
        <5>3. CASE a = n
          BY <1>2, <1>5, <5>1, <5>2, <5>3
        <5>4. CASE a # n
          BY <1>5, <5>1, <5>2, <5>4
        <5> QED
          BY <5>3, <5>4
      <4>4. (job[q].pc \in Staging => ~Placed(job[q].new)' /\ Used(job[q].new)')
        BY <1>3, <1>6, <4>1, <4>2 DEF SafeJob, Used
      <4>5. job[q].pc \in {"sync", "move"} => SafeJob(job[q])'
        BY <1>3, <4>1, <4>4 DEF SafeJob, Kept
      <4>6. job[q].pc = "settle" => SafeJob(job[q])'
        <5>1. SUFFICES ASSUME job[q].pc = "settle" PROVE SafeJob(job[q])'
          OBVIOUS
        <5>2. PICK k \in 1..Len(log[job[q].name]) : log[job[q].name][k] = job[q].new
          BY <4>1, <5>1 DEF SafeJob
        <5>3. PICK l \in 1..(Len(log[job[q].name]) - 1) : log[job[q].name][l] = job[q].old
          BY <4>1, <5>1 DEF SafeJob
        <5>4. l \in 1..(Len(log'[job[q].name]) - 1) /\ log'[job[q].name][l] = job[q].old
          BY <1>f, <4>3, <5>1, <5>3
        <5>5. k \in 1..Len(log'[job[q].name]) /\ log'[job[q].name][k] = job[q].new
          BY <1>f, <4>3, <5>1, <5>2
        <5> QED
          BY <4>1, <5>1, <5>4, <5>5 DEF SafeJob, Staging
      <4>7. job[q].pc = "clean" => SafeJob(job[q])'
        <5>1. SUFFICES ASSUME job[q].pc = "clean" PROVE SafeJob(job[q])'
          OBVIOUS
        <5>2. PICK l \in 1..(flushed[job[q].name] - 1) : log[job[q].name][l] = job[q].old
          BY <4>1, <5>1 DEF SafeJob
        <5>3. l \in 1..Len(log[job[q].name]) /\ flushed' = flushed
          BY <1>3, <4>3, <5>1
        <5>4. log'[job[q].name][l] = job[q].old
          BY <1>f, <4>3, <5>1, <5>2, <5>3
        <5> QED
          BY <4>1, <5>1, <5>3, <5>4 DEF SafeJob, Staging
      <4> QED
        BY <4>1, <4>4, <4>5, <4>6, <4>7 DEF SafeJob
    <3> QED
      BY <3>1, <3>2
  <2>2. ASSUME NEW q \in Proc, NEW r \in Proc,
               job'[q].pc \in Staging, job'[r].pc \in Staging, job'[q].new = job'[r].new
        PROVE  q = r
    <3>1. q # p /\ r # p
      BY <1>4, <2>2 DEF Staging
    <3> QED
      BY <1>4, <2>2, <3>1, StagedAlone
  <2>3. \A j \in Object : Placed(j)' => Used(j)'
    BY <1>1, <1>3, <1>6 DEF IInv, WriterSafe, SafeJob, Used
  <2> QED
    BY <2>1, <2>2, <2>3, <1>9 DEF WriterSafe
<1> QED
    BY <1>7, <1>8, <1>10 DEF IInv

\* If neither names nor contents change and the jobs that go on are as safe as
\* before, the invariant is kept: a step that only ends a job, say.
LEMMA JobsInv ==
    ASSUME IInv, NEW p \in Proc, NEW j, IsJob(j), j.pc \notin Staging,
           job' = [job EXCEPT ![p] = j],
           UNCHANGED <<log, mem, disk>>,
           flushed' \in [Name -> Nat], told' \in [Name -> SUBSET Inode],
           \A n \in Name : flushed'[n] \in flushed[n]..Len(log[n]),
           SafeJob(j)'
    PROVE  IInv'
<1>1. \A q \in Proc : job'[q] = IF q = p THEN j ELSE job[q]
    BY DEF IInv, TypeOK
<1>2. \A n \in Name : /\ flushed[n] \in Nat /\ flushed'[n] \in Nat /\ Len(log[n]) \in Nat
                      /\ 1 <= flushed[n] /\ flushed[n] <= flushed'[n] /\ flushed'[n] <= Len(log[n])
    BY DEF IInv, TypeOK
<1>3. TypeOK'
  <2>1. job' = [q \in Proc |-> job'[q]] /\ \A q \in Proc : IsJob(job'[q])
    BY <1>1 DEF IInv, TypeOK
  <2> QED
    BY <1>2, <2>1 DEF IInv, TypeOK, IsJob
<1>4. FirmWhole'
  <2>1. \A n \in Name : \A k \in flushed'[n]..Len(log[n]) : k \in flushed[n]..Len(log[n])
    BY <1>2
  <2> QED
    BY <2>1, Kinds DEF IInv, FirmWhole, Kept
<1>5. Apart' /\ \A k : Placed(k)' <=> Placed(k)
    BY DEF IInv, WriterSafe, Apart, Placed
<1>6. ASSUME NEW q \in Proc PROVE SafeJob(job[q])'
  <2>1. CASE q = p
    BY <1>1, <2>1
  <2>2. CASE q # p
    <3>1. job'[q] = job[q] /\ SafeJob(job[q]) /\ IsJob(job[q])
      BY <1>1, <2>2 DEF IInv, WriterSafe, TypeOK
    <3>2. job[q].pc = "clean" => \E k \in 1..(flushed'[job[q].name] - 1) : log[job[q].name][k] = job[q].old
      <4> SUFFICES ASSUME job[q].pc = "clean", NEW n, n = job[q].name
                   PROVE  \E k \in 1..(flushed'[n] - 1) : log[n][k] = job[q].old
        OBVIOUS
      <4>1. n \in Name
        BY <3>1 DEF IsJob
      <4>2. PICK k \in 1..(flushed[n] - 1) : log[n][k] = job[q].old
        BY <3>1 DEF SafeJob
      <4>3. k \in 1..(flushed'[n] - 1)
        BY <1>2, <4>1
      <4> QED
        BY <4>2, <4>3
    <3> QED
      BY <1>5, <3>1, <3>2 DEF SafeJob, Kept, Used
  <2> QED
    BY <2>1, <2>2
<1>7. WriterSafe'
  <2>1. ASSUME NEW q \in Proc, NEW r \in Proc,
               job'[q].pc \in Staging, job'[r].pc \in Staging, job'[q].new = job'[r].new
        PROVE  q = r
    BY <1>1, <2>1, StagedAlone
  <2>2. \A k \in Object : Placed(k)' => Used(k)'
    BY <1>5 DEF IInv, WriterSafe, Used
  <2> QED
    BY <1>5, <1>6, <2>1, <2>2 DEF WriterSafe
<1> QED
    BY <1>3, <1>4, <1>7 DEF IInv

LEMMA IdleIsSafe == IsJob(Idle) /\ Idle.pc \notin Staging /\ SafeJob(Idle)'
    BY DEF IsJob, Idle, Pcs, SafeJob, Staging

LEMMA SettleInv ==
    ASSUME IInv, NEW p \in Proc, Settle(p)
    PROVE  IInv'
<1> DEFINE n == job[p].name
<1>1. /\ IsJob(job[p]) /\ SafeJob(job[p]) /\ job[p].pc = "settle"
      /\ n \in Name /\ job[p].new \in Inode /\ job[p].old \in Object
  <2>1. IsJob(job[p]) /\ SafeJob(job[p]) /\ job[p].pc = "settle"
    BY DEF Settle, At, IInv, TypeOK, WriterSafe
  <2> QED
    BY <2>1, Kinds DEF IsJob
<1>2. /\ flushed' = [flushed EXCEPT ![n] = Len(log[n])]
      /\ told' = [told EXCEPT ![n] = @ \cup {job[p].new}]
      /\ UNCHANGED <<log, mem, disk>>
    BY DEF Settle
<1>3. \A m \in Name : flushed[m] \in Nat /\ Len(log[m]) \in Nat /\ flushed[m] <= Len(log[m])
    BY DEF IInv, TypeOK
<1>4. flushed' \in [Name -> Nat] /\ told' \in [Name -> SUBSET Inode]
    BY <1>1, <1>2, <1>3 DEF IInv, TypeOK
<1>5. \A m \in Name : flushed'[m] \in flushed[m]..Len(log[m])
    BY <1>2, <1>3 DEF IInv, TypeOK
<1>6. CASE job' = [job EXCEPT ![p] = Idle]
    BY <1>2, <1>4, <1>5, <1>6, IdleIsSafe, JobsInv
<1>7. CASE Goto(p, "clean")
  <2>1. PICK j : j = [job[p] EXCEPT !.pc = "clean"]
    OBVIOUS
  <2>2. job' = [job EXCEPT ![p] = j]
    BY <1>7, <2>1 DEF Goto
  <2>3. j = [pc |-> "clean", name |-> n, new |-> job[p].new, old |-> job[p].old]
    BY <1>1, <2>1 DEF IsJob
  <2>4. IsJob(j) /\ j.pc = "clean" /\ j.pc \notin Staging
    BY <1>1, <2>3 DEF IsJob, Pcs, Staging
  <2>5. SafeJob(j)'
    <3>1. \E k \in 1..(Len(log[n]) - 1) : log[n][k] = job[p].old
      BY <1>1 DEF SafeJob
    <3>2. flushed'[n] = Len(log[n]) /\ log' = log
      BY <1>1, <1>2 DEF IInv, TypeOK
    <3>3. \E k \in 1..(flushed'[j.name] - 1) : log'[j.name][k] = j.old
      BY <2>3, <3>1, <3>2
    <3> QED
      BY <2>4, <3>3 DEF SafeJob
  <2>6. UNCHANGED <<log, mem, disk>>
    BY <1>2
  <2> QED
    BY <1>4, <1>5, <2>2, <2>4, <2>5, <2>6, JobsInv
<1> QED
    BY <1>6, <1>7 DEF Settle, Done

\* What a name no longer refers to is removed, by the writer that replaced it: no
\* staging file of anybody, and nothing a firm name would be found to refer to.
LEMMA RemoveInv ==
    ASSUME IInv, NEW p \in Proc, NEW o \in Object, Placed(o),
           \A m \in Firm : \A k \in flushed[m]..Len(log[m]) : log[m][k] # o,
           mem' = [mem EXCEPT ![o] = "part"], disk' = [disk EXCEPT ![o] = "part"],
           job' = [job EXCEPT ![p] = Idle], UNCHANGED <<log, flushed, told>>
    PROVE  IInv'
<1>3. \A q \in Proc : job'[q] = IF q = p THEN Idle ELSE job[q]
    BY DEF IInv, TypeOK
<1>4. \A k \in Object : IF k = o THEN mem'[k] = "part"
                               ELSE mem'[k] = mem[k] /\ disk'[k] = disk[k]
    BY DEF IInv, TypeOK
<1>a. disk'[o] = "part"
    BY DEF IInv, TypeOK
<1>6. TypeOK'
  <2>1. mem' \in [Object -> Content] /\ disk' \in [Object -> Content]
    BY DEF IInv, TypeOK, Content
  <2>2. job' = [q \in Proc |-> job'[q]] /\ \A q \in Proc : IsJob(job'[q])
    BY <1>3, IdleIsSafe DEF IInv, TypeOK
  <2> QED
    BY <2>1, <2>2 DEF IInv, TypeOK, IsJob
<1>7. FirmWhole' /\ Apart' /\ \A k : Placed(k)' <=> Placed(k)
  <2>1. \A m \in Firm : \A k \in flushed[m]..Len(log[m]) : log[m][k] \in Object
    BY Kinds DEF IInv, TypeOK
  <2> QED
    BY <1>4, <2>1, NamesStay
<1>8. WriterSafe'
  <2>1. ASSUME NEW q \in Proc PROVE SafeJob(job[q])'
    <3>1. CASE q = p
      BY <1>3, <3>1, IdleIsSafe
    <3>2. CASE q # p
      <4>1. job'[q] = job[q] /\ SafeJob(job[q]) /\ IsJob(job[q])
        BY <1>3, <3>2 DEF IInv, WriterSafe, TypeOK
      <4>2. job[q].pc \in Staging => job[q].new # o /\ job[q].new \in Object
        BY <4>1, Kinds DEF IsJob, SafeJob, Staging
      <4> QED
        BY <1>4, <1>7, <4>1, <4>2 DEF SafeJob, Kept, Staging, Used
    <3> QED
      BY <3>1, <3>2
  <2>2. ASSUME NEW q \in Proc, NEW r \in Proc,
               job'[q].pc \in Staging, job'[r].pc \in Staging, job'[q].new = job'[r].new
        PROVE  q = r
    BY <1>3, <2>2, StagedAlone, Kinds
  <2>3. \A k \in Object : Placed(k)' => Used(k)'
    BY <1>4, <1>a, <1>7 DEF IInv, WriterSafe, Used
  <2> QED
    BY <1>7, <2>1, <2>2, <2>3 DEF WriterSafe
<1> QED
    BY <1>6, <1>7, <1>8 DEF IInv

LEMMA CleanInv ==
    ASSUME IInv, NEW p \in Proc, Clean(p)
    PROVE  IInv'
<1> DEFINE n == job[p].name
           o == job[p].old
<1>1. /\ IsJob(job[p]) /\ SafeJob(job[p]) /\ job[p].pc = "clean"
      /\ n \in Name /\ o \in Object
  <2>1. IsJob(job[p]) /\ SafeJob(job[p]) /\ job[p].pc = "clean"
    BY DEF Clean, At, IInv, TypeOK, WriterSafe
  <2> QED
    BY <2>1 DEF IsJob
<1>2. /\ mem' = [mem EXCEPT ![o] = "part"]
      /\ disk' = [disk EXCEPT ![o] = "part"]
      /\ job' = [job EXCEPT ![p] = Idle]
      /\ UNCHANGED <<log, flushed, told>>
    BY DEF Clean, Done
<1>3. Placed(o) /\ \A m \in Name : \A k \in flushed[m]..Len(log[m]) : log[m][k] # o
  <2>1. flushed[n] \in 1..Len(log[n]) /\ Len(log[n]) \in Nat
    BY <1>1 DEF IInv, TypeOK
  <2>2. PICK l \in 1..(flushed[n] - 1) : log[n][l] = o
    BY <1>1 DEF SafeJob
  <2>3. l \in 1..Len(log[n]) /\ l < flushed[n]
    BY <2>1
  <2>4. ASSUME NEW m \in Name, NEW k \in flushed[m]..Len(log[m]) PROVE log[m][k] # o
    <3>1. k \in 1..Len(log[m])
      BY DEF IInv, TypeOK
    <3>2. ~(m = n /\ k = l)
      BY <2>1, <2>3
    <3> QED
      BY <1>1, <2>2, <2>3, <3>1, <3>2 DEF IInv, WriterSafe, Apart
  <2> QED
    BY <1>1, <2>2, <2>3, <2>4 DEF Placed
<1> QED
    BY <1>1, <1>2, <1>3, Kinds, RemoveInv

LEMMA EndInv ==
    ASSUME IInv, NEW p \in Proc, job' = [job EXCEPT ![p] = Idle],
           UNCHANGED <<log, flushed, mem, disk, told>>
    PROVE  IInv'
<1>1. \A n \in Name : flushed'[n] \in flushed[n]..Len(log[n])
    BY DEF IInv, TypeOK
<1> QED
    BY <1>1, IdleIsSafe, JobsInv DEF IInv, TypeOK

\* The parent cannot be synced, and the directory that was replaced is removed all
\* the same: a power loss may bring it back, but no file.
LEMMA FailLateInv ==
    ASSUME IInv, NEW p \in Proc, FailLate(p)
    PROVE  IInv'
<1> DEFINE n == job[p].name
           o == job[p].old
<1>1. CASE ~Leftover(p)
    BY <1>1, EndInv DEF FailLate, Done
<1>2. CASE Leftover(p)
  <2>1. /\ IsJob(job[p]) /\ SafeJob(job[p]) /\ job[p].pc = "settle" /\ n \in Dirs /\ SyncFails
    BY <1>2 DEF FailLate, Leftover, At, IInv, TypeOK, WriterSafe
  <2>2. n \in Name /\ o \in Object
    BY <2>1, Kinds DEF IsJob
  <2>3. PICK l \in 1..(Len(log[n]) - 1) : log[n][l] = o
    BY <2>1 DEF SafeJob
  <2>4. Len(log[n]) \in Nat /\ l \in 1..Len(log[n])
    BY <2>2, <2>3 DEF IInv, TypeOK
  <2>5. Placed(o)
    BY <2>2, <2>3, <2>4 DEF Placed
  <2>6. ASSUME NEW m \in Firm, NEW k \in flushed[m]..Len(log[m]) PROVE log[m][k] # o
    <3>1. m \in Name /\ m # n
      BY <2>1, AtomicAssumption, Kinds DEF Firm
    <3>2. k \in 1..Len(log[m])
      BY <3>1 DEF IInv, TypeOK
    <3> QED
      BY <2>2, <2>3, <2>4, <3>1, <3>2 DEF IInv, WriterSafe, Apart
  <2>7. /\ mem' = [mem EXCEPT ![o] = "part"]
        /\ disk' = [disk EXCEPT ![o] = "part"]
        /\ job' = [job EXCEPT ![p] = Idle]
        /\ UNCHANGED <<log, flushed, told>>
    BY <1>2 DEF FailLate, Done
  <2> QED
    BY <2>2, <2>5, <2>6, <2>7, RemoveInv
<1> QED
    BY <1>1, <1>2

LEMMA CrashInv ==
    ASSUME IInv, Crash
    PROVE  IInv'
<1>1. PICK kept \in [Name -> UNION {1..Len(log[n]) : n \in Name}] :
          /\ \A n \in Name : kept[n] \in flushed[n]..Len(log[n])
          /\ log' = [n \in Name |-> SubSeq(log[n], 1, kept[n])]
          /\ flushed' = kept
    BY DEF Crash
<1>2. PICK found \in [{i \in Object : disk[i] # mem[i]} -> Content] :
          /\ \A i \in DOMAIN found : found[i] \in {disk[i], "part", mem[i]}
          /\ mem' = [i \in Object |-> IF i \in DOMAIN found THEN found[i] ELSE mem[i]]
    BY DEF Crash
<1>3. disk' = mem' /\ job' = [p \in Proc |-> Idle] /\ told' = told
    BY DEF Crash
<1>4. \A n \in Name : /\ kept[n] \in Nat /\ Len(log[n]) \in Nat /\ flushed[n] \in Nat
                      /\ 1 <= flushed[n] /\ flushed[n] <= kept[n] /\ kept[n] <= Len(log[n])
  <2> TAKE n \in Name
  <2>1. kept[n] \in flushed[n]..Len(log[n])
    BY <1>1
  <2>2. flushed[n] \in 1..Len(log[n]) /\ log[n] \in Seq(Object)
    BY DEF IInv, TypeOK
  <2> QED
    BY <2>1, <2>2
<1>5. \A n \in Name : /\ log'[n] \in Seq(Object) /\ Len(log'[n]) = kept[n]
                      /\ \A k \in 1..kept[n] : k \in 1..Len(log[n]) /\ log'[n][k] = log[n][k]
  <2> TAKE n \in Name
  <2>1. log[n] \in Seq(Object) /\ log'[n] = SubSeq(log[n], 1, kept[n])
    BY <1>1 DEF IInv, TypeOK
  <2>2. kept[n] \in Nat /\ kept[n] <= Len(log[n])
    BY <1>4
  <2>3. log'[n] \in Seq(Object) /\ Len(log'[n]) = kept[n]
    BY <2>1, <2>2
  <2>4. \A k \in 1..kept[n] : k \in 1..Len(log[n]) /\ log'[n][k] = log[n][k]
    BY <2>1, <2>2
  <2> QED
    BY <2>3, <2>4
<1>6. \A i \in Object : mem'[i] = IF disk[i] # mem[i] THEN found[i] ELSE mem[i]
    BY <1>2
<1>7. TypeOK'
  <2>1. log' \in [Name -> Seq(Object)]
    BY <1>1, <1>5
  <2>2. flushed' \in [Name -> Nat] /\ \A n \in Name : flushed'[n] \in 1..Len(log'[n])
    BY <1>1, <1>4, <1>5
  <2>3. mem' \in [Object -> Content]
    BY <1>2 DEF IInv, TypeOK
  <2>4. job' = [p \in Proc |-> job'[p]] /\ \A p \in Proc : IsJob(job'[p])
    BY <1>3, IdleIsSafe
  <2> QED
    BY <1>3, <2>1, <2>2, <2>3, <2>4 DEF IInv, TypeOK, IsJob
<1>8. FirmWhole'
  <2> SUFFICES ASSUME NEW n \in Firm, NEW k, k \in (flushed[n]..Len(log[n]))'
               PROVE  Kept(log[n][k])'
    BY DEF FirmWhole
  <2>a. n \in Name
    BY Kinds
  <2>1. k = kept[n]
    BY <1>1, <1>4, <1>5, <2>a
  <2>2. k \in flushed[n]..Len(log[n]) /\ log'[n][k] = log[n][k] /\ log[n][k] \in Object
    <3>1. k \in flushed[n]..Len(log[n]) /\ k \in 1..kept[n]
      BY <1>4, <2>a, <2>1
    <3>2. log[n][k] \in Object
      BY <2>a, <3>1 DEF IInv, TypeOK
    <3> QED
      BY <1>5, <2>a, <3>1, <3>2
  <2>3. Kept(log[n][k])
    BY <2>2 DEF IInv, FirmWhole
  <2> QED
    BY <1>3, <1>6, <2>2, <2>3 DEF Kept
<1>9. WriterSafe'
  <2>1. \A p \in Proc : SafeJob(job[p])' /\ job'[p].pc \notin Staging
    BY <1>3, IdleIsSafe
  <2>2. Apart'
    <3> SUFFICES ASSUME NEW m \in Name, NEW n \in Name, NEW k \in 1..Len(log'[m]),
                        NEW l \in 1..Len(log'[n]), log'[m][k] = log'[n][l]
                 PROVE  m = n /\ k = l
      BY DEF Apart
    <3>1. /\ k \in 1..Len(log[m]) /\ log'[m][k] = log[m][k]
          /\ l \in 1..Len(log[n]) /\ log'[n][l] = log[n][l]
      BY <1>5
    <3>2. log[m][k] = log[n][l]
      BY <3>1
    <3>3. \A a, b \in Name : \A c \in 1..Len(log[a]), d \in 1..Len(log[b]) :
              log[a][c] = log[b][d] => a = b /\ c = d
      BY DEF IInv, WriterSafe, Apart
    <3>4. k \in 1..Len(log[m]) /\ l \in 1..Len(log[n])
      BY <3>1
    <3> QED
      BY <3>2, <3>3, <3>4
  <2>3. \A i \in Object : Placed(i)' => Used(i)'
    <3> SUFFICES ASSUME NEW i \in Object, Placed(i)' PROVE Used(i)'
      OBVIOUS
    <3>1. Placed(i)
      <4>1. PICK n \in Name : \E k \in 1..Len(log'[n]) : log'[n][k] = i
        BY DEF Placed
      <4>2. \E k \in 1..Len(log[n]) : log[n][k] = i
        BY <1>5, <4>1
      <4> QED
        BY <4>2 DEF Placed
    <3>2. mem[i] # "unused" /\ disk[i] # "unused"
      BY <3>1 DEF IInv, WriterSafe, Used
    <3>3. disk[i] # mem[i] => found[i] \in {disk[i], "part", mem[i]}
      BY <1>2
    <3> QED
      BY <1>3, <1>6, <3>2, <3>3 DEF Used
  <2> QED
    BY <2>1, <2>2, <2>3 DEF WriterSafe
<1> QED
    BY <1>7, <1>8, <1>9 DEF IInv
-----------------------------------------------------------------------------
(* The theorems *)

LEMMA NextInv ==
    ASSUME IInv, [Next]_vars
    PROVE  IInv'
<1>1. CASE UNCHANGED vars
  BY <1>1 DEF vars, IInv, TypeOK, IsJob, FirmWhole, Kept, WriterSafe, SafeJob, Apart, Placed, Used
<1>2. ASSUME NEW p \in Proc, Kill(p) PROVE IInv'
  BY <1>2, EndInv DEF Kill, Done
<1> QED
  BY <1>1, <1>2, CreateInv, FillInv, SyncInv, MoveInv, SettleInv, CleanInv, FailInv, FailLateInv,
     CrashInv DEF Next

LEMMA Inv == Spec => []IInv
<1>1. Init => IInv
    BY InitInv
<1>2. IInv /\ [Next]_vars => IInv'
    BY NextInv
<1> QED
    BY <1>1, <1>2, PTL DEF Spec

\* Whatever writers do, and wherever they or the power fail, a name refers to
\* something whole: half a file is never found in its place.
THEOREM NamesStayWhole == ~SyncFails => (Spec => []AlwaysWhole)
<1> SUFFICES ASSUME ~SyncFails PROVE Spec => []AlwaysWhole
    OBVIOUS
<1>1. IInv => AlwaysWhole
    BY Kinds DEF IInv, FirmWhole, AlwaysWhole
<1> QED
    BY <1>1, Inv, PTL

\* Writers that take no lock do not meet in one temporary file, and what a writer
\* removes after it was told that all went well no power loss brings back, even
\* if parents cannot be synced.
THEOREM WritersStaySafe == Spec => []WriterSafe
    BY Inv, PTL DEF IInv
-----------------------------------------------------------------------------
(* Refinement: a step of atomic.rs is one of AtomicNames, or none *)

\* The mapping, by name: values that would be found are those there are.
LEMMA ValuesAreLog ==
    ASSUME IInv, NEW n \in Firm
    PROVE  Values(n) = log[n] /\ log[n] \in Seq(Object)
<1>1. log[n] \in Seq(Object) /\ flushed[n] \in 1..Len(log[n])
    BY Kinds DEF IInv, TypeOK
<1>2. \A k \in flushed[n]..Len(log[n]) : Found(log[n][k]) = log[n][k]
    BY DEF IInv, FirmWhole, Found
<1>3. \A k \in 1..Len(log[n]) : (IF k < flushed[n] THEN log[n][k] ELSE Found(log[n][k])) = log[n][k]
    BY <1>1, <1>2
<1>4. Values(n) = [k \in 1..Len(log[n]) |-> log[n][k]]
    BY <1>3 DEF Values
<1> QED
    BY <1>1, <1>4

Same(n) == log'[n] = log[n] /\ flushed'[n] = flushed[n] /\ told'[n] = told[n]
Installed(n) == /\ \E v \in Inode : log'[n] = Append(log[n], v)
                /\ flushed'[n] = flushed[n] /\ told'[n] = told[n]
Settled(n) ==
    /\ log'[n] = log[n]
    /\ flushed'[n] \in flushed[n]..Len(log[n])
    /\ \E i \in 1..flushed'[n] : told'[n] = told[n] \cup {log[n][i]}
Lost(n) ==
    /\ flushed'[n] \in flushed[n]..Len(log[n])
    /\ log'[n] = SubSeq(log[n], 1, flushed'[n])
    /\ told'[n] = told[n]

\* What a step does to each name.
LEMMA StepOfNames ==
    ASSUME IInv, [Next]_vars
    PROVE  \/ \A n \in Name : Same(n)
           \/ \E m \in Name : /\ (Installed(m) \/ Settled(m))
                               /\ \A n \in Name \ {m} : Same(n)
           \/ \A n \in Name : Lost(n)
<1>1. CASE UNCHANGED <<log, flushed, told>>
    BY <1>1 DEF Same
<1>2. ASSUME NEW p \in Proc, Move(p)
      PROVE  \E m \in Name : Installed(m) /\ \A n \in Name \ {m} : Same(n)
  <2>1. job[p].name \in Name /\ job[p].new \in Inode
    BY <1>2 DEF Move, At, IInv, TypeOK, IsJob
  <2>2. log' = [log EXCEPT ![job[p].name] = Append(@, job[p].new)] /\ flushed' = flushed /\ told' = told
    BY <1>2 DEF Move
  <2>3. Installed(job[p].name)
    BY <2>1, <2>2 DEF Installed, IInv, TypeOK
  <2>4. \A n \in Name \ {job[p].name} : Same(n)
    BY <2>1, <2>2 DEF Same, IInv, TypeOK
  <2> QED
    BY <2>1, <2>3, <2>4
<1>3. ASSUME NEW p \in Proc, Settle(p)
      PROVE  \E m \in Name : Settled(m) /\ \A n \in Name \ {m} : Same(n)
  <2> DEFINE m == job[p].name
  <2>1. m \in Name /\ job[p].new \in Inode /\ SafeJob(job[p]) /\ job[p].pc = "settle"
    BY <1>3 DEF Settle, At, IInv, TypeOK, IsJob, WriterSafe
  <2>2. /\ log' = log
        /\ flushed' = [flushed EXCEPT ![m] = Len(log[m])]
        /\ told' = [told EXCEPT ![m] = @ \cup {job[p].new}]
    BY <1>3 DEF Settle
  <2>3. flushed'[m] = Len(log[m]) /\ told'[m] = told[m] \cup {job[p].new}
    BY <2>1, <2>2 DEF IInv, TypeOK
  <2>4. flushed[m] \in 1..Len(log[m])
    BY <2>1 DEF IInv, TypeOK
  <2>5. PICK k \in 1..Len(log[m]) : log[m][k] = job[p].new
    BY <2>1 DEF SafeJob
  <2>6. Settled(m)
    BY <2>2, <2>3, <2>4, <2>5 DEF Settled
  <2>7. \A n \in Name \ {m} : Same(n)
    BY <2>1, <2>2 DEF Same, IInv, TypeOK
  <2> QED
    BY <2>1, <2>6, <2>7
<1>4. ASSUME Crash PROVE \A n \in Name : Lost(n)
  <2>1. PICK kept \in [Name -> UNION {1..Len(log[n]) : n \in Name}] :
            /\ \A n \in Name : kept[n] \in flushed[n]..Len(log[n])
            /\ log' = [n \in Name |-> SubSeq(log[n], 1, kept[n])]
            /\ flushed' = kept
    BY <1>4 DEF Crash
  <2>2. told' = told
    BY <1>4 DEF Crash
  <2> QED
    BY <2>1, <2>2 DEF Lost
<1> QED
    BY <1>1, <1>2, <1>3, <1>4
       DEF Next, vars, Create, Fill, Sync, Clean, Fail, FailLate, Kill

LEMMA ValuesNow == IInv => \A n \in Firm : Values(n) = log[n]
    BY ValuesAreLog

LEMMA ValuesThen == IInv' => \A n \in Firm : Values(n)' = log'[n]
<1>1. IInv => \A n \in Firm : Values(n) = log[n]
    BY ValuesAreLog
<1>2. (IInv => \A n \in Firm : Values(n) = log[n])'
    BY <1>1, PTL
<1> QED
    BY <1>2

\* Files: `write' implements AtomicNames.
LEMMA FileStep ==
    ASSUME IInv, IInv', [Next]_vars
    PROVE  [File!Next]_(File!vars)
<1> DEFINE h == [n \in Files |-> Values(n)]
           b == [n \in Files |-> flushed[n]]
           t == [n \in Files |-> told[n]]
<1>1. \A n \in Files : n \in Name /\ n \in Firm
    BY Kinds
<1>2. /\ h = [n \in Files |-> log[n]] /\ h' = [n \in Files |-> log'[n]]
      /\ b' = [n \in Files |-> flushed'[n]] /\ t' = [n \in Files |-> told'[n]]
    BY <1>1, ValuesNow, ValuesThen
<1>3. CASE \A n \in Files : Same(n)
    BY <1>2, <1>3 DEF Same, File!vars
<1>4. ASSUME NEW m \in Files, Installed(m), \A n \in Files \ {m} : Same(n)
      PROVE  File!Install(m)
  <2>1. PICK v \in Inode : log'[m] = Append(log[m], v)
    BY <1>4 DEF Installed
  <2>2. h' = [h EXCEPT ![m] = Append(@, v)]
    BY <1>2, <1>4, <2>1 DEF Same
  <2>3. b' = b /\ t' = t
    BY <1>2, <1>4 DEF Same, Installed
  <2> QED
    BY <2>2, <2>3 DEF File!Install
<1>5. ASSUME NEW m \in Files, Settled(m), \A n \in Files \ {m} : Same(n)
      PROVE  File!Settle(m)
  <2>1. h' = h
    BY <1>2, <1>4, <1>5 DEF Same, Settled
  <2>2. b' = [b EXCEPT ![m] = flushed'[m]] /\ flushed'[m] \in b[m]..Len(h[m]) /\ b'[m] = flushed'[m]
    BY <1>2, <1>5 DEF Same, Settled
  <2>3. PICK i \in 1..flushed'[m] : told'[m] = told[m] \cup {log[m][i]}
    BY <1>5 DEF Settled
  <2>4. t' = [t EXCEPT ![m] = @ \cup {h[m][i]}]
    BY <1>2, <1>5, <2>3 DEF Same
  <2> QED
    BY <2>1, <2>2, <2>3, <2>4 DEF File!Settle
<1>6. ASSUME \A n \in Files : Lost(n)
      PROVE  File!Lose
  <2>1. b' = [n \in Files |-> b'[n]]
    BY <1>2
  <2>2. \A n \in Files : b'[n] \in b[n]..Len(h[n])
    BY <1>2, <1>6 DEF Lost
  <2>3. h' = [n \in Files |-> SubSeq(h[n], 1, b'[n])] /\ t' = t
    BY <1>2, <1>6 DEF Lost
  <2> QED
    BY <2>1, <2>2, <2>3 DEF File!Lose
<1>7. CASE \A n \in Name : Same(n)
    BY <1>1, <1>3, <1>7
<1>8. CASE \A n \in Name : Lost(n)
    BY <1>1, <1>6, <1>8 DEF File!Next
<1>9. ASSUME NEW m \in Name, Installed(m) \/ Settled(m), \A n \in Name \ {m} : Same(n)
      PROVE  [File!Next]_(File!vars)
  <2>1. CASE m \in Files
    BY <1>1, <1>4, <1>5, <1>9, <2>1 DEF File!Next
  <2>2. CASE m \notin Files
    BY <1>1, <1>3, <1>9, <2>2
  <2> QED
    BY <2>1, <2>2
<1> QED
    BY <1>7, <1>8, <1>9, StepOfNames

LEMMA FileInit == Init => File!Init
<1> SUFFICES ASSUME Init PROVE File!Init
    OBVIOUS
<1>1. \A n \in Files : n \in Name /\ Values(n) = <<n>> /\ flushed[n] = 1 /\ told[n] = {}
    BY InitInv, ValuesNow, Kinds DEF Init
<1> QED
    BY <1>1 DEF File!Init

\* Directories: so does replace_dir with its callers.
LEMMA DirStep ==
    ASSUME ~SyncFails, IInv, IInv', [Next]_vars
    PROVE  [Dir!Next]_(Dir!vars)
<1> DEFINE h == [n \in Dirs |-> Values(n)]
           b == [n \in Dirs |-> flushed[n]]
           t == [n \in Dirs |-> told[n]]
<1>1. \A n \in Dirs : n \in Name /\ n \in Firm
    BY Kinds
<1>2. /\ h = [n \in Dirs |-> log[n]] /\ h' = [n \in Dirs |-> log'[n]]
      /\ b' = [n \in Dirs |-> flushed'[n]] /\ t' = [n \in Dirs |-> told'[n]]
    BY <1>1, ValuesNow, ValuesThen
<1>3. CASE \A n \in Dirs : Same(n)
    BY <1>2, <1>3 DEF Same, Dir!vars
<1>4. ASSUME NEW m \in Dirs, Installed(m), \A n \in Dirs \ {m} : Same(n)
      PROVE  Dir!Install(m)
  <2>1. PICK v \in Inode : log'[m] = Append(log[m], v)
    BY <1>4 DEF Installed
  <2>2. h' = [h EXCEPT ![m] = Append(@, v)]
    BY <1>2, <1>4, <2>1 DEF Same
  <2>3. b' = b /\ t' = t
    BY <1>2, <1>4 DEF Same, Installed
  <2> QED
    BY <2>2, <2>3 DEF Dir!Install
<1>5. ASSUME NEW m \in Dirs, Settled(m), \A n \in Dirs \ {m} : Same(n)
      PROVE  Dir!Settle(m)
  <2>1. h' = h
    BY <1>2, <1>4, <1>5 DEF Same, Settled
  <2>2. b' = [b EXCEPT ![m] = flushed'[m]] /\ flushed'[m] \in b[m]..Len(h[m]) /\ b'[m] = flushed'[m]
    BY <1>2, <1>5 DEF Same, Settled
  <2>3. PICK i \in 1..flushed'[m] : told'[m] = told[m] \cup {log[m][i]}
    BY <1>5 DEF Settled
  <2>4. t' = [t EXCEPT ![m] = @ \cup {h[m][i]}]
    BY <1>2, <1>5, <2>3 DEF Same
  <2> QED
    BY <2>1, <2>2, <2>3, <2>4 DEF Dir!Settle
<1>6. ASSUME \A n \in Dirs : Lost(n)
      PROVE  Dir!Lose
  <2>1. b' = [n \in Dirs |-> b'[n]]
    BY <1>2
  <2>2. \A n \in Dirs : b'[n] \in b[n]..Len(h[n])
    BY <1>2, <1>6 DEF Lost
  <2>3. h' = [n \in Dirs |-> SubSeq(h[n], 1, b'[n])] /\ t' = t
    BY <1>2, <1>6 DEF Lost
  <2> QED
    BY <2>1, <2>2, <2>3 DEF Dir!Lose
<1>7. CASE \A n \in Name : Same(n)
    BY <1>1, <1>3, <1>7
<1>8. CASE \A n \in Name : Lost(n)
    BY <1>1, <1>6, <1>8 DEF Dir!Next
<1>9. ASSUME NEW m \in Name, Installed(m) \/ Settled(m), \A n \in Name \ {m} : Same(n)
      PROVE  [Dir!Next]_(Dir!vars)
  <2>1. CASE m \in Dirs
    BY <1>1, <1>4, <1>5, <1>9, <2>1 DEF Dir!Next
  <2>2. CASE m \notin Dirs
    BY <1>1, <1>3, <1>9, <2>2
  <2> QED
    BY <2>1, <2>2
<1> QED
    BY <1>7, <1>8, <1>9, StepOfNames

LEMMA DirInit == ASSUME ~SyncFails PROVE Init => Dir!Init
<1> SUFFICES ASSUME Init PROVE Dir!Init
    OBVIOUS
<1>1. \A n \in Dirs : n \in Name /\ Values(n) = <<n>> /\ flushed[n] = 1 /\ told[n] = {}
    BY InitInv, ValuesNow, Kinds DEF Init
<1> QED
    BY <1>1 DEF Dir!Init

\* write (atomic.rs:94) implements files that change in one step: for every number
\* of files and writers, whatever fails, dies or loses power, parents that cannot
\* be synced among it.
THEOREM FilesAreAtomic == Spec => FileIsAtomic
<1>1. IInv /\ IInv' /\ [Next]_vars => [File!Next]_(File!vars)
    BY FileStep
<1>2. Init => File!Init
    BY FileInit
<1> QED
    BY <1>1, <1>2, Inv, PTL DEF Spec, FileIsAtomic, File!Spec

\* replace_dir (atomic.rs:55) with its callers implements directories that change
\* in one step, if syncing the parent does not fail after the exchange.
THEOREM DirsAreAtomic == ~SyncFails => (Spec => DirIsAtomic)
<1> SUFFICES ASSUME ~SyncFails PROVE Spec => DirIsAtomic
    OBVIOUS
<1>1. IInv /\ IInv' /\ [Next]_vars => [Dir!Next]_(Dir!vars)
    BY DirStep
<1>2. Init => Dir!Init
    BY DirInit
<1> QED
    BY <1>1, <1>2, Inv, PTL DEF Spec, DirIsAtomic, Dir!Spec

LEMMA DoneStep ==
    ASSUME IInv, DoneIsKept, [Next]_vars
    PROVE  DoneIsKept'
<1> SUFFICES ASSUME NEW n \in Name, NEW i \in told'[n]
             PROVE  \E k \in 1..flushed'[n] : log'[n][k] = i
    BY DEF DoneIsKept
<1>1. flushed[n] \in 1..Len(log[n]) /\ log[n] \in Seq(Object)
    BY DEF IInv, TypeOK
<1>2. i \in told[n] => \E k \in 1..flushed[n] : log[n][k] = i
    BY DEF DoneIsKept
<1>3. CASE Same(n)
    BY <1>2, <1>3 DEF Same
<1>4. CASE Installed(n)
  <2>1. PICK v \in Inode : log'[n] = Append(log[n], v)
    BY <1>4 DEF Installed
  <2>2. \A k \in 1..flushed[n] : log'[n][k] = log[n][k]
    BY <1>1, <2>1, Kinds
  <2> QED
    BY <1>2, <1>4, <2>2 DEF Installed
<1>5. CASE Settled(n)
  <2>1. PICK l \in 1..flushed'[n] : told'[n] = told[n] \cup {log[n][l]}
    BY <1>5 DEF Settled
  <2>2. \A k \in 1..flushed[n] : k \in 1..flushed'[n]
    BY <1>1, <1>5 DEF Settled
  <2> QED
    BY <1>2, <1>5, <2>1, <2>2 DEF Settled
<1>6. CASE Lost(n)
  <2>1. \A k \in 1..flushed[n] : k \in 1..flushed'[n] /\ log'[n][k] = log[n][k]
    BY <1>1, <1>6 DEF Lost
  <2> QED
    BY <1>2, <1>6, <2>1 DEF Lost
<1> QED
    BY <1>3, <1>4, <1>5, <1>6, StepOfNames

\* No power loss takes back what a writer was told is done (sync_parent).
THEOREM WhatIsDoneIsKept == Spec => []DoneIsKept
<1>1. Init => DoneIsKept
    BY DEF Init, DoneIsKept
<1>2. IInv /\ DoneIsKept /\ [Next]_vars => DoneIsKept'
    BY DoneStep
<1> QED
    BY <1>1, <1>2, Inv, PTL DEF Spec
=============================================================================
