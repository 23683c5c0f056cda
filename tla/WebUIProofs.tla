----------------------------- MODULE WebUIProofs -----------------------------
(***************************************************************************)
(* Theorems about WebUI, checked by TLAPS: drafts are kept, and what the   *)
(* page shows is what was read, for any set of configurations.             *)
(***************************************************************************)
EXTENDS WebUI, TLAPS

\* The inductive invariant.
IInv == TypeOK /\ DraftKept /\ Believed /\ Consistent

LEMMA InitInv == Init => IInv
<1> SUFFICES ASSUME Init PROVE IInv
    OBVIOUS
<1>1. NoStatus \in Seen /\ IsCommand(NoCommand)
    BY DEF NoStatus, Seen, Phases, NoCommand, IsCommand
<1>2. TypeOK
    BY <1>1 DEF Init, TypeOK, NoReport, Phases, Closed, Kinds, NoCommand, Draft
<1> QED
    BY <1>2 DEF Init, IInv, DraftKept, Believed, Consistent, Closed

\* What a probe reads of the status has the type of what the page shows.
LEMMA StatusType == TypeOK => Status \in Seen
    BY DEF TypeOK, Status, Seen, Phases

LEMMA NoCommandType == IsCommand(NoCommand) /\ NoCommand.kind = "none" /\ NoCommand.answer = "none"
    BY DEF NoStatus, Seen, Phases, NoCommand, IsCommand

\* A command that has just been sent.
LEMMA CommandType ==
    ASSUME NEW kind \in Kinds, NEW arg \in Draft \cup {None}
    PROVE  /\ IsCommand(Command(kind, arg))
           /\ Command(kind, arg).kind = kind /\ Command(kind, arg).arg = arg
           /\ Command(kind, arg).answer = "none" /\ Command(kind, arg).config = None
    BY NoCommandType DEF Command, IsCommand, NoCommand, Kinds

\* A new probe may start from any state of the page when nothing typed is left:
\* nothing is believed until it answers.
LEMMA LoadInv ==
    ASSUME IInv, NEW p, Load(p),
           p \in [pc : Kinds \cup {"closed", "idle", "restarting"}, ready : BOOLEAN,
                  draft : Draft \cup {None}, saved : Config \cup {None}, seen : Seen],
           UNCHANGED <<file, report, since, late>>,
           typed' = None
    PROVE  IInv'
<1>1. page' = [p EXCEPT !.pc = "probe", !.ready = FALSE] /\ mine' = Command("probe", None)
    BY DEF Load
<1>2. "probe" \in Kinds
    BY DEF Kinds
<1>3. /\ page'.pc = "probe" /\ page'.ready = FALSE /\ page'.draft = p.draft
      /\ page' \in [pc : Kinds \cup {"closed", "idle", "restarting"}, ready : BOOLEAN,
                    draft : Draft \cup {None}, saved : Config \cup {None}, seen : Seen]
    BY <1>1, <1>2
<1>4. /\ IsCommand(mine') /\ mine'.kind = "probe" /\ mine'.config = None /\ mine'.answer = "none"
    BY <1>1, <1>2, CommandType
<1>5. TypeOK'
    BY <1>2, <1>3, <1>4 DEF IInv, TypeOK, IsCommand
<1> QED
    BY <1>3, <1>4, <1>5 DEF IInv, DraftKept, Believed, Consistent
-----------------------------------------------------------------------------
(* The user *)

LEMMA CloseInv == IInv /\ (Close \/ Restart) => IInv'
<1> SUFFICES ASSUME IInv, Close \/ Restart PROVE IInv'
    OBVIOUS
<1>1. page' = Closed /\ mine' = NoCommand /\ typed' = None /\ file' = file /\ since' = since
    BY DEF Close, Restart
<1>2. \A m \in late' : IsCommand(m)
    BY DEF Close, Restart, GiveUp, IInv, TypeOK
<1>3. report' \in [current : BOOLEAN, phase : Phases, config : Config \cup {None}]
  <2>1. CASE Close
    BY <2>1 DEF Close, IInv, TypeOK
  <2>2. CASE Restart
    <3> DEFINE Reports == [current : BOOLEAN, phase : Phases, config : Config \cup {None}]
    <3>1. [report EXCEPT !.current = FALSE] \in Reports
      BY DEF IInv, TypeOK
    <3>2. \A ph \in {"preparing", "failed"} : [current |-> TRUE, phase |-> ph, config |-> None] \in Reports
      BY DEF Phases
    <3>3. \A c \in {file} \ {Bad} : [current |-> TRUE, phase |-> "applied", config |-> c] \in Reports
      BY DEF IInv, TypeOK, Phases
    <3> HIDE DEF Reports
    <3>4. report' \in Reports
      BY <2>2, <3>1, <3>2, <3>3, Zenon DEF Restart
    <3> QED
      BY <3>4 DEF Reports
  <2> QED
    BY <2>1, <2>2
<1>4. Closed \in [pc : Kinds \cup {"closed", "idle", "restarting"}, ready : BOOLEAN,
                  draft : Draft \cup {None}, saved : Config \cup {None}, seen : Seen]
    BY DEF Closed, NoStatus, Seen, Phases
<1>5. TypeOK'
    BY <1>1, <1>2, <1>3, <1>4, NoCommandType DEF IInv, TypeOK, IsCommand, Closed, Kinds
<1> QED
    BY <1>1, <1>5 DEF IInv, DraftKept, Believed, Consistent, Closed

LEMMA EditInv ==
    ASSUME IInv, NEW d \in Draft, Edit(d)
    PROVE  IInv'
<1>1. page' = [page EXCEPT !.draft = d] /\ typed' = IF d = page.saved THEN None ELSE d
    BY DEF Edit
<1>2. page.pc = "idle" /\ UNCHANGED <<file, report, mine, late, since>>
    BY DEF Edit, Free
<1>3. TypeOK'
    BY <1>1, <1>2 DEF IInv, TypeOK, IsCommand
<1>4. /\ page'.pc = "idle" /\ page'.ready = page.ready /\ page'.draft = d
      /\ page'.saved = page.saved /\ page'.seen = page.seen
    BY <1>1, <1>2 DEF IInv, TypeOK
<1>5. typed' # None => typed' = d /\ Dirty'
    BY <1>1, <1>4 DEF Dirty
<1>6. Status' = Status
    BY <1>2 DEF Status
<1> QED
    BY <1>2, <1>3, <1>4, <1>5, <1>6 DEF IInv, DraftKept, Believed, Consistent

LEMMA AskInv ==
    ASSUME IInv, NEW kind \in {"save", "network", "reboot"}, NEW arg \in Draft \cup {None},
           Ask(kind, arg), IF kind = "save" THEN Dirty /\ arg = page.draft ELSE ~Dirty
    PROVE  IInv'
<1>1. page' = [page EXCEPT !.pc = kind] /\ mine' = Command(kind, arg)
    BY DEF Ask
<1>2. page.pc = "idle" /\ page.ready /\ UNCHANGED <<file, report, late, since, typed>>
    BY DEF Ask, Free
<1>3. kind \in Kinds /\ kind # "probe"
    BY DEF Kinds
<1>4. /\ IsCommand(mine') /\ mine'.kind = kind /\ mine'.arg = arg /\ mine'.answer = "none"
    BY <1>1, <1>3, CommandType
<1>5. /\ page'.pc = kind /\ page'.ready = page.ready /\ page'.draft = page.draft
      /\ page'.saved = page.saved /\ page'.seen = page.seen
      /\ page' \in [pc : Kinds \cup {"closed", "idle", "restarting"}, ready : BOOLEAN,
                    draft : Draft \cup {None}, saved : Config \cup {None}, seen : Seen]
    BY <1>1, <1>3 DEF IInv, TypeOK
<1>6. TypeOK'
    BY <1>2, <1>3, <1>4, <1>5 DEF IInv, TypeOK, IsCommand
<1> QED
    BY <1>2, <1>3, <1>4, <1>5, <1>6 DEF IInv, DraftKept, Believed, Consistent, Status, Dirty
-----------------------------------------------------------------------------
(* Root, and the world *)

LEMMA ReadConfigInv == IInv /\ ReadConfig => IInv'
<1> SUFFICES ASSUME IInv, ReadConfig PROVE IInv'
    OBVIOUS
<1>1. /\ mine.kind = "probe" /\ mine.answer = "none"
      /\ mine' = [mine EXCEPT !.config = file] /\ since' = {}
      /\ UNCHANGED <<file, report, page, late, typed>>
    BY DEF ReadConfig, Running
<1>2. page.pc = "probe" /\ ~page.ready
    BY <1>1 DEF IInv, TypeOK, Consistent
<1>3. TypeOK'
    BY <1>1 DEF IInv, TypeOK, IsCommand
<1> QED
    BY <1>1, <1>2, <1>3 DEF IInv, TypeOK, IsCommand, DraftKept, Believed, Consistent

LEMMA ReadStatusInv == IInv /\ ReadStatus => IInv'
<1> SUFFICES ASSUME IInv, ReadStatus PROVE IInv'
    OBVIOUS
<1>1. /\ mine.kind = "probe" /\ mine.config # None
      /\ mine' = [mine EXCEPT !.status = Status, !.answer = IF mine.config = Bad THEN "error" ELSE "ok"]
      /\ UNCHANGED <<file, report, page, late, since, typed>>
    BY DEF ReadStatus, Running
<1>2. page.pc = "probe" /\ ~page.ready
    BY <1>1 DEF IInv, TypeOK, Consistent
<1>3. TypeOK'
    BY <1>1, StatusType DEF IInv, TypeOK, IsCommand
<1>4. Status' = Status
    BY <1>1 DEF Status
<1>5. mine'.config = mine.config /\ mine'.status = Status
      /\ mine'.answer = IF mine.config = Bad THEN "error" ELSE "ok"
    BY <1>1 DEF IInv, TypeOK, IsCommand
<1>6. mine.config # Bad => mine.config \in Config
    BY <1>1 DEF IInv, TypeOK, IsCommand
<1> QED
    BY <1>1, <1>2, <1>3, <1>4, <1>5, <1>6 DEF IInv, DraftKept, Believed, Consistent

LEMMA SaveConfigInv == IInv /\ SaveConfig => IInv'
<1> SUFFICES ASSUME IInv, SaveConfig PROVE IInv'
    OBVIOUS
<1>1. mine.kind = "save" /\ mine.answer = "none" /\ UNCHANGED <<report, page, late, since, typed>>
    BY DEF SaveConfig, Running
<1>2. page.pc = "save"
    BY <1>1 DEF IInv, TypeOK
<1>3. PICK a \in {"invalid", "ok", "error"} :
          /\ mine' = [mine EXCEPT !.answer = a]
          /\ \/ a = "invalid" /\ file' = file
             \/ a # "invalid" /\ mine.arg \in Config /\ file' = mine.arg
    BY DEF SaveConfig, Answer
<1>4. /\ mine'.arg = mine.arg /\ mine'.answer = a /\ mine'.kind = "save" /\ IsCommand(mine')
    BY <1>1, <1>3 DEF IInv, TypeOK, IsCommand
<1>5. TypeOK'
    BY <1>1, <1>3, <1>4 DEF IInv, TypeOK, IsCommand
<1> QED
    BY <1>1, <1>2, <1>3, <1>4, <1>5 DEF IInv, DraftKept, Believed, Consistent, Status, Dirty

LEMMA AnswerInv == IInv /\ (Obey \/ CommandFails) => IInv'
<1> SUFFICES ASSUME IInv, Obey \/ CommandFails PROVE IInv'
    OBVIOUS
<1>1. UNCHANGED <<file, report, page, late, since, typed>>
    BY DEF Obey, CommandFails
<1>2. PICK a \in {"ok", "error"} :
          mine' = [mine EXCEPT !.answer = a] /\ (a = "ok" => mine.kind \in {"network", "reboot"})
    BY DEF Obey, CommandFails, Answer, Running
<1>3. mine'.answer = a /\ mine'.kind = mine.kind /\ mine'.arg = mine.arg /\ mine'.config = mine.config
      /\ IsCommand(mine')
    BY <1>2 DEF IInv, TypeOK, IsCommand
<1>4. TypeOK'
    BY <1>1, <1>3 DEF IInv, TypeOK, IsCommand
<1>5. a = "ok" => page.pc \in {"network", "reboot"}
    BY <1>2 DEF IInv, TypeOK, Kinds
<1> QED
    BY <1>1, <1>2, <1>3, <1>4, <1>5 DEF IInv, DraftKept, Believed, Consistent, Status, Dirty

LEMMA WorldInv ==
    ASSUME IInv, UNCHANGED <<report, page, mine, typed>>,
           \A m \in late' : m \in late,
           \/ UNCHANGED <<file, since>>
           \/ file' \in Config \cup {Bad} /\ since' \in SUBSET {"late", "other"} /\ since' # {}
    PROVE  IInv'
<1>1. file' \in Config \cup {Bad} /\ since' \subseteq {"late", "other"}
    BY DEF IInv, TypeOK
<1>2. \A m \in late' : IsCommand(m)
    BY DEF IInv, TypeOK
<1>3. TypeOK'
    BY <1>1, <1>2 DEF IInv, TypeOK, IsCommand
<1> QED
    BY <1>3 DEF IInv, DraftKept, Believed, Consistent, Status, Dirty
-----------------------------------------------------------------------------
(* The page and the answers *)

LEMMA ProbeDoneInv == IInv /\ ProbeDone => IInv'
<1> SUFFICES ASSUME IInv, ProbeDone PROVE IInv'
    OBVIOUS
<1>1. /\ page.pc = "probe" /\ mine.answer = "ok" /\ mine' = NoCommand
      /\ page' = [page EXCEPT !.pc = "idle", !.ready = TRUE, !.seen = mine.status,
                              !.draft = mine.config, !.saved = mine.config]
      /\ UNCHANGED <<file, report, late, since, typed>>
    BY DEF ProbeDone, Answered
<1>2. mine.config \in Config /\ mine.status \in Seen
    BY <1>1 DEF IInv, Consistent, TypeOK, IsCommand
<1>3. /\ page'.pc = "idle" /\ page'.draft = mine.config /\ page'.saved = mine.config
      /\ page'.seen = mine.status
      /\ page' \in [pc : Kinds \cup {"closed", "idle", "restarting"}, ready : BOOLEAN,
                    draft : Draft \cup {None}, saved : Config \cup {None}, seen : Seen]
    BY <1>1, <1>2 DEF IInv, TypeOK, Draft
<1>4. TypeOK'
    BY <1>1, <1>3, NoCommandType DEF IInv, TypeOK, IsCommand, Kinds
<1>5. typed = None
    BY <1>1 DEF IInv, Consistent
<1> QED
    BY <1>1, <1>2, <1>3, <1>4, <1>5, WebUIAssumption DEF IInv, DraftKept, Believed, Consistent, Status

LEMMA SaveDoneInv == IInv /\ SaveDone => IInv'
<1> SUFFICES ASSUME IInv, SaveDone PROVE IInv'
    OBVIOUS
<1> DEFINE p == [page EXCEPT !.draft = mine.arg, !.saved = mine.arg]
<1>1. /\ page.pc = "save" /\ mine.answer = "ok" /\ Load(p)
      /\ typed' = IF typed = mine.arg THEN None ELSE typed
      /\ UNCHANGED <<file, report, late, since>>
    BY DEF SaveDone, Answered
<1>2. mine.arg = page.draft /\ mine.arg \in Config
    BY <1>1 DEF IInv, Consistent
<1>3. p \in [pc : Kinds \cup {"closed", "idle", "restarting"}, ready : BOOLEAN,
            draft : Draft \cup {None}, saved : Config \cup {None}, seen : Seen]
    BY <1>2 DEF IInv, TypeOK, Draft
<1>4. typed' = None
  <2>1. typed = None \/ typed = mine.arg
    BY <1>2 DEF IInv, DraftKept
  <2> QED
    BY <1>1, <2>1
<1> HIDE DEF p
<1> QED
    BY <1>1, <1>3, <1>4, LoadInv

\* The page is free again, without a new answer.
LEMMA FreeInv ==
    ASSUME IInv, NEW pc \in {"idle", "restarting"}, NEW r \in BOOLEAN,
           page' = [page EXCEPT !.pc = pc, !.ready = r], mine' = NoCommand,
           UNCHANGED <<file, report, since, typed>>, \A m \in late' : IsCommand(m),
           r => page.ready /\ (page.pc = "save" => mine.answer = "invalid")
    PROVE  IInv'
<1>1. /\ page'.pc = pc /\ page'.ready = r /\ page'.draft = page.draft
      /\ page'.saved = page.saved /\ page'.seen = page.seen
      /\ page' \in [pc : Kinds \cup {"closed", "idle", "restarting"}, ready : BOOLEAN,
                    draft : Draft \cup {None}, saved : Config \cup {None}, seen : Seen]
    BY DEF IInv, TypeOK
<1>2. TypeOK'
    BY <1>1, NoCommandType DEF IInv, TypeOK, IsCommand, Kinds
<1> QED
    BY <1>1, <1>2 DEF IInv, DraftKept, Believed, Consistent, Status, Dirty

LEMMA UnconfirmedInv ==
    ASSUME IInv, page.pc \in Kinds, Unconfirmed,
           UNCHANGED <<file, report, since, typed>>, \A m \in late' : IsCommand(m),
           page.pc = "network" => UNCHANGED late
    PROVE  IInv'
<1>1. CASE page.pc = "network"
  <2>1. Load(page) /\ typed' = None
    BY <1>1 DEF Unconfirmed, IInv, Consistent
  <2>2. page \in [pc : Kinds \cup {"closed", "idle", "restarting"}, ready : BOOLEAN,
                 draft : Draft \cup {None}, saved : Config \cup {None}, seen : Seen]
    BY DEF IInv, TypeOK
  <2> QED
    BY <1>1, <2>1, <2>2, LoadInv
<1>2. CASE page.pc # "network"
  <2> DEFINE r == IF page.pc = "save" THEN FALSE ELSE page.ready
  <2>1. /\ page' = [page EXCEPT !.pc = "idle", !.ready = r]
        /\ mine' = NoCommand
    BY <1>2 DEF Unconfirmed
  <2>2. r \in BOOLEAN /\ (r => page.ready /\ page.pc # "save")
    BY DEF IInv, TypeOK
  <2> HIDE DEF r
  <2> QED
    BY <2>1, <2>2, FreeInv
<1> QED
    BY <1>1, <1>2

LEMMA NextInv == IInv /\ [Next]_vars => IInv'
<1> SUFFICES ASSUME IInv, [Next]_vars PROVE IInv'
    OBVIOUS
<1>p. /\ page \in [pc : Kinds \cup {"closed", "idle", "restarting"}, ready : BOOLEAN,
                   draft : Draft \cup {None}, saved : Config \cup {None}, seen : Seen]
      /\ page.draft \in Draft \cup {None}
      /\ Closed \in [pc : Kinds \cup {"closed", "idle", "restarting"}, ready : BOOLEAN,
                     draft : Draft \cup {None}, saved : Config \cup {None}, seen : Seen]
    BY DEF IInv, TypeOK, Closed, NoStatus, Seen, Phases
<1>l. \A m \in late : IsCommand(m)
    BY DEF IInv, TypeOK
<1>g. GiveUp => \A m \in late' : IsCommand(m)
    BY DEF GiveUp, IInv, TypeOK
<1>t. ~Dirty => typed = None
    BY DEF IInv, Consistent
<1>1. CASE Open
  <2>1. typed' = None
    BY <1>1 DEF Open, IInv, Consistent
  <2> QED
    BY <1>1, <1>p, <2>1, LoadInv DEF Open
<1>2. CASE Close \/ Restart
    BY <1>2, CloseInv
<1>3. CASE Refresh
    BY <1>3, <1>p, <1>t, LoadInv DEF Refresh
<1>4. CASE Discard
    BY <1>4, <1>p, LoadInv DEF Discard
<1>5. CASE Save
    BY <1>5, <1>p, AskInv DEF Save
<1>6. CASE ChangeNetwork \/ Reboot
    BY <1>6, AskInv DEF ChangeNetwork, Reboot
<1>7. CASE \E d \in Draft : Edit(d)
    BY <1>7, EditInv
<1>8. CASE ReadConfig \/ ReadStatus \/ SaveConfig \/ Obey \/ CommandFails
    BY <1>8, ReadConfigInv, ReadStatusInv, SaveConfigInv, AnswerInv
<1>9. CASE ProbeDone \/ SaveDone
    BY <1>9, ProbeDoneInv, SaveDoneInv
<1>10. CASE SaveRefused
  <2>1. /\ page.pc = "save" /\ mine.answer = "invalid" /\ page.ready \in BOOLEAN
        /\ page' = [page EXCEPT !.pc = "idle", !.ready = page.ready] /\ mine' = NoCommand
        /\ UNCHANGED <<file, report, late, since, typed>>
    BY <1>10, <1>p DEF SaveRefused, Answered
  <2> QED
    BY <1>l, <2>1, FreeInv
<1>11. CASE NetworkDone
  <2>1. typed' = None
    BY <1>11 DEF NetworkDone, Answered, IInv, Consistent
  <2> QED
    BY <1>11, <1>p, <2>1, LoadInv DEF NetworkDone
<1>12. CASE RebootDone
  <2>1. /\ page.pc = "reboot" /\ page.ready \in BOOLEAN
        /\ page' = [page EXCEPT !.pc = "restarting", !.ready = page.ready] /\ mine' = NoCommand
        /\ UNCHANGED <<file, report, late, since, typed>>
    BY <1>12, <1>p DEF RebootDone, Answered
  <2> QED
    BY <1>l, <2>1, FreeInv
<1>13. CASE Failed
    BY <1>13, <1>l, UnconfirmedInv DEF Failed, Kinds
<1>14. CASE Timeout
  <2>1. page.pc = "network" => UNCHANGED late
    BY <1>14 DEF Timeout, GiveUp, IInv, TypeOK, Kinds
  <2> QED
    BY <1>14, <1>g, <2>1, UnconfirmedInv DEF Timeout, Kinds
<1>15. CASE \E m \in late : LateSave(m)
  <2>1. PICK m \in late : LateSave(m)
    BY <1>15
  <2>2. UNCHANGED <<report, page, mine, typed>> /\ \A n \in late' : n \in late
    BY <2>1 DEF LateSave
  <2>3. \/ UNCHANGED <<file, since>>
        \/ file' \in Config \cup {Bad} /\ since' \in SUBSET {"late", "other"} /\ since' # {}
    BY <2>1 DEF LateSave, IInv, TypeOK
  <2> QED
    BY <2>2, <2>3, WorldInv
<1>16. CASE \E c \in Config \cup {Bad} : OthersWrite(c)
  <2>1. since' \in SUBSET {"late", "other"} /\ since' # {}
    BY <1>16 DEF OthersWrite, IInv, TypeOK
  <2> QED
    BY <1>16, <2>1, WorldInv DEF OthersWrite
<1>17. CASE UNCHANGED vars
    BY <1>17, <1>l, WorldInv DEF vars
<1> QED
    BY <1>1, <1>2, <1>3, <1>4, <1>5, <1>6, <1>7, <1>8, <1>9, <1>10, <1>11, <1>12, <1>13, <1>14,
       <1>15, <1>16, <1>17 DEF Next
-----------------------------------------------------------------------------
LEMMA Inv == Spec => []IInv
    BY InitInv, NextInv, PTL DEF Spec

\* Every variable of WebUI keeps its kind of value.
THEOREM WebUITypeCorrect == Spec => []TypeOK
    BY Inv, PTL DEF IInv

\* Nothing the user typed is lost before it is saved or given up (controls,
\* save and loadAll of app.js).
THEOREM DraftsAreKept == Spec => []DraftKept
    BY Inv, PTL DEF IInv

\* An unconfirmed save leaves nothing on the page that could be wrong.
THEOREM PageShowsFile == Spec => []ReadyIsFile
<1>1. IInv => ReadyIsFile
    BY DEF IInv, Believed, ReadyIsFile
<1> QED
    BY <1>1, Inv, PTL

\* "Your saved settings are active" is said of this boot, and of the configuration
\* shown, only.
THEOREM ActiveIsTrue == Spec => []ClaimIsTrue
<1>1. IInv => ClaimIsTrue
  <2> SUFFICES ASSUME IInv, Claims, since = {}
               PROVE  /\ report.current /\ report.phase = "applied"
                      /\ report.config = page.saved /\ file = page.saved
    BY DEF ClaimIsTrue
  <2>1. page.pc # "save" /\ page.ready /\ page.saved \in Config
    BY DEF Claims, IInv, Consistent
  <2>2. page.saved = file /\ page.seen = Status
    BY <2>1 DEF IInv, Believed
  <2>3. report.current /\ report.phase = "applied" /\ Status.changed # "yes"
    BY <2>2 DEF Claims, Status
  <2>4. report.config = file
    BY <2>1, <2>2, <2>3, WebUIAssumption DEF Status
  <2> QED
    BY <2>2, <2>3, <2>4
<1> QED
    BY <1>1, Inv, PTL
=============================================================================
