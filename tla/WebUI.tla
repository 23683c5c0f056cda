-------------------------------- MODULE WebUI --------------------------------
(***************************************************************************)
(* The page of module/webroot/app.js and what it asks of root: probe.sh    *)
(* (read-config, then status), save-config, a network change, a restart.   *)
(*                                                                         *)
(* The page runs one root command at a time and gives up on it after 30    *)
(* seconds; the command goes on, and what it does happens later.  The      *)
(* configuration is written by others too.  A boot leaves a report, which  *)
(* the status sets against the configuration.                              *)
(***************************************************************************)

CONSTANTS
    Config,     \* the valid contents of carriers.json considered
    Bad,        \* a content of the file that is refused
    Refused,    \* a draft the validator of save-config refuses
    NoJson,     \* a draft that is not JSON, or not of the expected shape
    None        \* nothing: read, typed or run

ASSUME WebUIAssumption ==
    \A c \in Config : c \notin {Bad, Refused, NoJson, None}

Draft == Config \cup {Refused, NoJson}

VARIABLES
    file,       \* carriers.json
    report,     \* status.json: of this boot?, its phase, the configuration it applied
    page,       \* the page: what it waits for, whether what it shows is current,
                \* its draft, the configuration and the status it has loaded
    mine,       \* the root command the page waits for
    late,       \* saves it has given up on and that have not ended
    since,      \* history: who wrote the file since a probe last read it
    typed       \* history: what the user typed and has not saved nor given up

vars == <<file, report, page, mine, late, since, typed>>

NoStatus == [current |-> FALSE, phase |-> "none", changed |-> "unknown"]
NoReport == [current |-> FALSE, phase |-> "none", config |-> None]
Closed == [pc |-> "closed", ready |-> FALSE, draft |-> None, saved |-> None, seen |-> NoStatus]

NoCommand == [kind |-> "none", arg |-> None, config |-> None, status |-> NoStatus, answer |-> "none"]
Command(kind, arg) == [NoCommand EXCEPT !.kind = kind, !.arg = arg]

Dirty == page.draft # page.saved
Free == page.pc = "idle"            \* not busy, and open

Init ==
    /\ file \in Config \cup {Bad}
    /\ report = NoReport
    /\ page = Closed
    /\ mine = NoCommand
    /\ late = {}
    /\ since = {}
    /\ typed = None
-----------------------------------------------------------------------------
(* What the user does on the page *)

\* A new state of the page with a new probe on its way (loadAll).
Load(p) ==
    /\ page' = [p EXCEPT !.pc = "probe", !.ready = FALSE]
    /\ mine' = Command("probe", None)

Open ==
    /\ page.pc = "closed"
    /\ Load(Closed)
    /\ UNCHANGED <<file, report, late, since, typed>>

\* The command the page no longer waits for goes on.  A save matters; a restart
\* that comes late is like any other, and a network change is Network's.
GiveUp == late' = late \cup {m \in {mine} : m.kind = "save" /\ m.answer = "none"}

Close ==
    /\ page.pc # "closed"
    /\ page' = Closed
    /\ GiveUp
    /\ mine' = NoCommand
    /\ typed' = None
    /\ UNCHANGED <<file, report, since>>

\* A fault: the fields stay enabled while a command runs.
EditAnytime(d) ==
    /\ page.ready
    /\ page.pc \in {"idle", "save"}
    /\ d # page.draft
    /\ page' = [page EXCEPT !.draft = d]
    /\ typed' = IF d = page.saved THEN None ELSE d
    /\ UNCHANGED <<file, report, mine, late, since>>

\* The text field or a switch.
Edit(d) ==
    /\ Free
    /\ page.ready
    /\ d # page.draft
    /\ page' = [page EXCEPT !.draft = d]
    /\ typed' = IF d = page.saved THEN None ELSE d
    /\ UNCHANGED <<file, report, mine, late, since>>

\* Refresh is refused while there is a draft.
Refresh ==
    /\ Free
    /\ ~Dirty
    /\ Load(page)
    /\ UNCHANGED <<file, report, late, since, typed>>

\* Discard, or the button of the banner after a save that was not confirmed.
Discard ==
    /\ Free
    /\ Dirty
    /\ Load(page)
    /\ typed' = None
    /\ UNCHANGED <<file, report, late, since>>

\* Runs a command and waits for it.
Ask(kind, arg) ==
    /\ Free
    /\ page.ready
    /\ page' = [page EXCEPT !.pc = kind]
    /\ mine' = Command(kind, arg)
    /\ UNCHANGED <<file, report, late, since, typed>>

Save == Dirty /\ page.draft # NoJson /\ Ask("save", page.draft)
ChangeNetwork == ~Dirty /\ Ask("network", None)
Reboot == ~Dirty /\ Ask("reboot", None)
-----------------------------------------------------------------------------
(* What root does *)

Answer(a) == mine' = [mine EXCEPT !.answer = a]
Running(kind) == mine.kind = kind /\ mine.answer = "none"

\* read-config; the probe goes on when it fails, but the page will not use it.
ReadConfig ==
    /\ Running("probe")
    /\ mine.config = None
    /\ mine' = [mine EXCEPT !.config = file]
    /\ since' = {}
    /\ UNCHANGED <<file, report, page, late, typed>>

\* A fault: the report of any boot counts.
StatusOfAnyBoot ==
    [current |-> report.phase # "none", phase |-> report.phase,
     changed |-> IF report.phase # "applied" \/ file = Bad THEN "unknown"
                 ELSE IF report.config = file THEN "no" ELSE "yes"]

\* status: the report, whether it is of this boot, and whether the configuration,
\* read again, is the one it applied.
Status ==
    [current |-> report.current, phase |-> report.phase,
     changed |-> IF report.phase # "applied" \/ file = Bad THEN "unknown"
                 ELSE IF report.config = file THEN "no" ELSE "yes"]

ReadStatus ==
    /\ Running("probe")
    /\ mine.config # None
    /\ mine' = [mine EXCEPT !.status = Status,
                            !.answer = IF mine.config = Bad THEN "error" ELSE "ok"]
    /\ UNCHANGED <<file, report, page, late, since, typed>>

\* save-config: an answer is printed only after the file was replaced.
SaveConfig ==
    /\ Running("save")
    /\ \/ Answer("invalid") /\ UNCHANGED file
       \/ /\ mine.arg \in Config
          /\ file' = mine.arg
          /\ Answer("ok") \/ Answer("error")
    /\ UNCHANGED <<report, page, late, since, typed>>

\* The network command, or the request to restart, has been carried out.
Obey ==
    /\ Running("network") \/ Running("reboot")
    /\ Answer("ok")
    /\ UNCHANGED <<file, report, page, late, since, typed>>

\* Any command fails: a part of the probe, the lock of the configuration, ...
CommandFails ==
    /\ mine.kind # "none" /\ mine.answer = "none"
    /\ Answer("error")
    /\ UNCHANGED <<file, report, page, late, since, typed>>
-----------------------------------------------------------------------------
(* What the page does with an answer *)

Answered(kind, a) == page.pc = kind /\ mine.answer = a

\* A fault: the outcome of read-config is not looked at.
ProbeDoneUnchecked ==
    /\ page.pc = "probe"
    /\ mine.config # None
    /\ mine.answer # "none"
    /\ page' = [page EXCEPT !.pc = "idle", !.ready = TRUE, !.seen = mine.status,
                            !.draft = mine.config, !.saved = mine.config]
    /\ mine' = NoCommand
    /\ UNCHANGED <<file, report, late, since, typed>>

ProbeDone ==
    /\ Answered("probe", "ok")
    /\ page' = [page EXCEPT !.pc = "idle", !.ready = TRUE, !.seen = mine.status,
                            !.draft = mine.config, !.saved = mine.config]
    /\ mine' = NoCommand
    /\ UNCHANGED <<file, report, late, since, typed>>

\* The answer holds what was saved; it takes the place of the draft.
SaveDone ==
    /\ Answered("save", "ok")
    /\ Load([page EXCEPT !.draft = mine.arg, !.saved = mine.arg])
    /\ typed' = IF typed = mine.arg THEN None ELSE typed
    /\ UNCHANGED <<file, report, late, since>>

\* The draft stays and can be corrected.
SaveRefused ==
    /\ Answered("save", "invalid")
    /\ page' = [page EXCEPT !.pc = "idle"]
    /\ mine' = NoCommand
    /\ UNCHANGED <<file, report, late, since, typed>>

NetworkDone ==
    /\ Answered("network", "ok")
    /\ Load(page)
    /\ UNCHANGED <<file, report, late, since, typed>>

\* The page stays busy until the phone goes down.
RebootDone ==
    /\ Answered("reboot", "ok")
    /\ page' = [page EXCEPT !.pc = "restarting"]
    /\ mine' = NoCommand
    /\ UNCHANGED <<file, report, late, since, typed>>

\* A fault: after a save that was not confirmed the page goes on as before.
UnconfirmedKeepsReady ==
    IF page.pc = "network" THEN Load(page)
    ELSE /\ page' = [page EXCEPT !.pc = "idle"]
         /\ mine' = NoCommand

\* An error, or no answer.  After a save nobody knows what the file is now, and
\* nothing can be edited until a probe succeeds.
Unconfirmed ==
    IF page.pc = "network" THEN Load(page)
    ELSE /\ page' = [page EXCEPT !.pc = "idle",
                                 !.ready = IF page.pc = "save" THEN FALSE ELSE @]
         /\ mine' = NoCommand

Failed ==
    /\ page.pc \in {"probe", "save", "network", "reboot"}
    /\ mine.answer = "error"
    /\ Unconfirmed
    /\ UNCHANGED <<file, report, late, since, typed>>

\* A fault: only probes have a time limit.
TimeoutOfProbes ==
    /\ page.pc = "probe"
    /\ Unconfirmed
    /\ GiveUp
    /\ UNCHANGED <<file, report, since, typed>>

\* 30 seconds have passed, also with an answer on its way; the callback is gone.
Timeout ==
    /\ page.pc \in {"probe", "save", "network", "reboot"}
    /\ Unconfirmed
    /\ GiveUp
    /\ UNCHANGED <<file, report, since, typed>>
-----------------------------------------------------------------------------
(* The world around *)

\* A save the page has given up on ends, with or without effect.
LateSave(m) ==
    /\ late' = late \ {m}
    /\ \/ UNCHANGED <<file, since>>
       \/ m.arg \in Config /\ file' = m.arg /\ since' = since \cup {"late"}
    /\ UNCHANGED <<report, page, mine, typed>>

\* An editor, a terminal, another page.
OthersWrite(c) ==
    /\ file' = c
    /\ since' = since \cup {"other"}
    /\ UNCHANGED <<report, page, mine, late, typed>>

\* The phone restarts, and apply leaves a report, or dies before it could.
Restart ==
    /\ page' = Closed
    /\ mine' = NoCommand
    /\ late' = {}
    /\ typed' = None
    /\ report' \in {[report EXCEPT !.current = FALSE]}
                   \cup {[current |-> TRUE, phase |-> ph, config |-> None] : ph \in {"preparing", "failed"}}
                   \cup {[current |-> TRUE, phase |-> "applied", config |-> c] : c \in {file} \ {Bad}}
    /\ UNCHANGED <<file, since>>

Next ==
    \/ Open \/ Close \/ Refresh \/ Discard \/ Save \/ ChangeNetwork \/ Reboot
    \/ \E d \in Draft : Edit(d)
    \/ ReadConfig \/ ReadStatus \/ SaveConfig \/ Obey \/ CommandFails
    \/ ProbeDone \/ SaveDone \/ SaveRefused \/ NetworkDone \/ RebootDone
    \/ Failed \/ Timeout
    \/ \E m \in late : LateSave(m)
    \/ \E c \in Config \cup {Bad} : OthersWrite(c)
    \/ Restart

\* A timer goes off in the end (a root command need not end), and a phone that was
\* told to restart, does.
Fairness == WF_vars(Timeout) /\ WF_vars(page.pc = "restarting" /\ Restart)

Spec == Init /\ [][Next]_vars /\ Fairness
-----------------------------------------------------------------------------
Kinds == {"probe", "save", "network", "reboot"}
Phases == {"none", "preparing", "failed", "applied"}
Seen == [current : BOOLEAN, phase : Phases, changed : {"unknown", "yes", "no"}]
IsCommand(m) ==
    m \in [kind : Kinds \cup {"none"}, arg : Draft \cup {None}, config : Config \cup {Bad, None},
          status : Seen, answer : {"none", "ok", "error", "invalid"}]

\* Every variable keeps its kind of value, and the page waits for the command it
\* has sent.
TypeOK ==
    /\ file \in Config \cup {Bad}
    /\ report \in [current : BOOLEAN, phase : Phases, config : Config \cup {None}]
    /\ page \in [pc : Kinds \cup {"closed", "idle", "restarting"}, ready : BOOLEAN,
                 draft : Draft \cup {None}, saved : Config \cup {None}, seen : Seen]
    /\ IsCommand(mine)
    /\ mine.kind = IF page.pc \in Kinds THEN page.pc ELSE "none"
    /\ \A m \in late : IsCommand(m)
    /\ since \subseteq {"late", "other"}
    /\ typed \in Draft \cup {None}

\* Nothing the user typed is lost, or replaced by an answer that comes later,
\* until it is saved or given up.
DraftKept == typed # None => page.draft = typed

\* What the page shows as saved, and lets the user edit, is what the file holds,
\* if nobody else wrote it since it was read: not after a save that may or may
\* not have taken place.
ReadyIsFile == page.ready /\ page.pc # "save" /\ since = {} => page.saved = file

\* "Your saved settings are active" (app.js:342).
Claims ==
    /\ page.ready /\ ~Dirty
    /\ page.seen.current /\ page.seen.phase = "applied" /\ page.seen.changed # "yes"

\* When the page says that the saved settings are active, this very boot was
\* prepared with the configuration it shows, and that is in the file, if nobody
\* else wrote it since it was read.
ClaimIsTrue ==
    Claims /\ since = {} =>
        /\ report.current /\ report.phase = "applied"
        /\ report.config = page.saved /\ file = page.saved

\* What has been read is true of the file and the report, while nobody else
\* writes: of an answer that is on its way, and of what the page shows.
Believed ==
    /\ since = {} /\ page.pc = "probe" /\ mine.config # None => mine.config = file
    /\ since = {} /\ page.pc = "probe" /\ mine.answer = "ok" => mine.status = Status
    /\ since = {} /\ page.ready /\ (page.pc = "save" => mine.answer \in {"none", "invalid"})
          => page.saved = file /\ page.seen = Status

\* What the page does in the meantime does not disturb that.
Consistent ==
    /\ page.pc \in {"closed", "probe"} => ~page.ready
    /\ page.ready => page.saved \in Config
    /\ page.pc = "probe" /\ mine.answer = "ok" => mine.config \in Config
    /\ typed # None => Dirty
    /\ page.pc \in {"closed", "probe", "network"} => typed = None
    /\ page.pc = "save" => Dirty /\ page.ready /\ mine.arg = page.draft
    /\ page.pc = "save" /\ mine.answer = "ok" => mine.arg \in Config

\* The page never stays busy: whatever root commands do, it becomes usable again,
\* is closed, or goes down with the phone.
Settles == page.pc \notin {"idle", "closed"} ~> page.pc \in {"idle", "closed"}
=============================================================================
