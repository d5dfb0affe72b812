-------------------------------- MODULE Amtl --------------------------------
(***************************************************************************)
(* AMTL, the application that configures the traces of the modem: a        *)
(* configuration is applied by ApplyConfTask (ConfigApplyFrag.java), a     *)
(* thread that sends AT commands, sets up the service mts, restarts the    *)
(* modem and commits the index of the configuration; if a step throws, it  *)
(* stops the logs and forgets the index.                                   *)
(*                                                                         *)
(* Meanwhile the modem may go down and come up (ModemController), the      *)
(* main thread may ask the modem for its settings on the same tty          *)
(* (GeneralSetupFrag), and the activity may be paused, which closes the    *)
(* tty.  The process may die at any time.                                  *)
(*                                                                         *)
(* The modem, mmgr and Android are external.  The modem keeps the settings *)
(* it accepted.  The lists of masters and the look of the screen are left  *)
(* out; a destroyed activity takes its process with it.                    *)
(***************************************************************************)
EXTENDS Integers, Sequences

CONSTANTS
  Catalog,    \* the outputs of the catalogue: index |-> [xsio, mts]
  Experts,    \* the expert configurations, of ModemConfs
  Found,      \* the output and the traces that the modem has at first: [xsio, trace]
  Flush,      \* a flush command is defined
  MaxLag,     \* bound of the model: events of mmgr, and broadcasts, that are not yet received
  MaxInputs   \* bound of the model: configurations applied, and times something comes between: an
              \* error, a modem that goes down unasked, a pause, a check, the end of the process

Indexes == DOMAIN Catalog
None    == -2 \* prefs.getInt("index", -2)
Modes   == {"", "persistent", "oneshot"}

ModemConfs ==
  [index : {None, -1} \cup Indexes, xsio : {"", "1", "2"}, trace : {"", "0", "1"}, mts : Modes]

\* What handleOutputElement makes of an output, and parseShortConfig of an expert configuration.
Outputs     == [xsio : {"1", "2"}, mts : Modes]
ExpertConfs == {c \in ModemConfs : c.index = -1}

ASSUME CatalogAssumption ==
  /\ Indexes \subseteq Nat /\ Catalog \in [Indexes -> Outputs]
  /\ Flush \in BOOLEAN
  /\ Found \in [xsio : {"1", "2"}, trace : {"0", "1"}]
ASSUME ExpertsAssumption == Experts \subseteq ExpertConfs
ASSUME BoundsAssumption == MaxLag \in Nat \ {0} /\ MaxInputs \in Nat

VARIABLES
  modem,    \* the modem: whether it is up, the output and the traces it has set
  asked,    \* a cold reset was asked of mmgr
  events,   \* what mmgr has to tell the application
  status,   \* currentModemStatus
  tty,      \* ttyManager is not null
  answers,  \* what can be read from the tty
  front,    \* the activity: "out", "paused", "resumed"
  connect,  \* where ConnectModemTask is
  acquired, \* modemAcquired
  first,    \* firstAcquire
  held,     \* acquireModem calls without a releaseModem, as mmgr sees them
  msgs,     \* broadcasts to the main thread
  ui,       \* the check the main thread is in
  enabled,  \* the button "Execute configuration"
  prefs,    \* AMTLPrefsData: index and log_active
  mts,      \* mts: whether it runs in each mode, and the parameters it has
  expert,   \* persist.service.amtl.expert
  task,     \* ApplyConfTask: where it is, whether it waits for an answer, its configuration
  spoiled,  \* (observer) the last configuration shared the tty with a check, or was cut short
  inputs    \* how many of those happened

device == <<modem, asked>>
link   == <<status, tty, answers>>
app    == <<front, connect, acquired, first, held>>
screen == <<ui, msgs, enabled>>
saved  == <<prefs, mts, expert>>
job    == <<task, spoiled>>
vars   == <<device, events, link, app, screen, saved, job, inputs>>

Input == inputs < MaxInputs /\ inputs' = inputs + 1

NoConf  == [index |-> None, xsio |-> "", trace |-> "", mts |-> ""]
NoTask  == [at |-> "idle", waits |-> FALSE, conf |-> NoConf]
NoCheck == [at |-> "idle", waits |-> FALSE, xsio |-> "", trace |-> ""]
-----------------------------------------------------------------------------
(* The configurations.                                                     *)

\* ModemConf(LogOutput) with activateConf(true), the configuration that applyConf makes when
\* no switch is on, and the one of MasterSetupFrag: the masters only, under the index in use.
OutputConf(i) ==
  [index |-> i, xsio |-> Catalog[i].xsio, trace |-> "1", mts |-> Catalog[i].mts]
StopConf   == [index |-> -1, xsio |-> "", trace |-> "0", mts |-> ""]
MasterConf == [index |-> prefs.index, xsio |-> "", trace |-> "", mts |-> ""]

\* The command sent at a step; an empty one is not sent.
Command(at, conf) ==
  CASE at = "xsio"                   -> conf.xsio
    [] at = "trace"                  -> conf.trace
    [] at \in {"flush", "flush0"}    -> IF Flush THEN "sync" ELSE ""
    [] at = "systrace"               -> "masters"
    [] at \in {"trace0", "systrace0"} -> "0"

Sends == {"xsio", "trace", "systrace", "flush", "trace0", "systrace0", "flush0"}

After(at) ==
  CASE at = "xsio"      -> "trace"     [] at = "trace"     -> "systrace"
    [] at = "systrace"  -> "flush"     [] at = "flush"     -> "mts"
    [] at = "trace0"    -> "systrace0" [] at = "systrace0" -> "flush0"
    [] at = "flush0"    -> "restart0"

Answer(to, ok, says) == [to |-> to, ok |-> ok, says |-> says]

\* What a command that the modem accepts sets.
Accepted(at, value) ==
  CASE at = "xsio"                -> [modem EXCEPT !.xsio = value]
    [] at \in {"trace", "trace0"} -> [modem EXCEPT !.trace = value]
    [] OTHER                      -> modem
-----------------------------------------------------------------------------
(* mts, and the ends of the process and of a task.                         *)

\* MtsManager.stopServices: it asks only whether the persistent mts runs.
Stopped == IF mts.persistent THEN [mts EXCEPT !.persistent = FALSE, !.oneshot = FALSE] ELSE mts

Started(mode) ==
  CASE mode = "persistent" -> [mts EXCEPT !.persistent = TRUE]
    [] mode = "oneshot"    -> [mts EXCEPT !.oneshot = TRUE]
    [] OTHER               -> mts

\* The process ends: killed, or by an exception that nobody catches.
ProcessEnds ==
  /\ front' = "out" /\ connect' = "idle" /\ acquired' = FALSE /\ first' = TRUE /\ held' = 0
  /\ status' = "none" /\ tty' = FALSE /\ answers' = <<>> /\ events' = <<>> /\ msgs' = <<>>
  /\ ui' = NoCheck /\ enabled' = TRUE /\ task' = NoTask
  /\ spoiled' = (spoiled \/ task.at # "idle")
  /\ UNCHANGED <<device, saved>>

\* Throws that keeps the index.
ThrowsKeepsIndex ==
  /\ IF task.at \in {"stop", "trace0", "systrace0", "flush0", "restart0"}
     THEN prefs' = [prefs EXCEPT !.active = TRUE] /\ task' = NoTask
     ELSE prefs' = prefs /\ task' = [task EXCEPT !.at = "stop", !.waits = FALSE]
  /\ UNCHANGED <<mts, expert>>

\* Throws that tries again to stop the logs.
ThrowsAgain ==
  /\ prefs' = [prefs EXCEPT !.index = None]
  /\ task' = [task EXCEPT !.at = "stop", !.waits = FALSE]
  /\ UNCHANGED <<mts, expert>>

\* A ModemControlException in doInBackground: the first one makes it forget the index and stop
\* the logs, the second one makes it give up.
Throws ==
  /\ IF task.at \in {"stop", "trace0", "systrace0", "flush0", "restart0"}
     THEN prefs' = [prefs EXCEPT !.active = TRUE] /\ task' = NoTask
     ELSE prefs' = [prefs EXCEPT !.index = None]
          /\ task' = [task EXCEPT !.at = "stop", !.waits = FALSE]
  /\ UNCHANGED <<mts, expert>>
-----------------------------------------------------------------------------
(* ApplyConfTask.                                                          *)

\* applyConf and the apply button of MasterSetupFrag.
Apply ==
  /\ front = "resumed" /\ connect = "done" /\ enabled /\ ui.at = "idle" /\ task.at = "idle"
  /\ Input
  /\ \E conf \in {OutputConf(i) : i \in Indexes} \cup Experts \cup {StopConf, MasterConf} :
       /\ task' = [at |-> "xsio", waits |-> FALSE, conf |-> conf]
       /\ expert' = IF conf = MasterConf THEN expert ELSE conf \in Experts
       /\ spoiled' = (spoiled /\ conf = MasterConf)
  /\ UNCHANGED <<device, events, link, app, screen, prefs, mts>>

Skip ==
  /\ task.at \in Sends /\ Command(task.at, task.conf) = ""
  /\ task' = [task EXCEPT !.at = After(task.at)]
  /\ UNCHANGED <<device, events, link, app, screen, saved, spoiled, inputs>>

\* sendAtCommand up to the write: the status is checked, the tty is not.
Send ==
  /\ task.at \in Sends /\ ~task.waits /\ Command(task.at, task.conf) # ""
  /\ \/ /\ status # "up" \/ (tty /\ ~modem.up)
        /\ Throws
        /\ UNCHANGED <<device, events, link, app, screen, spoiled, inputs>>
     \/ /\ status = "up" /\ ~tty
        /\ ProcessEnds /\ UNCHANGED inputs
     \/ /\ status = "up" /\ tty /\ modem.up
        /\ \/ /\ modem' = Accepted(task.at, Command(task.at, task.conf))
              /\ answers' = Append(answers, Answer("task", TRUE, ""))
              /\ UNCHANGED inputs
           \/ /\ Input
              /\ answers' = Append(answers, Answer("task", FALSE, ""))
              /\ UNCHANGED modem
        /\ task' = [task EXCEPT !.waits = TRUE]
        /\ spoiled' = (spoiled \/ ui.at # "idle")
        /\ UNCHANGED <<asked, events, status, tty, app, screen, saved>>

\* Read that takes every answer for an OK.
ReadAny ==
  /\ task.waits /\ answers # <<>>
  /\ answers' = Tail(answers)
  /\ task' = [task EXCEPT !.at = After(task.at), !.waits = FALSE]
  /\ UNCHANGED <<device, events, status, tty, app, screen, saved, spoiled, inputs>>

\* The read of sendAtCommand: an answer, whoever asked for it; or the tty is closed, and the read
\* fails or had not begun.
Read ==
  /\ task.waits
  /\ \/ /\ answers # <<>> /\ answers' = Tail(answers)
        /\ IF Head(answers).ok
           THEN /\ task' = [task EXCEPT !.at = After(task.at), !.waits = FALSE]
                /\ UNCHANGED <<saved>>
           ELSE Throws
        /\ UNCHANGED <<device, events, status, tty, app, screen, spoiled, inputs>>
     \/ /\ answers = <<>> /\ (~modem.up \/ ~tty)
        /\ Throws
        /\ UNCHANGED <<device, events, link, app, screen, spoiled, inputs>>
     \/ /\ ~tty /\ ProcessEnds /\ UNCHANGED inputs

\* applyMtsParameters: an expert configuration without mts leaves the parameters alone.
Params(conf) ==
  CASE conf.mts # ""                                         -> conf.index
    [] conf.mts = "" /\ conf \in Experts /\ conf.trace = "1" -> mts.params
    [] OTHER                                                 -> None

\* SetMts that leaves the service of the configuration before.
SetMtsNoStop ==
  /\ task.at = "mts"
  /\ mts' = [mts EXCEPT !.params = Params(task.conf)]
  /\ task' = [task EXCEPT !.at = IF task.conf.mts # "" THEN "start" ELSE "restart"]
  /\ UNCHANGED <<device, events, link, app, screen, prefs, expert, spoiled, inputs>>

\* mts is stopped and set up, but for the configuration of MasterSetupFrag.
SetMts ==
  /\ task.at = "mts"
  /\ mts' = IF task.conf.mts # "" \/ task.conf.xsio # "" \/ task.conf.trace # ""
            THEN [Stopped EXCEPT !.params = Params(task.conf)] ELSE mts
  /\ task' = [task EXCEPT !.at = IF task.conf.mts # "" THEN "start" ELSE "restart"]
  /\ UNCHANGED <<device, events, link, app, screen, prefs, expert, spoiled, inputs>>

StartMts ==
  /\ task.at = "start"
  /\ mts' = Started(task.conf.mts)
  /\ task' = [task EXCEPT !.at = "restart"]
  /\ UNCHANGED <<device, events, link, app, screen, prefs, expert, spoiled, inputs>>

\* restartModem, which may throw.
Restart ==
  /\ task.at = "restart"
  /\ \/ /\ asked' = TRUE /\ task' = [task EXCEPT !.at = "commit"]
        /\ UNCHANGED <<saved, inputs>>
     \/ Input /\ Throws /\ UNCHANGED asked
  /\ UNCHANGED <<modem, events, link, app, screen, spoiled>>

\* The index is committed when all is done.
Commit ==
  /\ task.at = "commit"
  /\ prefs' = [prefs EXCEPT !.index = task.conf.index]
  /\ task' = NoTask
  /\ UNCHANGED <<device, events, link, app, screen, mts, expert, spoiled, inputs>>

StopMts ==
  /\ task.at = "stop"
  /\ mts' = Stopped
  /\ task' = [task EXCEPT !.at = "trace0"]
  /\ UNCHANGED <<device, events, link, app, screen, prefs, expert, spoiled, inputs>>

RestartStopped ==
  /\ task.at = "restart0"
  /\ \/ /\ asked' = TRUE /\ prefs' = [prefs EXCEPT !.active = FALSE] /\ task' = NoTask
        /\ UNCHANGED <<mts, expert, inputs>>
     \/ Input /\ Throws /\ UNCHANGED asked
  /\ UNCHANGED <<modem, events, link, app, screen, spoiled>>

DoInBackground ==
  \/ Skip \/ Send \/ Read \/ SetMts \/ StartMts \/ Restart \/ Commit \/ StopMts \/ RestartStopped
-----------------------------------------------------------------------------
(* The main thread: checkModemConfig and what follows.                     *)

BeginCheck == ui' = [NoCheck EXCEPT !.at = "xsio"]

\* onReceive of GeneralSetupFrag; when another tab is shown nobody here receives it.
Receive ==
  /\ front # "out" /\ ui.at = "idle" /\ msgs # <<>>
  /\ msgs' = Tail(msgs)
  /\ \/ Head(msgs) = "UP" /\ BeginCheck /\ UNCHANGED enabled
     \/ Head(msgs) = "DOWN" /\ enabled' = FALSE /\ UNCHANGED ui
     \/ UNCHANGED <<ui, enabled>>
  /\ UNCHANGED <<device, events, link, app, saved, job, inputs>>

\* onResume of GeneralSetupFrag, when the user comes back to its tab or, once a tab was visited,
\* to the activity.  The tab makes its view anew, with a button that is enabled.
Check ==
  /\ front = "resumed" /\ ui.at = "idle" /\ Input
  /\ \/ status = "up" /\ BeginCheck /\ enabled' \in {enabled, TRUE}
     \/ status = "down" /\ enabled' = FALSE /\ UNCHANGED ui
     \/ status \in {"none", "dead"} /\ enabled' = TRUE /\ UNCHANGED ui
  /\ UNCHANGED <<device, events, link, app, msgs, saved, job>>

NextQuestion(at) == CASE at = "xsio" -> "trace" [] at = "trace" -> "systrace" [] at = "systrace" -> "update"

\* sendAtCommand of a question.
Ask ==
  /\ ui.at \in {"xsio", "trace", "systrace"} /\ ~ui.waits
  /\ \/ /\ status # "up" \/ (tty /\ ~modem.up)
        /\ ui' = NoCheck
        /\ UNCHANGED <<answers, task, spoiled, inputs, device, events, status, tty, app, msgs,
                       enabled, saved>>
     \/ /\ status = "up" /\ ~tty
        /\ ProcessEnds /\ UNCHANGED inputs
     \/ /\ status = "up" /\ tty /\ modem.up
        /\ answers' = Append(answers, Answer(ui.at, TRUE,
                               CASE ui.at = "xsio"  -> modem.xsio
                                 [] ui.at = "trace" -> modem.trace
                                 [] OTHER           -> ""))
        /\ ui' = [ui EXCEPT !.waits = TRUE]
        /\ spoiled' = (spoiled \/ task.waits)
        /\ UNCHANGED <<device, events, status, tty, app, msgs, enabled, saved, task,
                       inputs>>

\* Its answer; the answer to another command is cut at the wrong place, which may throw, or an
\* error.
Hear ==
  /\ ui.waits
  /\ \/ /\ answers # <<>> /\ answers' = Tail(answers)
        /\ \/ /\ Head(answers).ok
              /\ \E says \in IF Head(answers).to = ui.at THEN {Head(answers).says} ELSE {"", "0", "1"} :
                   ui' = [ui EXCEPT !.at = NextQuestion(ui.at), !.waits = FALSE,
                                    !.xsio = IF ui.at = "xsio" THEN says ELSE @,
                                    !.trace = IF ui.at = "trace" THEN says ELSE @]
           \/ ~Head(answers).ok /\ ui' = NoCheck
        /\ UNCHANGED <<device, events, status, tty, app, msgs, enabled, saved, job, inputs>>
     \/ /\ answers # <<>> /\ Head(answers).to # ui.at
        /\ ProcessEnds /\ UNCHANGED inputs
     \/ /\ answers = <<>> /\ (~modem.up \/ ~tty)
        /\ ui' = NoCheck
        /\ UNCHANGED <<device, events, link, app, msgs, enabled, saved, job, inputs>>
     \/ /\ ~tty /\ ProcessEnds /\ UNCHANGED inputs

\* The loop of updateUi compares the output of the modem with those of the catalogue, and an
\* output without mts has no mts_output to compare.
Unmatched == \E i \in Indexes : Catalog[i].xsio = ui.xsio /\ Catalog[i].mts = ""

\* updateUi, setUIEnabled.
UpdateUi ==
  /\ ui.at = "update"
  /\ IF prefs.index < 0 /\ ui.trace # "0" /\ ~expert /\ Unmatched
     THEN ProcessEnds
     ELSE /\ mts' = IF ui.trace = "0" THEN Stopped ELSE mts
          /\ expert' = (expert /\ (prefs.index >= 0 \/ ui.trace # "0"))
          /\ enabled' = TRUE /\ ui' = NoCheck
          /\ UNCHANGED <<device, events, link, app, msgs, prefs, job>>
  /\ UNCHANGED inputs

MainThread == Receive \/ Ask \/ Hear \/ UpdateUi
-----------------------------------------------------------------------------
(* The modem and mmgr.                                                     *)

\* It goes down by itself, or when it was asked to.
GoesDown ==
  /\ Len(events) < MaxLag /\ modem.up /\ modem' = [modem EXCEPT !.up = FALSE] /\ answers' = <<>>
  /\ \/ asked /\ asked' = FALSE /\ UNCHANGED inputs
     \/ ~asked /\ Input /\ UNCHANGED asked
  /\ \E e \in {"down", "dead"} :
       events' = IF connect \in {"idle", "failed"} THEN events ELSE Append(events, e)
  /\ UNCHANGED <<status, tty, app, screen, saved, job>>

ComesUp ==
  /\ Len(events) < MaxLag /\ ~modem.up /\ modem' = [modem EXCEPT !.up = TRUE]
  /\ events' = IF connect \in {"idle", "failed"} THEN events ELSE Append(events, "up")
  /\ UNCHANGED <<asked, link, app, screen, saved, job, inputs>>

\* openTty: the tty of a modem that is down cannot be opened.
Opens == tty \/ modem.up

\* onModemUp opens the tty, which may fail; onModemDown and onModemDead close it.
OnModemEvent ==
  /\ events # <<>> /\ Len(msgs) < MaxLag /\ events' = Tail(events)
  /\ status' = Head(events)
  /\ CASE Head(events) # "up"       -> tty' = FALSE /\ msgs' = Append(msgs, "DOWN")
       [] Head(events) = "up" /\ Opens  -> tty' = TRUE /\ msgs' = Append(msgs, "UP")
       [] Head(events) = "up" /\ ~Opens -> UNCHANGED <<tty, msgs>>
  /\ UNCHANGED <<device, answers, app, ui, enabled, saved, job, inputs>>

\* A read of sendAtCommand gets an answer together with PBREADY and drops both.
DropAnswer ==
  /\ Input /\ answers # <<>> /\ answers' = Tail(answers)
  /\ UNCHANGED <<device, events, status, tty, app, screen, saved, job>>
-----------------------------------------------------------------------------
(* The activity.                                                           *)

Launch ==
  /\ front = "out" /\ front' = "resumed" /\ connect' = "acquire"
  /\ events' = IF modem.up THEN <<"up">> ELSE <<>>
  /\ UNCHANGED <<device, link, acquired, first, held, screen, saved, job, inputs>>

\* ConnectModemTask: acquireModem, which may throw, and the two flags it sets after it.
Acquire ==
  /\ connect = "acquire"
  /\ \/ held' = held + 1 /\ connect' = "flag" /\ UNCHANGED inputs
     \/ Input /\ connect' = "failed" /\ UNCHANGED held
  /\ UNCHANGED <<device, events, link, front, acquired, first, screen, saved, job>>

SetAcquired ==
  /\ connect = "flag" /\ connect' = "first" /\ acquired' = TRUE
  /\ UNCHANGED <<device, events, link, front, first, held, screen, saved, job, inputs>>

SetFirst ==
  /\ connect = "first" /\ connect' = "done" /\ first' = FALSE
  /\ UNCHANGED <<device, events, link, front, acquired, held, screen, saved, job, inputs>>

\* onPause: releaseResource, which may throw, and close.
Pause ==
  /\ front = "resumed" /\ ui.at = "idle" /\ Input
  /\ front' = "paused" /\ tty' = FALSE
  /\ \/ acquired' = FALSE /\ held' = IF acquired THEN held - 1 ELSE held
     \/ acquired /\ UNCHANGED <<acquired, held>>
  /\ UNCHANGED <<device, events, status, answers, connect, first, screen, saved, job>>

\* acquireResource; Resume tells when it acquires.
ResumeIf(acquires) ==
  /\ front = "paused" /\ ui.at = "idle"
  /\ front' = "resumed"
  /\ acquired' = (acquired \/ acquires)
  /\ held' = IF acquires THEN held + 1 ELSE held
  /\ IF acquired' /\ ~tty THEN Opens /\ tty' = TRUE /\ answers' = <<>>
                          ELSE UNCHANGED <<tty, answers>>
  /\ UNCHANGED <<device, events, status, connect, first, screen, saved, job, inputs>>

\* Resume that forgets that the modem is acquired by ConnectModemTask the first time.
ResumeAcquires == ResumeIf(~acquired)

\* onResume: acquireResource and openTty; when either throws, Leave ends the application.
Resume == ResumeIf(~acquired /\ ~first)

\* onDestroy, or the system kills the process; or the user leaves after an error.
Leave ==
  /\ front # "out"
  /\ \/ connect = "failed" /\ UNCHANGED inputs
     \/ front = "paused" /\ UNCHANGED inputs
     \/ Input
  /\ ProcessEnds

Init ==
  /\ modem \in [up : BOOLEAN, xsio : {Found.xsio}, trace : {Found.trace}] /\ asked = FALSE
  /\ events = <<>> /\ status = "none" /\ tty = FALSE /\ answers = <<>>
  /\ front = "out" /\ connect = "idle" /\ acquired = FALSE /\ first = TRUE /\ held = 0
  /\ msgs = <<>> /\ ui = NoCheck /\ enabled = TRUE
  /\ prefs = [index |-> None, active |-> FALSE]
  /\ mts = [persistent |-> FALSE, oneshot |-> FALSE, params |-> None]
  /\ expert = FALSE /\ task = NoTask /\ spoiled = FALSE
  /\ inputs = 0

Next ==
  \/ Apply \/ DoInBackground \/ MainThread \/ Check
  \/ GoesDown \/ ComesUp \/ OnModemEvent \/ DropAnswer
  \/ Launch \/ Acquire \/ SetAcquired \/ SetFirst \/ Pause \/ Resume \/ Leave

\* The threads of the application run.
Spec == Init /\ [][Next]_vars /\ WF_vars(DoInBackground) /\ WF_vars(MainThread)
-----------------------------------------------------------------------------
(* Properties.                                                             *)

\* Typing.  The modem is acquired at most once, and the flag that lets it be released tells
\* the truth, though ConnectModemTask and the main thread both acquire it.
TypeOK ==
  /\ modem \in [up : BOOLEAN, xsio : {"1", "2"}, trace : {"0", "1"}] /\ asked \in BOOLEAN
  /\ events \in Seq({"up", "down", "dead"}) /\ status \in {"none", "up", "down", "dead"}
  /\ tty \in BOOLEAN
  /\ \A k \in DOMAIN answers : answers[k].to \in {"task", "xsio", "trace", "systrace"}
  /\ front \in {"out", "paused", "resumed"}
  /\ connect \in {"idle", "acquire", "flag", "first", "done", "failed"}
  /\ acquired \in BOOLEAN /\ first \in BOOLEAN /\ held \in {0, 1} /\ (acquired => held = 1)
  /\ msgs \in Seq({"UP", "DOWN"}) /\ enabled \in BOOLEAN
  /\ ui.at \in {"idle", "xsio", "trace", "systrace", "update"}
  /\ prefs \in [index : {None, -1} \cup Indexes, active : BOOLEAN]
  /\ mts \in [persistent : BOOLEAN, oneshot : BOOLEAN, params : {None, -1} \cup Indexes]
  /\ expert \in BOOLEAN /\ spoiled \in BOOLEAN /\ task.conf \in ModemConfs
  /\ task.at \in {"idle", "mts", "start", "restart", "commit", "stop", "restart0"} \cup Sends
  /\ task.waits => task.at \in Sends
  /\ front = "out" => task.at = "idle" /\ ui.at = "idle"

\* The index that is stored names the output and the traces the modem has, also after a
\* configuration that failed at any step, once and again while the logs were being stopped.
IndexIsApplied ==
  task.at = "idle" /\ ~spoiled /\ prefs.index \in Indexes =>
    modem.trace = "1" /\ modem.xsio = Catalog[prefs.index].xsio

\* mts runs with the parameters of that configuration if it needs it, and the persistent
\* service does not outlive the configuration it was for.
MtsIsSet ==
  task.at = "idle" /\ ~spoiled /\ prefs.index \in Indexes =>
    LET mode == Catalog[prefs.index].mts
    IN  /\ mts.persistent = (mode = "persistent")
        /\ mode = "oneshot" => mts.oneshot
        /\ mode # "" => mts.params = prefs.index

\* A task that stores log_active = false has stopped the traces of the modem and the persistent
\* mts, and stored no index: "logging has been stopped".
StopIsTrue ==
  [][task.at = "restart0" /\ task'.at = "idle" /\ ~prefs'.active /\ ~spoiled' =>
       modem.trace = "0" /\ ~mts.persistent /\ prefs'.index = None]_vars

\* A task ends, whatever the modem does; unless an answer was lost, for which it waits until the
\* modem goes down.
ApplyEnds ==
  task.at # "idle" ~> (task.at = "idle" \/ (task.waits /\ answers = <<>> /\ modem.up))
=============================================================================
