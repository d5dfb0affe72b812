---------------------------- MODULE ToolsProofs ----------------------------
(***************************************************************************)
(* Proofs about the two tools beside the daemon: Amtl, for every catalogue,*)
(* every set of expert configurations, every modem and every bound; and    *)
(* Backtrace, for every set of processes, maps, stacks and files.          *)
(*                                                                         *)
(* Amtl.  The argument follows a configuration through ApplyConfTask.  As  *)
(* long as nobody shared the tty with it (spoiled), an answer that can be  *)
(* read is the answer to what was asked (Answered), so that a step that is *)
(* behind the task has had its effect on the modem and on mts (Applied);   *)
(* the answers to the questions of the main thread are no older than what  *)
(* the modem has (Checked), so that updateUi does not stop an mts that a   *)
(* configuration needs; and a task that takes the logs down has no index   *)
(* (Stopping).                                                             *)
(*                                                                         *)
(* Backtrace.  bsearch halves a part of a table, so that its recursion ends*)
(* (AllSearches, SearchIs); what it returns contains the address, and in a *)
(* sorted table whose symbols do not overlap it misses none (SearchFinds,  *)
(* SearchMisses).  A frame is printed with the maps of its own process     *)
(* because the maps that the tool holds are those of the process it is at: *)
(* LiveOK for parse_stack -a and -p, WriteOK and ReadOK for a trace, OutOK *)
(* for what is printed.                                                    *)
(*                                                                         *)
(* That every task is reported once needs what is before each place: which *)
(* tasks StackAll holds (EntriesOK), which of them are printed and with    *)
(* how much of their stack (ShownOK), the same for one process (AnrOK);    *)
(* how the lines of a trace make up the blocks of its tasks (FileOK), and  *)
(* that the reader, at a line of it, has printed the blocks before it and  *)
(* waits for what that line starts (WaitOK, TraceOK).                      *)
(***************************************************************************)
EXTENDS Amtl, Backtrace, SequenceTheorems, FiniteSetTheorems, TLAPS

\* Sequences: their elements,
LEMMA SeqFacts ==
  ASSUME NEW S, NEW s \in Seq(S)
  PROVE  Len(s) \in Nat /\ DOMAIN s = 1 .. Len(s) /\ \A i \in DOMAIN s : s[i] \in S
  BY LenProperties, ElementOfSeq

\* Append,
LEMMA AppendFacts ==
  ASSUME NEW S, NEW s \in Seq(S), NEW e \in S
  PROVE  /\ Append(s, e) \in Seq(S)
         /\ Len(Append(s, e)) = Len(s) + 1 /\ DOMAIN Append(s, e) = 1 .. Len(s) + 1
         /\ \A i \in DOMAIN s : Append(s, e)[i] = s[i]
         /\ Append(s, e)[Len(s) + 1] = e
  BY AppendProperties, LenProperties

\* concatenation,
LEMMA JoinFacts ==
  ASSUME NEW S, NEW s \in Seq(S), NEW t \in Seq(S)
  PROVE  /\ s \o t \in Seq(S) /\ Len(s \o t) = Len(s) + Len(t)
         /\ DOMAIN (s \o t) = 1 .. Len(s) + Len(t)
         /\ \A i \in 1 .. Len(s) : (s \o t)[i] = s[i]
         /\ \A i \in 1 .. Len(t) : (s \o t)[Len(s) + i] = t[i]
         /\ \A i \in DOMAIN (s \o t) : \/ i \in DOMAIN s /\ (s \o t)[i] = s[i]
                                       \/ i - Len(s) \in DOMAIN t /\ (s \o t)[i] = t[i - Len(s)]
  BY ConcatProperties, LenProperties

\* and the sequence of one element.
LEMMA OneFacts ==
  ASSUME NEW S, NEW e \in S
  PROVE  <<e>> \in Seq(S) /\ Len(<<e>>) = 1 /\ DOMAIN <<e>> = 1 .. 1 /\ <<e>>[1] = e
  OBVIOUS
-----------------------------------------------------------------------------
(* The modem configurations.                                               *)

Forward == {"xsio", "trace", "systrace", "flush", "mts", "start", "restart", "commit"}
Rollback == {"stop", "trace0", "systrace0", "flush0", "restart0"}

ConfTasks    == [at : {"idle"} \cup Forward \cup Rollback, waits : BOOLEAN, conf : ModemConfs]
Questions    == {"xsio", "trace", "systrace"}
Checks   == [at : {"idle", "update"} \cup Questions, waits : BOOLEAN, xsio : {"", "0", "1", "2"},
             trace : {"", "0", "1", "2"}]
Replies  == [to : {"task"} \cup Questions, ok : BOOLEAN, says : {"", "0", "1", "2"}]

Modems   == [up : BOOLEAN, xsio : {"1", "2"}, trace : {"0", "1"}]
Stores   == [index : {None, -1} \cup Indexes, active : BOOLEAN]
Services == [persistent : BOOLEAN, oneshot : BOOLEAN, params : {None, -1} \cup Indexes]
Tells    == {"up", "down", "dead"}
States   == {"none", "up", "down", "dead"}
Shouts   == {"UP", "DOWN"}

Typing ==
  /\ modem \in Modems /\ asked \in BOOLEAN /\ events \in Seq(Tells) /\ status \in States
  /\ tty \in BOOLEAN /\ answers \in Seq(Replies) /\ msgs \in Seq(Shouts) /\ enabled \in BOOLEAN
  /\ ui \in Checks /\ task \in ConfTasks /\ prefs \in Stores /\ mts \in Services
  /\ expert \in BOOLEAN /\ spoiled \in BOOLEAN

\* acquireModem and releaseModem come in turns, by ConnectModemTask or by the main thread.
Holding ==
  /\ front \in {"out", "paused", "resumed"} /\ acquired \in BOOLEAN /\ first \in BOOLEAN
  /\ connect \in {"idle", "acquire", "flag", "first", "done", "failed"}
  /\ connect \in {"idle", "acquire", "failed"} => held = 0 /\ first /\ ~acquired
  /\ connect = "flag" => held = 1 /\ first /\ ~acquired
  /\ connect \in {"first", "done"} => held = IF acquired THEN 1 ELSE 0
  /\ front = "out" => connect = "idle" /\ task.at = "idle" /\ ui.at = "idle"

Count(p, q) == (IF p THEN 1 ELSE 0) + (IF q THEN 1 ELSE 0)

\* Who waits has written a command; there are no more answers than commands.
Waiting ==
  /\ task.waits => task.at \in Sends /\ Command(task.at, task.conf) # ""
  /\ ui.waits => ui.at \in Questions
  /\ ui.at = "idle" => ui = NoCheck
  /\ Len(answers) <= Count(task.waits, ui.waits)

\* The modem has set what a step asks for.
Done(at) ==
  /\ at = "xsio" => modem.xsio = task.conf.xsio
  /\ at = "trace" => modem.trace = task.conf.trace
  /\ at = "trace0" => modem.trace = "0"

\* What can be read answers the command, or the question, that was sent last.
Answered ==
  /\ ~(task.waits /\ ui.waits)
  /\ answers # <<>> /\ task.waits /\ answers[1].ok => Done(task.at)
  /\ answers # <<>> /\ ui.waits =>
       /\ answers[1].to = ui.at /\ answers[1].ok
       /\ ui.at = "trace" => answers[1].says = modem.trace

Checked == ui.trace = "0" => modem.trace = "0"

\* The modem has the output i with its traces, and mts runs as that output needs it.
HasOutput(i) == modem.trace = "1" /\ modem.xsio = Catalog[i].xsio
HasMts(i) ==
  /\ mts.persistent = (Catalog[i].mts = "persistent")
  /\ Catalog[i].mts = "oneshot" => mts.oneshot
  /\ Catalog[i].mts # "" => mts.params = i

MastersOnly == task.conf.xsio = "" /\ task.conf.trace = "" /\ task.conf.mts = ""

\* The configuration of an output, as far as the task has come; the one of MasterSetupFrag
\* leaves the output in place.
Applied ==
  task.at \in Forward /\ task.conf.index \in Indexes =>
    LET i == task.conf.index
    IN  \/ MastersOnly /\ HasOutput(i) /\ HasMts(i)
        \/ /\ task.conf = OutputConf(i)
           /\ task.at # "xsio" => modem.xsio = Catalog[i].xsio
           /\ task.at \notin {"xsio", "trace"} => modem.trace = "1"
           /\ task.at = "start" => ~mts.persistent /\ mts.params = i /\ Catalog[i].mts # ""
           /\ task.at \in {"restart", "commit"} => HasMts(i)

Stored ==
  task.at = "idle" /\ prefs.index \in Indexes => HasOutput(prefs.index) /\ HasMts(prefs.index)

Stopping ==
  /\ task.at \in Rollback \ {"stop"} => ~mts.persistent
  /\ task.at \in {"systrace0", "flush0", "restart0"} => modem.trace = "0"

Forgotten == task.at \in Rollback => prefs.index = None

Clean == Answered /\ Checked /\ Applied /\ Stored /\ Stopping

Inv == Typing /\ Holding /\ Waiting /\ Forgotten /\ (~spoiled => Clean)
-----------------------------------------------------------------------------
(* Sequences.                                                              *)

\* Head and Tail.
LEMMA TailFacts ==
  ASSUME NEW S, NEW s \in Seq(S), s # << >>
  PROVE  /\ Len(s) > 0 /\ Head(s) = s[1] /\ s[1] \in S
         /\ Tail(s) \in Seq(S) /\ Len(Tail(s)) = Len(s) - 1 /\ DOMAIN Tail(s) = 1 .. Len(s) - 1
         /\ \A i \in DOMAIN Tail(s) : Tail(s)[i] = s[i + 1]
  BY HeadTailProperties, LenProperties, EmptySeq
-----------------------------------------------------------------------------
(* Records and configurations.                                             *)

Ats == {"idle"} \cup Forward \cup Rollback

\* The order in which a task sends its commands.
LEMMA AtFacts ==
  /\ Sends \subseteq Ats \ {"idle"}
  /\ \A at \in Sends : After(at) \in Ats \ {"idle"}
  /\ \A at \in Sends \cap Forward : After(at) \in Forward
  /\ \A at \in Sends : After(at) \in Rollback => at \in Rollback
  /\ Sends \subseteq Forward \cup Rollback /\ Forward \cap Rollback = {}
  BY DEF Sends, Ats, Forward, Rollback, After

\* A task that goes on is a task.
LEMMA ConfTaskFacts ==
  ASSUME task \in ConfTasks
  PROVE  /\ task.at \in Ats /\ task.waits \in BOOLEAN /\ task.conf \in ModemConfs
         /\ \A at \in Ats : /\ [task EXCEPT !.at = at] \in ConfTasks
                            /\ [task EXCEPT !.at = at].at = at
                            /\ [task EXCEPT !.at = at].waits = task.waits
                            /\ [task EXCEPT !.at = at].conf = task.conf
         /\ \A at \in Ats : /\ [task EXCEPT !.at = at, !.waits = FALSE] \in ConfTasks
                            /\ [task EXCEPT !.at = at, !.waits = FALSE].at = at
                            /\ [task EXCEPT !.at = at, !.waits = FALSE].waits = FALSE
                            /\ [task EXCEPT !.at = at, !.waits = FALSE].conf = task.conf
         /\ [task EXCEPT !.waits = TRUE] \in ConfTasks
         /\ [task EXCEPT !.waits = TRUE].at = task.at
         /\ [task EXCEPT !.waits = TRUE].waits = TRUE
         /\ [task EXCEPT !.waits = TRUE].conf = task.conf
  BY DEF ConfTasks, Ats

\* The task is over.
LEMMA NoTaskFacts == NoTask \in ConfTasks /\ NoTask.at = "idle" /\ NoTask.waits = FALSE
  BY DEF NoTask, NoConf, ConfTasks, ModemConfs, Modes

\* The questions of the main thread, before the first one,
LEMMA NoCheckFacts ==
  /\ NoCheck \in Checks /\ NoCheck.at = "idle" /\ NoCheck.waits = FALSE /\ NoCheck.trace = ""
  /\ [NoCheck EXCEPT !.at = "xsio"] \in Checks /\ [NoCheck EXCEPT !.at = "xsio"].at = "xsio"
  /\ [NoCheck EXCEPT !.at = "xsio"].waits = FALSE /\ [NoCheck EXCEPT !.at = "xsio"].trace = ""
  BY DEF NoCheck, Checks, Questions

\* and after it.
LEMMA UiFacts ==
  ASSUME ui \in Checks
  PROVE  /\ ui.at \in {"idle", "update"} \cup Questions /\ ui.waits \in BOOLEAN
         /\ ui.trace \in {"", "0", "1", "2"} /\ ui.xsio \in {"", "0", "1", "2"}
         /\ [ui EXCEPT !.waits = TRUE] \in Checks
         /\ [ui EXCEPT !.waits = TRUE].at = ui.at
         /\ [ui EXCEPT !.waits = TRUE].waits = TRUE
         /\ [ui EXCEPT !.waits = TRUE].trace = ui.trace
  BY DEF Checks

\* The types of the parts.
LEMMA ModemFacts ==
  ASSUME Typing
  PROVE  /\ modem.up \in BOOLEAN /\ modem.xsio \in {"1", "2"} /\ modem.trace \in {"0", "1"}
         /\ prefs.index \in {None, -1} \cup Indexes /\ prefs.active \in BOOLEAN
         /\ mts.persistent \in BOOLEAN /\ mts.oneshot \in BOOLEAN
         /\ mts.params \in {None, -1} \cup Indexes
  BY DEF Typing, Modems, Stores, Services

\* The catalogue.
LEMMA IndexFacts ==
  /\ Indexes \subseteq Nat /\ None \notin Indexes /\ -1 \notin Indexes
  /\ \A i \in Indexes : Catalog[i].xsio \in {"1", "2"} /\ Catalog[i].mts \in Modes
  /\ \A c \in Experts : c.index = -1 /\ c \in ModemConfs
  BY CatalogAssumption, ExpertsAssumption DEF None, Outputs, ExpertConfs

\* The configurations that are applied.
LEMMA ConfFacts ==
  ASSUME Typing
  PROVE  /\ \A i \in Indexes : /\ OutputConf(i) \in ModemConfs /\ OutputConf(i).index = i
                               /\ OutputConf(i).xsio = Catalog[i].xsio
                               /\ OutputConf(i).trace = "1" /\ OutputConf(i).mts = Catalog[i].mts
         /\ StopConf \in ModemConfs /\ StopConf.index = -1
         /\ MasterConf \in ModemConfs /\ MasterConf.index = prefs.index
         /\ MasterConf.xsio = "" /\ MasterConf.trace = "" /\ MasterConf.mts = ""
  <1>1. \A i \in Indexes : OutputConf(i) \in ModemConfs
    BY IndexFacts DEF OutputConf, ModemConfs
  <1>2. StopConf \in ModemConfs
    BY DEF StopConf, ModemConfs, Modes
  <1>3. MasterConf \in ModemConfs
    BY ModemFacts DEF MasterConf, ModemConfs, Modes
  <1>4. QED
    BY <1>1, <1>2, <1>3 DEF OutputConf, StopConf, MasterConf

\* The command of a step, and what the modem makes of it.
LEMMA CommandFacts ==
  ASSUME NEW conf \in ModemConfs
  PROVE  /\ Command("xsio", conf) = conf.xsio /\ Command("trace", conf) = conf.trace
         /\ Command("trace0", conf) = "0"
         /\ conf.xsio \in {"", "1", "2"} /\ conf.trace \in {"", "0", "1"} /\ conf.mts \in Modes
         /\ conf.index \in {None, -1} \cup Indexes
  BY DEF Command, ModemConfs

\* What a command that is accepted changes in the modem.
LEMMA AcceptedFacts ==
  ASSUME Typing, NEW at \in Sends, NEW conf \in ModemConfs, Command(at, conf) # "",
         modem' = Accepted(at, Command(at, conf))
  PROVE  /\ modem' \in Modems
         /\ modem'.xsio = IF at = "xsio" THEN conf.xsio ELSE modem.xsio
         /\ modem'.trace = IF at = "trace" THEN conf.trace
                           ELSE IF at = "trace0" THEN "0" ELSE modem.trace
  <1>0. modem \in Modems
    BY DEF Typing
  <1>1. CASE at = "xsio"
    <2>1. modem' = [modem EXCEPT !.xsio = conf.xsio] /\ conf.xsio \in {"1", "2"}
      BY <1>1, CommandFacts DEF Accepted
    <2>2. QED
      BY <1>0, <1>1, <2>1 DEF Modems
  <1>2. CASE at \in {"trace", "trace0"}
    <2>1. PICK v \in {"0", "1"} : v = Command(at, conf)
      BY <1>2, CommandFacts
    <2>2. modem' = [modem EXCEPT !.trace = v]
      BY <1>2, <2>1 DEF Accepted
    <2>3. QED
      BY <1>0, <1>2, <2>1, <2>2, CommandFacts DEF Modems
  <1>3. CASE at \notin {"xsio", "trace", "trace0"}
    BY <1>0, <1>3 DEF Accepted
  <1>4. QED
    BY <1>1, <1>2, <1>3

\* The services, after stopServices and startService.
LEMMA MtsFacts ==
  ASSUME mts \in Services
  PROVE  /\ Stopped \in Services /\ Stopped.persistent = FALSE /\ Stopped.params = mts.params
         /\ \A p \in {None, -1} \cup Indexes :
              /\ [Stopped EXCEPT !.params = p] \in Services
              /\ [Stopped EXCEPT !.params = p].persistent = FALSE
              /\ [Stopped EXCEPT !.params = p].params = p
         /\ \A mode \in Modes :
              /\ Started(mode) \in Services /\ Started(mode).params = mts.params
              /\ Started(mode).persistent = (mts.persistent \/ mode = "persistent")
              /\ mode = "oneshot" => Started(mode).oneshot
              /\ mode = "" => Started(mode) = mts
  <1>1. Stopped \in Services /\ Stopped.persistent = FALSE /\ Stopped.params = mts.params
    BY DEF Stopped, Services
  <1>2. ASSUME NEW mode \in Modes
        PROVE  /\ Started(mode) \in Services /\ Started(mode).params = mts.params
               /\ Started(mode).persistent = (mts.persistent \/ mode = "persistent")
               /\ mode = "oneshot" => Started(mode).oneshot
               /\ mode = "" => Started(mode) = mts
    <2>1. CASE mode = "persistent"
      BY <2>1 DEF Started, Services
    <2>2. CASE mode = "oneshot"
      BY <2>2 DEF Started, Services
    <2>3. CASE mode = ""
      BY <2>3 DEF Started, Services
    <2>4. QED
      BY <2>1, <2>2, <2>3 DEF Modes
  <1>3. ASSUME NEW p \in {None, -1} \cup Indexes
        PROVE  /\ [Stopped EXCEPT !.params = p] \in Services
               /\ [Stopped EXCEPT !.params = p].persistent = FALSE
               /\ [Stopped EXCEPT !.params = p].params = p
    BY <1>1 DEF Services
  <1>4. QED
    BY <1>1, <1>2, <1>3

\* An answer.
LEMMA ReplyFacts ==
  ASSUME NEW to \in {"task"} \cup Questions, NEW ok \in BOOLEAN, NEW says \in {"", "0", "1", "2"}
  PROVE  /\ Answer(to, ok, says) \in Replies /\ Answer(to, ok, says).to = to
         /\ Answer(to, ok, says).ok = ok /\ Answer(to, ok, says).says = says
  BY DEF Answer, Replies
-----------------------------------------------------------------------------
(* The end of the process, and an exception.                               *)

\* When the process ends nothing is left but the modem, the preferences and mts.
LEMMA EndsFacts ==
  ASSUME Typing, ProcessEnds
  PROVE  /\ Typing' /\ Holding' /\ Waiting' /\ Forgotten'
         /\ answers' = <<>> /\ ui' = NoCheck /\ task' = NoTask /\ modem' = modem
         /\ prefs' = prefs /\ mts' = mts /\ (~spoiled' => ~spoiled /\ task.at = "idle")
  <1>1. /\ front' = "out" /\ connect' = "idle" /\ acquired' = FALSE /\ first' = TRUE /\ held' = 0
        /\ status' = "none" /\ tty' = FALSE /\ answers' = <<>> /\ events' = <<>> /\ msgs' = <<>>
        /\ ui' = NoCheck /\ enabled' = TRUE /\ task' = NoTask
        /\ spoiled' = (spoiled \/ task.at # "idle")
        /\ modem' = modem /\ asked' = asked /\ prefs' = prefs /\ mts' = mts /\ expert' = expert
    BY DEF ProcessEnds, device, saved
  <1>2. ui' \in Checks /\ task' \in ConfTasks
    BY <1>1, NoCheckFacts, NoTaskFacts
  <1>3. Typing'
    <2>1. spoiled' \in BOOLEAN
      BY <1>1 DEF Typing
    <2>2. answers' \in Seq(Replies) /\ events' \in Seq(Tells)
          /\ msgs' \in Seq(Shouts)
      BY <1>1
    <2>3. QED
      BY <1>1, <1>2, <2>1, <2>2 DEF Typing, States
  <1>4. Holding'
    BY <1>1, NoCheckFacts, NoTaskFacts DEF Holding
  <1>5. Waiting'
    <2>1. /\ Len(answers') = 0 /\ task'.waits = FALSE /\ ui'.waits = FALSE
          /\ ui' = NoCheck /\ task'.at = "idle"
      BY <1>1 DEF NoCheck, NoTask
    <2>2. Len(answers') <= Count(task'.waits, ui'.waits)
      BY <2>1 DEF Count
    <2>3. QED
      BY <2>1, <2>2 DEF Waiting, NoCheck
  <1>6. Forgotten'
    BY <1>1, NoTaskFacts DEF Forgotten, Rollback
  <1>7. QED
    BY <1>1, <1>3, <1>4, <1>5, <1>6

\* Nothing that the argument needs is lost with the process.
LEMMA EndsClean ==
  ASSUME Typing, ProcessEnds, ~spoiled => Clean
  PROVE  ~spoiled' => Clean'
  <1>1. SUFFICES ASSUME ~spoiled' PROVE Clean'
    OBVIOUS
  <1>2. Clean /\ task.at = "idle"
    BY <1>1, EndsFacts
  <1>3. Answered'
    BY EndsFacts, NoTaskFacts, NoCheckFacts DEF Answered
  <1>4. Checked'
    BY EndsFacts, NoCheckFacts DEF Checked
  <1>5. Applied' /\ Stopping'
    BY EndsFacts, NoTaskFacts DEF Applied, Stopping, Forward, Rollback
  <1>6. Stored'
    BY <1>2, EndsFacts DEF Clean, Stored, HasOutput, HasMts
  <1>7. QED
    BY <1>3, <1>4, <1>5, <1>6 DEF Clean

\* A task that throws rolls back, or ends a rollback.
LEMMA ThrowsFacts ==
  ASSUME Typing, Throws, task.at # "idle"
  PROVE  /\ task' \in ConfTasks /\ task'.waits = FALSE
         /\ prefs' \in Stores
         /\ mts' = mts /\ expert' = expert
         /\ \/ task' = NoTask /\ task.at \in Rollback /\ prefs'.index = prefs.index /\ prefs'.active
            \/ task'.at = "stop" /\ task'.conf = task.conf /\ task.at \in Forward
               /\ prefs'.index = None
  <1>1. task \in ConfTasks /\ prefs \in Stores
    BY DEF Typing
  <1>2. mts' = mts /\ expert' = expert
    BY DEF Throws
  <1>3. CASE task.at \in Rollback
    <2>1. prefs' = [prefs EXCEPT !.active = TRUE] /\ task' = NoTask
      BY <1>3 DEF Throws, Rollback
    <2>2. QED
      BY <1>1, <1>2, <1>3, <2>1, NoTaskFacts DEF Stores
  <1>4. CASE task.at \notin Rollback
    <2>1. prefs' = [prefs EXCEPT !.index = None]
          /\ task' = [task EXCEPT !.at = "stop", !.waits = FALSE]
      BY <1>4 DEF Throws, Rollback
    <2>2. task.at \in Forward /\ "stop" \in Ats
      BY <1>1, <1>4, ConfTaskFacts DEF Ats, Rollback
    <2>3. task' \in ConfTasks /\ task'.waits = FALSE /\ task'.at = "stop" /\ task'.conf = task.conf
      BY <1>1, <2>1, <2>2, ConfTaskFacts
    <2>4. prefs' \in Stores /\ prefs'.index = None
      BY <1>1, <2>1 DEF Stores
    <2>5. QED
      BY <1>2, <2>2, <2>3, <2>4
  <1>5. QED
    BY <1>3, <1>4

\* What sendAtCommand puts in the tty, and what a read takes.
LEMMA AnswersFacts ==
  ASSUME Typing, NEW r \in Replies
  PROVE  /\ Append(answers, r) \in Seq(Replies) /\ Len(Append(answers, r)) = Len(answers) + 1
         /\ answers = <<>> => Append(answers, r)[1] = r
  BY AppendFacts DEF Typing

\* The oldest answer.
LEMMA FirstAnswer ==
  ASSUME Typing, answers # <<>>
  PROVE  /\ Tail(answers) \in Seq(Replies) /\ Len(answers) >= 1
         /\ Len(Tail(answers)) = Len(answers) - 1
         /\ Head(answers) = answers[1] /\ answers[1] \in Replies
  <1>1. answers \in Seq(Replies)
    BY DEF Typing
  <1>2. QED
    BY <1>1, TailFacts, LenProperties, ElementOfSeq
-----------------------------------------------------------------------------
(* Typing.                                                                 *)

\* Types: the steps of the task,
LEMMA TaskTyping ==
  ASSUME Typing, Waiting, DoInBackground
  PROVE  Typing'
  <1>0. /\ task \in ConfTasks /\ answers \in Seq(Replies)
        /\ modem \in Modems
        /\ prefs \in Stores
        /\ mts \in Services /\ task.conf \in ModemConfs /\ task.waits \in BOOLEAN
    BY ConfTaskFacts DEF Typing
  <1>1. CASE Skip
    <2>1. task' \in ConfTasks
      BY <1>0, <1>1, ConfTaskFacts, AtFacts DEF Skip
    <2>2. QED
      BY <1>1, <2>1 DEF Skip, Typing, device, link, screen, saved
  <1>2. CASE Send
    <2>1. CASE Throws /\ UNCHANGED <<device, events, link, app, screen, spoiled, inputs>>
      <3>1. task.at # "idle"
        BY <1>2, AtFacts DEF Send
      <3>2. QED
        BY <2>1, <3>1, ThrowsFacts DEF Typing, device, link, screen
    <2>2. CASE ProcessEnds
      BY <2>2, EndsFacts
    <2>3. CASE status = "up" /\ tty /\ modem.up
      <3>1. task.at \in Sends /\ Command(task.at, task.conf) # "" /\ task' = [task EXCEPT !.waits = TRUE]
            /\ spoiled' = (spoiled \/ ui.at # "idle")
            /\ UNCHANGED <<asked, events, status, tty, screen, saved>>
        BY <1>2, <2>3 DEF Send, Throws, ProcessEnds
      <3>2. modem' \in Modems
        <4>1. modem' = modem \/ modem' = Accepted(task.at, Command(task.at, task.conf))
          BY <1>2, <2>3 DEF Send
        <4>2. QED
          BY <1>0, <3>1, <4>1, AcceptedFacts
      <3>3. answers' \in Seq(Replies)
        <4>1. PICK ok \in BOOLEAN : answers' = Append(answers, Answer("task", ok, ""))
          BY <1>2, <2>3 DEF Send
        <4>2. Answer("task", ok, "") \in Replies
          BY ReplyFacts
        <4>3. QED
          BY <4>1, <4>2, AnswersFacts
      <3>4. task' \in ConfTasks
        BY <1>0, <3>1, ConfTaskFacts
      <3>5. spoiled' \in BOOLEAN
        BY <3>1 DEF Typing
      <3>6. QED
        BY <3>1, <3>2, <3>3, <3>4, <3>5 DEF Typing, screen, saved
    <2>4. QED
      BY <1>2, <2>1, <2>2, <2>3 DEF Send
  <1>3. CASE Read
    <2>0. task.waits /\ task.at # "idle"
      BY <1>3, AtFacts DEF Read, Waiting
    <2>1. CASE Throws /\ UNCHANGED <<device, events, status, tty, app, screen, spoiled, inputs>>
               /\ answers' \in Seq(Replies)
      BY <2>0, <2>1, ThrowsFacts DEF Typing, device, screen
    <2>2. CASE task' = [task EXCEPT !.at = After(task.at), !.waits = FALSE] /\ answers' \in Seq(Replies)
               /\ UNCHANGED <<device, events, status, tty, app, screen, saved, spoiled, inputs>>
      <3>1. task' \in ConfTasks
        BY <1>0, <1>3, <2>2, ConfTaskFacts, AtFacts DEF Read, Waiting
      <3>2. QED
        BY <2>2, <3>1 DEF Typing, device, screen, saved
    <2>3. CASE ProcessEnds
      BY <2>3, EndsFacts
    <2>4. answers # <<>> /\ answers' = Tail(answers) => answers' \in Seq(Replies)
      BY FirstAnswer
    <2>5. UNCHANGED link => answers' \in Seq(Replies) /\ status' = status /\ tty' = tty
      BY <1>0 DEF link
    <2>6. QED
      BY <1>3, <2>1, <2>2, <2>3, <2>4, <2>5 DEF Read
  <1>4. CASE SetMts
    <2>1. /\ task' = [task EXCEPT !.at = IF task.conf.mts # "" THEN "start" ELSE "restart"]
          /\ mts' = mts \/ mts' = [Stopped EXCEPT !.params = Params(task.conf)]
          /\ UNCHANGED <<device, events, link, screen, prefs, expert, spoiled>>
      BY <1>4 DEF SetMts
    <2>2. task' \in ConfTasks
      BY <1>0, <2>1, ConfTaskFacts DEF Ats, Forward
    <2>3. Params(task.conf) \in {None, -1} \cup Indexes
      BY <1>0, CommandFacts DEF Params, Services
    <2>4. mts' \in Services
      BY <1>0, <2>1, <2>3, MtsFacts
    <2>5. QED
      BY <2>1, <2>2, <2>4 DEF Typing, device, link, screen
  <1>5. CASE StartMts
    <2>1. task' \in ConfTasks
      BY <1>0, <1>5, ConfTaskFacts DEF StartMts, Ats, Forward
    <2>2. mts' \in Services
      BY <1>0, <1>5, MtsFacts, CommandFacts DEF StartMts
    <2>3. QED
      BY <1>5, <2>1, <2>2 DEF StartMts, Typing, device, link, screen
  <1>6. CASE Restart
    <2>1. CASE asked' = TRUE /\ task' = [task EXCEPT !.at = "commit"] /\ UNCHANGED <<saved, inputs>>
      <3>1. task' \in ConfTasks
        BY <1>0, <2>1, ConfTaskFacts DEF Ats, Forward
      <3>2. QED
        BY <1>6, <2>1, <3>1 DEF Restart, Typing, link, screen, saved
    <2>2. CASE Throws /\ UNCHANGED asked
      <3>1. task.at # "idle"
        BY <1>6 DEF Restart
      <3>2. QED
        BY <1>6, <2>2, <3>1, ThrowsFacts DEF Restart, Typing, link, screen
    <2>3. QED
      BY <1>6, <2>1, <2>2 DEF Restart
  <1>7. CASE Commit
    <2>1. prefs' \in Stores
      BY <1>0, <1>7, CommandFacts DEF Commit, Stores
    <2>2. QED
      BY <1>7, <2>1, NoTaskFacts DEF Commit, Typing, device, link, screen
  <1>8. CASE StopMts
    <2>1. task' \in ConfTasks
      BY <1>0, <1>8, ConfTaskFacts DEF StopMts, Ats, Rollback
    <2>2. QED
      BY <1>0, <1>8, <2>1, MtsFacts DEF StopMts, Typing, device, link, screen
  <1>9. CASE RestartStopped
    <2>1. CASE asked' = TRUE /\ prefs' = [prefs EXCEPT !.active = FALSE] /\ task' = NoTask
               /\ UNCHANGED <<mts, expert, inputs>>
      <3>1. prefs' \in Stores
        BY <1>0, <2>1 DEF Stores
      <3>2. QED
        BY <1>9, <2>1, <3>1, NoTaskFacts DEF RestartStopped, Typing, link, screen
    <2>2. CASE Throws /\ UNCHANGED asked
      <3>1. task.at # "idle"
        BY <1>9 DEF RestartStopped
      <3>2. QED
        BY <1>9, <2>2, <3>1, ThrowsFacts DEF RestartStopped, Typing, link, screen
    <2>3. QED
      BY <1>9, <2>1, <2>2 DEF RestartStopped
  <1>10. QED
    BY <1>1, <1>2, <1>3, <1>4, <1>5, <1>6, <1>7, <1>8, <1>9 DEF DoInBackground

\* of the main thread,
LEMMA ThreadTyping ==
  ASSUME Typing, Waiting, MainThread \/ Check
  PROVE  Typing'
  <1>0. /\ ui \in Checks /\ answers \in Seq(Replies) /\ msgs \in Seq(Shouts) /\ modem \in Modems
        /\ mts \in Services /\ task.waits \in BOOLEAN
    BY ConfTaskFacts DEF Typing
  <1>1. BeginCheck => ui' \in Checks
    BY NoCheckFacts DEF BeginCheck
  <1>2. CASE Receive
    <2>1. msgs' \in Seq(Shouts)
      BY <1>0, <1>2, TailFacts DEF Receive
    <2>2. ui' \in Checks /\ enabled' \in BOOLEAN
      BY <1>1, <1>2 DEF Receive, Typing
    <2>3. QED
      BY <1>2, <2>1, <2>2 DEF Receive, Typing, device, link, saved, job
  <1>3. CASE Check
    <2>1. ui' \in Checks /\ enabled' \in BOOLEAN
      BY <1>1, <1>3 DEF Check, Typing
    <2>2. QED
      BY <1>3, <2>1 DEF Check, Typing, device, link, saved, job
  <1>4. CASE Ask
    <2>1. CASE ui' = NoCheck /\ UNCHANGED <<answers, task, spoiled, device, events, status, tty,
                                            msgs, enabled, saved>>
      BY <2>1, NoCheckFacts DEF Typing, device, saved
    <2>2. CASE ProcessEnds
      BY <2>2, EndsFacts
    <2>3. CASE /\ \E says : answers' = Append(answers, Answer(ui.at, TRUE, says))
                            /\ says \in {"", "0", "1", "2"}
               /\ ui' = [ui EXCEPT !.waits = TRUE] /\ spoiled' = (spoiled \/ task.waits)
               /\ UNCHANGED <<device, events, status, tty, msgs, enabled, saved, task>>
      <3>1. answers' \in Seq(Replies)
        <4>1. PICK says \in {"", "0", "1", "2"} : answers' = Append(answers, Answer(ui.at, TRUE, says))
          BY <2>3
        <4>2. Answer(ui.at, TRUE, says) \in Replies
          BY <1>4, ReplyFacts DEF Ask, Questions
        <4>3. QED
          BY <4>1, <4>2, AnswersFacts
      <3>2. ui' \in Checks
        BY <1>0, <2>3, UiFacts
      <3>3. spoiled' \in BOOLEAN
        BY <1>0, <2>3 DEF Typing
      <3>4. QED
        BY <2>3, <3>1, <3>2, <3>3 DEF Typing, device, saved
    <2>4. modem.xsio \in {"", "0", "1", "2"} /\ modem.trace \in {"", "0", "1", "2"}
      BY ModemFacts
    <2>5. QED
      BY <1>4, <2>1, <2>2, <2>3, <2>4 DEF Ask
  <1>5. CASE Hear
    <2>0. ui.waits /\ ui.at \in Questions
      BY <1>5 DEF Hear, Waiting
    <2>1. CASE answers # <<>> /\ answers' = Tail(answers)
               /\ UNCHANGED <<device, events, status, tty, msgs, enabled, saved, job>>
               /\ (ui' = NoCheck \/ \E says \in {"", "0", "1", "2"} :
                     ui' = [ui EXCEPT !.at = NextQuestion(ui.at), !.waits = FALSE,
                                      !.xsio = IF ui.at = "xsio" THEN says ELSE @,
                                      !.trace = IF ui.at = "trace" THEN says ELSE @])
      <3>1. NextQuestion(ui.at) \in {"update"} \cup Questions
        BY <2>0 DEF NextQuestion, Questions
      <3>2. ui' \in Checks
        <4>1. CASE ui' = NoCheck
          BY <4>1, NoCheckFacts
        <4>2. CASE ui' # NoCheck
          <5>1. PICK says \in {"", "0", "1", "2"} :
                  ui' = [ui EXCEPT !.at = NextQuestion(ui.at), !.waits = FALSE,
                                   !.xsio = IF ui.at = "xsio" THEN says ELSE @,
                                   !.trace = IF ui.at = "trace" THEN says ELSE @]
            BY <2>1, <4>2
          <5>2. PICK x \in {"", "0", "1", "2"} : x = IF ui.at = "xsio" THEN says ELSE ui.xsio
            BY <1>0, UiFacts
          <5>3. PICK t \in {"", "0", "1", "2"} : t = IF ui.at = "trace" THEN says ELSE ui.trace
            BY <1>0, UiFacts
          <5>4. PICK a \in {"update"} \cup Questions : a = NextQuestion(ui.at)
            BY <3>1
          <5>5. ui' = [ui EXCEPT !.at = a, !.waits = FALSE, !.xsio = x, !.trace = t]
            BY <5>1, <5>2, <5>3, <5>4
          <5>6. QED
            BY <1>0, <5>5 DEF Checks
        <4>3. QED
          BY <4>1, <4>2
      <3>3. answers' \in Seq(Replies)
        BY <2>1, FirstAnswer
      <3>4. QED
        BY <2>1, <3>2, <3>3 DEF Typing, device, saved, job
    <2>2. CASE ProcessEnds
      BY <2>2, EndsFacts
    <2>3. CASE ui' = NoCheck /\ UNCHANGED <<device, events, link, msgs, enabled, saved, job>>
      BY <2>3, NoCheckFacts DEF Typing, device, link, saved, job
    <2>4. answers # <<>> => Head(answers).says \in {"", "0", "1", "2"}
      BY FirstAnswer DEF Replies
    <2>5. QED
      BY <1>5, <2>1, <2>2, <2>3, <2>4 DEF Hear
  <1>6. CASE UpdateUi
    <2>1. CASE ProcessEnds
      BY <2>1, EndsFacts
    <2>2. CASE /\ mts' = IF ui.trace = "0" THEN Stopped ELSE mts
               /\ expert' = (expert /\ (prefs.index >= 0 \/ ui.trace # "0"))
               /\ enabled' = TRUE /\ ui' = NoCheck
               /\ UNCHANGED <<device, events, link, msgs, prefs, job>>
      <3>1. mts' \in Services
        BY <1>0, <2>2, MtsFacts
      <3>2. expert' \in BOOLEAN
        BY <2>2 DEF Typing
      <3>3. QED
        BY <2>2, <3>1, <3>2, NoCheckFacts DEF Typing, device, link, job
    <2>3. QED
      BY <1>6, <2>1, <2>2 DEF UpdateUi
  <1>7. QED
    BY <1>2, <1>3, <1>4, <1>5, <1>6 DEF MainThread

\* and the others.
LEMMA RestTyping ==
  ASSUME Typing, Waiting,
         \/ Apply \/ GoesDown \/ ComesUp \/ OnModemEvent \/ DropAnswer
         \/ Launch \/ Acquire \/ SetAcquired \/ SetFirst \/ Pause \/ Resume \/ Leave
  PROVE  Typing'
  <1>0. /\ events \in Seq(Tells) /\ answers \in Seq(Replies) /\ msgs \in Seq(Shouts)
        /\ modem \in Modems /\ <<>> \in Seq(Replies) /\ <<>> \in Seq(Tells)
    BY DEF Typing
  <1>1. CASE Apply
    <2>1. PICK conf \in {OutputConf(i) : i \in Indexes} \cup Experts \cup {StopConf, MasterConf} :
            /\ task' = [at |-> "xsio", waits |-> FALSE, conf |-> conf]
            /\ expert' = IF conf = MasterConf THEN expert ELSE conf \in Experts
            /\ spoiled' = (spoiled /\ conf = MasterConf)
      BY <1>1 DEF Apply
    <2>2. conf \in ModemConfs
      <3>1. CASE conf \in {OutputConf(i) : i \in Indexes}
        BY <3>1, ConfFacts
      <3>2. CASE conf \in Experts
        BY <3>2, IndexFacts
      <3>3. CASE conf \in {StopConf, MasterConf}
        BY <3>3, ConfFacts
      <3>4. QED
        BY <2>1, <3>1, <3>2, <3>3
    <2>3. task' \in ConfTasks
      BY <2>1, <2>2 DEF ConfTasks, Forward
    <2>4. expert' \in BOOLEAN /\ spoiled' \in BOOLEAN
      <3>1. expert \in BOOLEAN /\ spoiled \in BOOLEAN
        BY DEF Typing
      <3>2. CASE conf = MasterConf
        BY <2>1, <3>1, <3>2
      <3>3. CASE conf # MasterConf
        BY <2>1, <3>1, <3>3
      <3>4. QED
        BY <3>2, <3>3
    <2>5. QED
      BY <1>1, <2>3, <2>4 DEF Apply, Typing, device, link, screen
  <1>2. CASE GoesDown \/ ComesUp
    <2>1. modem' \in Modems
      BY <1>0, <1>2 DEF GoesDown, ComesUp, Modems
    <2>2. events' \in Seq(Tells)
      <3>1. events' = events \/ \E e \in Tells : events' = Append(events, e)
        BY <1>2 DEF GoesDown, ComesUp, Tells
      <3>2. \A e \in Tells : Append(events, e) \in Seq(Tells)
        BY <1>0, AppendFacts
      <3>3. QED
        BY <1>0, <3>1, <3>2
    <2>3. asked' \in BOOLEAN /\ answers' \in Seq(Replies)
      BY <1>0, <1>2 DEF GoesDown, ComesUp, Typing, link
    <2>4. QED
      BY <1>2, <2>1, <2>2, <2>3 DEF GoesDown, ComesUp, Typing, link, screen, saved, job
  <1>3. CASE OnModemEvent
    <2>1. events' \in Seq(Tells) /\ status' \in States
      BY <1>0, <1>3, TailFacts DEF OnModemEvent, Tells, States
    <2>2. tty' \in BOOLEAN /\ msgs' \in Seq(Shouts)
      <3>1. tty' \in BOOLEAN /\ (msgs' = msgs \/ \E m \in Shouts : msgs' = Append(msgs, m))
        BY <1>3 DEF OnModemEvent, Typing, Shouts
      <3>2. \A m \in Shouts : Append(msgs, m) \in Seq(Shouts)
        BY <1>0, AppendFacts
      <3>3. QED
        BY <1>0, <3>1, <3>2
    <2>3. QED
      BY <1>3, <2>1, <2>2 DEF OnModemEvent, Typing, device, saved, job
  <1>4. CASE DropAnswer
    <2>1. answers' \in Seq(Replies)
      BY <1>4, FirstAnswer DEF DropAnswer
    <2>2. QED
      BY <1>4, <2>1 DEF DropAnswer, Typing, device, screen, saved, job
  <1>5. CASE Launch
    <2>1. events' \in Seq(Tells)
      <3>1. <<"up">> = Append(<<>>, "up") /\ "up" \in Tells
        BY DEF Tells
      <3>2. <<"up">> \in Seq(Tells)
        BY <1>0, <3>1, AppendFacts
      <3>3. QED
        BY <1>0, <1>5, <3>2 DEF Launch
    <2>2. QED
      BY <1>5, <2>1 DEF Launch, Typing, device, link, screen, saved, job
  <1>6. CASE Acquire \/ SetAcquired \/ SetFirst
    BY <1>6 DEF Acquire, SetAcquired, SetFirst, Typing, device, link, screen, saved, job
  <1>7. CASE Pause
    BY <1>7 DEF Pause, Typing, device, screen, saved, job
  <1>8. CASE Resume
    <2>1. tty' \in BOOLEAN /\ answers' \in Seq(Replies)
      BY <1>0, <1>8 DEF Resume, ResumeIf, Typing
    <2>2. QED
      BY <1>8, <2>1 DEF Resume, ResumeIf, Typing, device, screen, saved, job
  <1>9. CASE Leave
    BY <1>9, EndsFacts DEF Leave
  <1>10. QED
    BY <1>1, <1>2, <1>3, <1>4, <1>5, <1>6, <1>7, <1>8, <1>9

\* Every step keeps the types.
LEMMA TypingStep == Typing /\ Waiting /\ [Next]_vars => Typing'
  <1> SUFFICES ASSUME Typing, Waiting, [Next]_vars PROVE Typing'
    OBVIOUS
  <1>1. CASE UNCHANGED vars
    BY <1>1 DEF vars, Typing, device, link, screen, saved, job
  <1>2. CASE Next
    BY <1>2, TaskTyping, ThreadTyping, RestTyping DEF Next
  <1>3. QED
    BY <1>1, <1>2
-----------------------------------------------------------------------------
(* The modem is held, and who waits.                                       *)


\* acquireModem and releaseModem go on taking turns.
LEMMA HoldingStep == Typing /\ Waiting /\ Holding /\ [Next]_vars => Holding'
  <1> SUFFICES ASSUME Typing, Waiting, Holding, [Next]_vars PROVE Holding'
    OBVIOUS
  <1>1. ASSUME UNCHANGED app, front # "out" \/ (task' = task /\ ui' = ui)
        PROVE  Holding'
    BY <1>1 DEF Holding, app
  <1>2. ProcessEnds => Holding'
    BY EndsFacts
  <1>3. CASE UNCHANGED vars
    BY <1>1, <1>3 DEF vars, screen, job
  <1>4. CASE DoInBackground
    <2>1. task.at # "idle"
      BY <1>4, AtFacts
         DEF DoInBackground, Skip, Send, Read, SetMts, StartMts, Restart, Commit, StopMts,
             RestartStopped, Waiting
    <2>2. front # "out"
      BY <2>1 DEF Holding
    <2>3. UNCHANGED app \/ ProcessEnds
      BY <1>4 DEF DoInBackground, Skip, Send, Read, SetMts, StartMts, Restart, Commit, StopMts,
                  RestartStopped
    <2>4. QED
      BY <1>1, <1>2, <2>2, <2>3
  <1>5. CASE MainThread \/ Check \/ Apply
    <2>1. front # "out"
      BY <1>5 DEF MainThread, Receive, Ask, Hear, UpdateUi, Check, Apply, Holding, Waiting, Questions
    <2>2. UNCHANGED app \/ ProcessEnds
      BY <1>5 DEF MainThread, Receive, Ask, Hear, UpdateUi, Check, Apply
    <2>3. QED
      BY <1>1, <1>2, <2>1, <2>2
  <1>6. CASE GoesDown \/ ComesUp \/ OnModemEvent \/ DropAnswer
    BY <1>1, <1>6 DEF GoesDown, ComesUp, OnModemEvent, DropAnswer, screen, job
  <1>7. CASE Launch
    BY <1>7 DEF Launch, Holding, screen, job
  <1>8. CASE Acquire
    BY <1>8 DEF Acquire, Holding, screen, job
  <1>9. CASE SetAcquired
    BY <1>9 DEF SetAcquired, Holding, screen, job
  <1>10. CASE SetFirst
    BY <1>10 DEF SetFirst, Holding, screen, job
  <1>11. CASE Pause
    <2>0. acquired \in BOOLEAN /\ front = "resumed" /\ front' = "paused" /\ UNCHANGED <<connect, first>>
      BY <1>11 DEF Pause, Holding
    <2>1. CASE acquired /\ acquired' = FALSE /\ held' = held - 1
      <3>1. connect \in {"first", "done"} /\ held = 1
        BY <2>1 DEF Holding
      <3>2. held' = 0
        BY <2>1, <3>1
      <3>3. QED
        BY <2>0, <2>1, <3>1, <3>2 DEF Holding
    <2>2. CASE ~acquired /\ acquired' = FALSE /\ held' = held
      BY <2>0, <2>2 DEF Holding
    <2>3. CASE acquired /\ UNCHANGED <<acquired, held>>
      BY <2>0, <2>3 DEF Holding
    <2>4. QED
      BY <1>11, <2>0, <2>1, <2>2, <2>3 DEF Pause
  <1>12. CASE Resume
    <2>0. /\ acquired \in BOOLEAN /\ first \in BOOLEAN /\ front = "paused" /\ front' = "resumed"
          /\ UNCHANGED <<connect, first>>
      BY <1>12 DEF Resume, ResumeIf, Holding
    <2>1. CASE ~acquired /\ ~first
      <3>1. acquired' = TRUE /\ held' = held + 1
        BY <1>12, <2>1 DEF Resume, ResumeIf
      <3>2. connect \in {"first", "done"} /\ held = 0
        BY <2>1 DEF Holding
      <3>3. QED
        BY <2>0, <2>1, <3>1, <3>2 DEF Holding
    <2>2. CASE ~(~acquired /\ ~first)
      <3>1. acquired' = acquired /\ held' = held
        BY <1>12, <2>0, <2>2 DEF Resume, ResumeIf
      <3>2. QED
        BY <2>0, <3>1 DEF Holding
    <2>3. QED
      BY <2>1, <2>2
  <1>13. CASE Leave
    BY <1>2, <1>13 DEF Leave
  <1>14. QED
    BY <1>3, <1>4, <1>5, <1>6, <1>7, <1>8, <1>9, <1>10, <1>11, <1>12, <1>13 DEF Next


\* How many answers are waited for.
LEMMA CountFacts ==
  ASSUME NEW s \in Nat, NEW p \in BOOLEAN, NEW q \in BOOLEAN, s <= Count(p, q)
  PROVE  /\ p = FALSE /\ q = FALSE => s = 0
         /\ p = FALSE => s + 1 <= Count(TRUE, q) /\ s <= Count(FALSE, q)
         /\ q = FALSE => s + 1 <= Count(p, TRUE) /\ s <= Count(p, FALSE)
         /\ p = TRUE => s - 1 <= Count(FALSE, q)
         /\ q = TRUE => s - 1 <= Count(p, FALSE)
         /\ s - 1 <= Count(p, q) /\ 0 <= Count(p, q)
         /\ 0 <= Count(FALSE, q) /\ 0 <= Count(p, FALSE)
  <1>1. CASE p = TRUE /\ q = TRUE
    BY <1>1 DEF Count
  <1>2. CASE p = TRUE /\ q = FALSE
    BY <1>2 DEF Count
  <1>3. CASE p = FALSE /\ q = TRUE
    BY <1>3 DEF Count
  <1>4. CASE p = FALSE /\ q = FALSE
    BY <1>4 DEF Count
  <1>5. QED
    BY <1>1, <1>2, <1>3, <1>4

\* The steps that leave the answers alone, or take the first one.
LEMMA WaitingStep == Typing /\ Waiting /\ [Next]_vars => Waiting'
  <1> SUFFICES ASSUME Typing, Waiting, [Next]_vars PROVE Waiting'
    OBVIOUS
  <1> DEFINE w == task.waits
             u == ui.waits
             TaskOK == task.waits => task.at \in Sends /\ Command(task.at, task.conf) # ""
             UiOK   == (ui.waits => ui.at \in Questions) /\ (ui.at = "idle" => ui = NoCheck)
             CountOK == Len(answers) <= Count(task.waits, ui.waits)
  <1>0. /\ TaskOK /\ UiOK /\ CountOK /\ Len(answers) \in Nat /\ w \in BOOLEAN /\ u \in BOOLEAN
        /\ answers \in Seq(Replies) /\ task \in ConfTasks /\ ui \in Checks
    BY ConfTaskFacts, UiFacts, LenProperties, ElementOfSeq DEF Waiting, Typing
  <1>1. TaskOK' /\ UiOK' /\ CountOK' => Waiting'
    BY DEF Waiting
  <1>2. PICK s \in Nat : s = Len(answers)
    BY <1>0
  <1>3. s <= Count(w, u)
    BY <1>0, <1>2
  <1>4. w \in BOOLEAN /\ u \in BOOLEAN /\ s \in Nat /\ s <= Count(w, u)
    BY <1>0, <1>3
  <1>5. UNCHANGED answers => Len(answers') = s
    BY <1>2
  <1>6. answers # <<>> /\ answers' = Tail(answers) => Len(answers') = s - 1 /\ s >= 1
    BY <1>2, FirstAnswer
  <1>7. answers' = <<>> => Len(answers') = 0
    OBVIOUS
  <1>8. \A r \in Replies : answers' = Append(answers, r) => Len(answers') = s + 1
    BY <1>2, AnswersFacts
  \* What a step does to the count.
  <1>9. ASSUME task' = task, ui' = ui,
               UNCHANGED answers \/ (answers # <<>> /\ answers' = Tail(answers)) \/ answers' = <<>>
        PROVE  Waiting'
    <2>1. Len(answers') \in {s, s - 1, 0}
      BY <1>5, <1>6, <1>7, <1>9
    <2>2. s <= Count(w, u) /\ s - 1 <= Count(w, u) /\ 0 <= Count(w, u)
      BY <1>4, CountFacts
    <2>3. Len(answers') <= Count(w, u)
      BY <2>1, <2>2
    <2>4. CountOK'
      BY <1>9, <2>3
    <2>5. QED
      BY <1>0, <1>1, <1>9, <2>4
  <1>10. ASSUME w = FALSE, task'.waits = FALSE, ui' = ui, UNCHANGED answers
         PROVE  Waiting'
    <2>1. CountOK'
      BY <1>4, <1>5, <1>10, CountFacts
    <2>2. QED
      BY <1>0, <1>1, <1>10, <2>1
  <1>11. ASSUME u = FALSE, ui'.waits = FALSE, task' = task, UNCHANGED answers,
                ui'.at = "idle" => ui' = NoCheck
         PROVE  Waiting'
    <2>1. CountOK'
      BY <1>4, <1>5, <1>11, CountFacts
    <2>2. QED
      BY <1>0, <1>1, <1>11, <2>1
  <1>12. ProcessEnds => Waiting'
    BY EndsFacts
  <1>13. CASE UNCHANGED vars
    BY <1>9, <1>13 DEF vars, link, screen, job
  <1>14. CASE Skip
    BY <1>0, <1>10, <1>14, ConfTaskFacts, AtFacts DEF Skip, link, screen
  <1>15. CASE Send
    <2>0. task.at \in Sends /\ w = FALSE /\ task.at # "idle" /\ Command(task.at, task.conf) # ""
      BY <1>0, <1>15, AtFacts DEF Send
    <2>1. CASE Throws /\ UNCHANGED <<link, screen>>
      BY <1>10, <2>0, <2>1, ThrowsFacts DEF link, screen
    <2>2. CASE task' = [task EXCEPT !.waits = TRUE] /\ UNCHANGED screen
               /\ \E ok \in BOOLEAN : answers' = Append(answers, Answer("task", ok, ""))
      <3>1. task'.waits = TRUE /\ task'.at = task.at /\ task'.conf = task.conf /\ ui' = ui
        BY <1>0, <2>2, ConfTaskFacts DEF screen
      <3>2. Len(answers') = s + 1
        <4>1. PICK ok \in BOOLEAN : answers' = Append(answers, Answer("task", ok, ""))
          BY <2>2
        <4>2. Answer("task", ok, "") \in Replies
          BY ReplyFacts
        <4>3. QED
          BY <1>8, <4>1, <4>2
      <3>3. CountOK'
        <4>1. s + 1 <= Count(TRUE, u)
          BY <1>4, <2>0, CountFacts
        <4>2. QED
          BY <3>1, <3>2, <4>1
      <3>4. QED
        BY <1>0, <1>1, <2>0, <3>1, <3>3
    <2>3. QED
      BY <1>12, <1>15, <2>1, <2>2 DEF Send
  <1>16. CASE Read
    <2>0. w = TRUE /\ task.at \in Sends /\ task.at # "idle"
      BY <1>0, <1>16, AtFacts DEF Read
    <2>1. ASSUME task'.waits = FALSE, UNCHANGED ui, Len(answers') = s - 1 \/ Len(answers') = 0
          PROVE  Waiting'
      <3>1. CountOK'
        <4>1. s - 1 <= Count(FALSE, u) /\ 0 <= Count(FALSE, u)
          BY <1>4, <2>0, CountFacts
        <4>2. QED
          BY <2>1, <4>1
      <3>2. QED
        BY <1>0, <1>1, <2>1, <3>1
    <2>2. CASE Throws /\ UNCHANGED screen
               /\ ((answers # <<>> /\ answers' = Tail(answers)) \/ answers' = <<>>)
      BY <1>6, <1>7, <2>0, <2>1, <2>2, ThrowsFacts DEF screen
    <2>3. CASE task' = [task EXCEPT !.at = After(task.at), !.waits = FALSE] /\ UNCHANGED screen
               /\ answers # <<>> /\ answers' = Tail(answers)
      BY <1>0, <1>6, <2>0, <2>1, <2>3, ConfTaskFacts, AtFacts DEF screen
    <2>4. QED
      BY <1>12, <1>16, <2>2, <2>3 DEF Read, link
  <1>17. CASE SetMts \/ StartMts \/ Restart \/ Commit \/ StopMts \/ RestartStopped
    <2>1. w = FALSE /\ task.at # "idle"
      BY <1>0, <1>17 DEF SetMts, StartMts, Restart, Commit, StopMts, RestartStopped, Sends
    <2>2. UNCHANGED <<answers, ui>>
      BY <1>17 DEF SetMts, StartMts, Restart, Commit, StopMts, RestartStopped, link, screen
    <2>3. \/ Throws \/ task' = NoTask
          \/ \E at \in Ats : task' = [task EXCEPT !.at = at]
      BY <1>17 DEF SetMts, StartMts, Restart, Commit, StopMts, RestartStopped, Ats, Forward, Rollback
    <2>4. task'.waits = FALSE
      BY <1>0, <2>1, <2>3, ThrowsFacts, NoTaskFacts, ConfTaskFacts
    <2>5. QED
      BY <1>10, <2>1, <2>2, <2>4
  <1>18. CASE Apply
    <2>1. w = FALSE /\ UNCHANGED <<answers, ui>> /\ task'.waits = FALSE
      <3>1. w = FALSE
        BY <1>0, <1>18, AtFacts DEF Apply
      <3>2. UNCHANGED <<answers, ui>>
        BY <1>18 DEF Apply, link, screen
      <3>3. PICK conf : task' = [at |-> "xsio", waits |-> FALSE, conf |-> conf]
        BY <1>18 DEF Apply
      <3>4. QED
        BY <3>1, <3>2, <3>3
    <2>2. QED
      BY <1>10, <2>1
  <1>19. CASE Receive \/ Check
    <2>1. u = FALSE
      BY <1>0, <1>19 DEF Receive, Check, Questions
    <2>2. UNCHANGED answers /\ task' = task /\ (ui' = ui \/ BeginCheck)
      BY <1>19 DEF Receive, Check, link, job
    <2>3. ui'.waits = FALSE /\ (ui'.at = "idle" => ui' = NoCheck)
      BY <1>0, <2>1, <2>2, NoCheckFacts DEF BeginCheck
    <2>4. QED
      BY <1>11, <2>1, <2>2, <2>3
  <1>20. CASE Ask
    <2>0. u = FALSE /\ ui.at \in Questions /\ ui.at # "idle"
      BY <1>0, <1>20 DEF Ask, Questions
    <2>1. CASE ui' = NoCheck /\ UNCHANGED <<answers, task>>
      BY <1>11, <2>0, <2>1, NoCheckFacts
    <2>2. CASE ui' = [ui EXCEPT !.waits = TRUE] /\ task' = task
               /\ \E says \in {"", "0", "1", "2"} : answers' = Append(answers, Answer(ui.at, TRUE, says))
      <3>1. ui'.waits = TRUE /\ ui'.at = ui.at
        BY <1>0, <2>2, UiFacts
      <3>2. Len(answers') = s + 1
        <4>1. PICK says \in {"", "0", "1", "2"} : answers' = Append(answers, Answer(ui.at, TRUE, says))
          BY <2>2
        <4>2. Answer(ui.at, TRUE, says) \in Replies
          BY <2>0, ReplyFacts
        <4>3. QED
          BY <1>8, <4>1, <4>2
      <3>3. CountOK'
        <4>1. s + 1 <= Count(w, TRUE)
          BY <1>4, <2>0, CountFacts
        <4>2. QED
          BY <2>2, <3>1, <3>2, <4>1
      <3>4. QED
        BY <1>0, <1>1, <2>0, <2>2, <3>1, <3>3
    <2>3. modem.xsio \in {"", "0", "1", "2"} /\ modem.trace \in {"", "0", "1", "2"}
      BY ModemFacts
    <2>4. QED
      BY <1>12, <1>20, <2>1, <2>2, <2>3 DEF Ask
  <1>21. CASE Hear
    <2>0. u = TRUE /\ ui.at \in Questions
      BY <1>0, <1>21 DEF Hear
    <2>1. ASSUME ui'.waits = FALSE, ui'.at = "idle" => ui' = NoCheck, task' = task,
                 Len(answers') = s - 1 \/ Len(answers') = 0
          PROVE  Waiting'
      <3>1. CountOK'
        <4>1. s - 1 <= Count(w, FALSE) /\ 0 <= Count(w, FALSE)
          BY <1>4, <2>0, CountFacts
        <4>2. QED
          BY <2>1, <4>1
      <3>2. QED
        BY <1>0, <1>1, <2>1, <3>1
    <2>2. CASE ui' = NoCheck /\ task' = task
               /\ ((answers # <<>> /\ answers' = Tail(answers)) \/ answers' = <<>>)
      BY <1>6, <1>7, <2>1, <2>2, NoCheckFacts
    <2>3. CASE /\ answers # <<>> /\ answers' = Tail(answers) /\ task' = task
               /\ \E says : ui' = [ui EXCEPT !.at = NextQuestion(ui.at), !.waits = FALSE,
                                             !.xsio = IF ui.at = "xsio" THEN says ELSE @,
                                             !.trace = IF ui.at = "trace" THEN says ELSE @]
      <3>1. ui'.waits = FALSE /\ ui'.at = NextQuestion(ui.at)
        BY <1>0, <2>3 DEF Checks
      <3>2. NextQuestion(ui.at) # "idle"
        BY <2>0 DEF NextQuestion, Questions
      <3>3. QED
        BY <1>6, <2>1, <2>3, <3>1, <3>2
    <2>4. QED
      BY <1>12, <1>21, <2>2, <2>3 DEF Hear, job, link
  <1>22. CASE UpdateUi
    <2>1. u = FALSE
      BY <1>0, <1>22 DEF UpdateUi, Questions
    <2>2. ProcessEnds \/ (ui' = NoCheck /\ task' = task /\ UNCHANGED answers)
      BY <1>22 DEF UpdateUi, link, job
    <2>3. QED
      BY <1>11, <1>12, <2>1, <2>2, NoCheckFacts
  <1>23. CASE \/ GoesDown \/ ComesUp \/ OnModemEvent \/ DropAnswer
              \/ Launch \/ Acquire \/ SetAcquired \/ SetFirst \/ Pause \/ Resume
    <2>1. task' = task /\ ui' = ui
      BY <1>23 DEF GoesDown, ComesUp, OnModemEvent, DropAnswer, Launch, Acquire, SetAcquired,
                   SetFirst, Pause, Resume, ResumeIf, screen, job
    <2>2. UNCHANGED answers \/ (answers # <<>> /\ answers' = Tail(answers)) \/ answers' = <<>>
      BY <1>23 DEF GoesDown, ComesUp, OnModemEvent, DropAnswer, Launch, Acquire, SetAcquired,
                   SetFirst, Pause, Resume, ResumeIf, link
    <2>3. QED
      BY <1>9, <2>1, <2>2
  <1>24. CASE Leave
    BY <1>12, <1>24 DEF Leave
  <1>25. QED
    BY <1>13, <1>14, <1>15, <1>16, <1>17, <1>18, <1>19, <1>20, <1>21, <1>22, <1>23, <1>24
       DEF Next, DoInBackground, MainThread

\* A rollback has no index in the preferences, and keeps it so.
LEMMA ForgottenStep == Typing /\ Waiting /\ Forgotten /\ [Next]_vars => Forgotten'
  <1> SUFFICES ASSUME Typing, Waiting, Forgotten, [Next]_vars PROVE Forgotten'
    OBVIOUS
  <1>0. task \in ConfTasks
    BY DEF Typing
  <1>1. ProcessEnds => Forgotten'
    BY EndsFacts
  <1>2. task' = task /\ prefs' = prefs => Forgotten'
    BY DEF Forgotten
  <1>3. ASSUME Throws, task.at # "idle" PROVE Forgotten'
    BY <1>3, ThrowsFacts, NoTaskFacts DEF Forgotten, Rollback
  <1>4. ASSUME prefs' = prefs, task'.at \in Rollback => task.at \in Rollback PROVE Forgotten'
    BY <1>4 DEF Forgotten
  <1>5. CASE Skip
    BY <1>0, <1>4, <1>5, AtFacts, ConfTaskFacts DEF Skip, saved
  <1>6. CASE Send
    <2>1. task.at # "idle"
      BY <1>6, AtFacts DEF Send
    <2>2. CASE task' = [task EXCEPT !.waits = TRUE] /\ UNCHANGED saved
      BY <1>0, <1>4, <2>2, ConfTaskFacts DEF saved
    <2>3. QED
      BY <1>1, <1>3, <1>6, <2>1, <2>2 DEF Send
  <1>7. CASE Read
    <2>1. task.at \in Sends /\ task.at # "idle"
      BY <1>7, AtFacts DEF Read, Waiting
    <2>2. CASE task' = [task EXCEPT !.at = After(task.at), !.waits = FALSE] /\ UNCHANGED saved
      BY <1>0, <1>4, <2>1, <2>2, ConfTaskFacts, AtFacts DEF saved
    <2>3. QED
      BY <1>1, <1>3, <1>7, <2>1, <2>2 DEF Read
  <1>8. CASE SetMts \/ StartMts
    <2>1. PICK at \in {"start", "restart"} : task' = [task EXCEPT !.at = at]
      BY <1>8 DEF SetMts, StartMts
    <2>2. task'.at = at
      BY <1>0, <2>1, ConfTaskFacts DEF Ats, Forward
    <2>3. QED
      BY <1>4, <1>8, <2>2 DEF SetMts, StartMts, Rollback
  <1>9. CASE Restart
    <2>1. CASE Throws
      BY <1>3, <1>9, <2>1 DEF Restart
    <2>2. CASE task' = [task EXCEPT !.at = "commit"] /\ UNCHANGED saved
      BY <1>0, <1>4, <2>2, ConfTaskFacts DEF Ats, Forward, Rollback, saved
    <2>3. QED
      BY <1>9, <2>1, <2>2 DEF Restart
  <1>10. CASE Commit
    BY <1>10, NoTaskFacts DEF Commit, Forgotten, Rollback
  <1>11. CASE StopMts
    BY <1>4, <1>11 DEF StopMts, Rollback
  <1>12. CASE RestartStopped
    <2>1. CASE Throws
      BY <1>3, <1>12, <2>1 DEF RestartStopped
    <2>2. CASE task' = NoTask
      BY <2>2, NoTaskFacts DEF Forgotten, Rollback
    <2>3. QED
      BY <1>12, <2>1, <2>2 DEF RestartStopped
  <1>13. CASE Apply
    <2>1. PICK conf : task' = [at |-> "xsio", waits |-> FALSE, conf |-> conf]
      BY <1>13 DEF Apply
    <2>2. QED
      BY <1>4, <1>13, <2>1 DEF Apply, Rollback
  <1>14. CASE Receive \/ Check \/ Ask \/ Hear \/ UpdateUi
    BY <1>1, <1>2, <1>14 DEF Receive, Check, Ask, Hear, UpdateUi, saved, job
  <1>15. CASE \/ UNCHANGED vars \/ GoesDown \/ ComesUp \/ OnModemEvent \/ DropAnswer
              \/ Launch \/ Acquire \/ SetAcquired \/ SetFirst \/ Pause \/ Resume
    BY <1>2, <1>15 DEF vars, GoesDown, ComesUp, OnModemEvent, DropAnswer, Launch, Acquire,
                       SetAcquired, SetFirst, Pause, Resume, ResumeIf, saved, job
  <1>16. CASE Leave
    BY <1>1, <1>16 DEF Leave
  <1>17. QED
    BY <1>5, <1>6, <1>7, <1>8, <1>9, <1>10, <1>11, <1>12, <1>13, <1>14, <1>15, <1>16
       DEF Next, DoInBackground, MainThread
-----------------------------------------------------------------------------
(* A configuration that nobody disturbs.                                   *)

\* Then there is one answer at most, and nobody else's.
LEMMA OneAnswer ==
  ASSUME Typing, Waiting, ~(task.waits /\ ui.waits)
  PROVE  /\ answers # <<>> => Tail(answers) = <<>> /\ Head(answers) = answers[1]
         /\ ~task.waits /\ ~ui.waits => answers = <<>>
  <1>1. Len(answers) \in Nat /\ task.waits \in BOOLEAN /\ ui.waits \in BOOLEAN /\ answers \in Seq(Replies)
    BY ConfTaskFacts, UiFacts, LenProperties, ElementOfSeq DEF Typing
  <1>2. Len(answers) <= Count(task.waits, ui.waits)
    BY DEF Waiting
  <1>3. Len(answers) <= 1 /\ (~task.waits /\ ~ui.waits => Len(answers) = 0)
    BY <1>1, <1>2 DEF Count
  <1>4. answers # <<>> => Len(Tail(answers)) = 0 /\ Tail(answers) \in Seq(Replies)
    <2>1. SUFFICES ASSUME answers # <<>>
                   PROVE  Len(Tail(answers)) = 0 /\ Tail(answers) \in Seq(Replies)
      OBVIOUS
    <2>2. Len(Tail(answers)) = Len(answers) - 1 /\ Len(answers) >= 1 /\ Tail(answers) \in Seq(Replies)
      BY <2>1, FirstAnswer
    <2>3. QED
      BY <1>1, <1>3, <2>2
  <1>5. \A t \in Seq(Replies) : Len(t) = 0 => t = <<>>
    BY EmptySeq
  <1>6. QED
    BY <1>1, <1>3, <1>4, <1>5, FirstAnswer

\* What leaves the task, its output and its mts alone.
LEMMA QuietClean ==
  ASSUME Clean, modem'.xsio = modem.xsio, modem'.trace = modem.trace, mts' = mts, prefs' = prefs,
         task' = task, answers' = answers \/ answers' = <<>>,
         ui' = ui \/ (ui'.waits = FALSE /\ ui'.trace = "")
  PROVE  Clean'
  <1>1. Answered'
    BY DEF Clean, Answered, Done
  <1>2. Checked'
    BY DEF Clean, Checked
  <1>3. Applied'
    BY DEF Clean, Applied, MastersOnly, HasOutput, HasMts, OutputConf
  <1>4. Stored'
    BY DEF Clean, Stored, HasOutput, HasMts
  <1>5. Stopping'
    BY DEF Clean, Stopping
  <1>6. QED
    BY <1>1, <1>2, <1>3, <1>4, <1>5 DEF Clean

\* A command that is behind the task.
LEMMA AfterClean ==
  ASSUME Typing, Clean, task.at \in Sends,
         Done(task.at) \/ Command(task.at, task.conf) = "",
         task'.at = After(task.at), task'.waits = FALSE, task'.conf = task.conf,
         UNCHANGED <<modem, mts, prefs, ui>>, answers' = answers \/ answers' = <<>>
  PROVE  Clean'
  <1>0. task.conf \in ModemConfs
    BY ConfTaskFacts DEF Typing
  <1>1. Answered'
    BY DEF Clean, Answered
  <1>2. Checked'
    BY DEF Clean, Checked
  <1>3. Applied'
    <2>1. SUFFICES ASSUME task'.at \in Forward, task'.conf.index \in Indexes
                   PROVE  Applied'
      BY DEF Applied
    <2>2. task.at \in {"xsio", "trace", "systrace", "flush"}
      BY <2>1 DEF Sends, Forward, After
    <2>3. Applied /\ task.at \in Forward
      BY <2>2 DEF Clean, Forward
    <2>4. PICK i \in Indexes : i = task.conf.index
      BY <2>1
    <2>5. CASE MastersOnly /\ HasOutput(i) /\ HasMts(i)
      BY <2>4, <2>5 DEF Applied, MastersOnly, HasOutput, HasMts
    <2>6. CASE /\ task.conf = OutputConf(i)
               /\ task.at # "xsio" => modem.xsio = Catalog[i].xsio
               /\ task.at \notin {"xsio", "trace"} => modem.trace = "1"
      <3>1. task.conf.xsio # "" /\ task.conf.trace # "" /\ task.conf.xsio = Catalog[i].xsio
            /\ task.conf.trace = "1"
        BY <2>6, ConfFacts, IndexFacts
      <3>2. task.at \in {"xsio", "trace"} => Done(task.at)
        BY <1>0, <2>2, <3>1, CommandFacts
      <3>3. \/ task.at = "xsio" /\ task'.at = "trace" /\ modem.xsio = Catalog[i].xsio
            \/ task.at = "trace" /\ task'.at = "systrace" /\ modem.trace = "1"
            \/ task.at \in {"systrace", "flush"} /\ task'.at \in {"flush", "mts"}
        <4>1. CASE task.at = "xsio"
          BY <3>1, <3>2, <4>1 DEF Done, After
        <4>2. CASE task.at = "trace"
          BY <3>1, <3>2, <4>2 DEF Done, After
        <4>3. CASE task.at \in {"systrace", "flush"}
          BY <4>3 DEF After
        <4>4. QED
          BY <2>2, <4>1, <4>2, <4>3
      <3>4. modem'.xsio = Catalog[i].xsio /\ (task'.at # "trace" => modem'.trace = "1")
        BY <2>6, <3>3
      <3>5. task'.at \in {"trace", "systrace", "flush", "mts"} /\ task'.conf = OutputConf(i)
        BY <2>6, <3>3
      <3>6. QED
        BY <2>4, <3>4, <3>5 DEF Applied, OutputConf
    <2>7. QED
      BY <2>1, <2>3, <2>4, <2>5, <2>6 DEF Applied
  <1>4. Stored'
    BY AtFacts DEF Stored
  <1>5. Stopping'
    <2>1. task.at = "trace0" => Done(task.at)
      BY <1>0, CommandFacts
    <2>2. QED
      BY <2>1 DEF Clean, Stopping, Done, After, Sends, Rollback
  <1>6. QED
    BY <1>1, <1>2, <1>3, <1>4, <1>5 DEF Clean

\* An exception: the logs are stopped, or the task is over and has no index.
LEMMA ThrowsClean ==
  ASSUME Typing, Clean, Forgotten, Throws, task.at # "idle",
         UNCHANGED <<modem, ui>>, answers' = answers \/ answers' = <<>>
  PROVE  Clean'
  <1>1. task'.waits = FALSE /\ mts' = mts
        /\ (task'.at = "idle" \/ task'.at = "stop") /\ prefs'.index = None
    BY ThrowsFacts, NoTaskFacts DEF Forgotten
  <1>2. Answered'
    BY <1>1 DEF Clean, Answered
  <1>3. Checked'
    BY DEF Clean, Checked
  <1>4. Applied' /\ Stopping'
    BY <1>1 DEF Applied, Stopping, Forward, Rollback
  <1>5. Stored'
    BY <1>1, IndexFacts DEF Stored
  <1>6. QED
    BY <1>2, <1>3, <1>4, <1>5 DEF Clean

\* The steps of the task keep what is known of modem, mts and preferences,
LEMMA CleanOfTask ==
  ASSUME Typing, Waiting, Forgotten, Clean, DoInBackground, ~spoiled'
  PROVE  Clean'
  <1>0. /\ task \in ConfTasks /\ task.conf \in ModemConfs /\ task.waits \in BOOLEAN
        /\ ui.waits \in BOOLEAN /\ mts \in Services
        /\ Answered /\ Checked /\ Applied /\ Stored /\ Stopping
    BY ConfTaskFacts, UiFacts DEF Typing, Clean
  <1>1. ProcessEnds => Clean'
    BY EndsClean
  <1>2. answers # <<>> => Tail(answers) = <<>> /\ Head(answers) = answers[1]
    BY <1>0, OneAnswer DEF Answered
  <1>3. CASE Skip
    <2>1. task.at \in Sends /\ Command(task.at, task.conf) = ""
      BY <1>3 DEF Skip
    <2>2. task.waits = FALSE
      BY <1>0, <2>1 DEF Waiting
    <2>3. task'.at = After(task.at) /\ task'.waits = FALSE /\ task'.conf = task.conf
      BY <1>0, <1>3, <2>1, <2>2, AtFacts, ConfTaskFacts DEF Skip
    <2>4. UNCHANGED <<modem, mts, prefs, ui, answers>>
      BY <1>3 DEF Skip, device, link, screen, saved
    <2>5. QED
      BY <2>1, <2>3, <2>4, AfterClean
  <1>4. CASE Send
    <2>0. task.at \in Sends /\ task.at # "idle" /\ task.waits = FALSE /\ Command(task.at, task.conf) # ""
      BY <1>0, <1>4, AtFacts DEF Send
    <2>1. CASE Throws /\ UNCHANGED <<device, link, screen>>
      <3>1. UNCHANGED <<modem, ui, answers>>
        BY <2>1 DEF device, link, screen
      <3>2. QED
        BY <2>0, <2>1, <3>1, ThrowsClean
    <2>2. CASE ProcessEnds
      BY <1>1, <2>2
    <2>3. CASE /\ task' = [task EXCEPT !.waits = TRUE] /\ spoiled' = (spoiled \/ ui.at # "idle")
               /\ \E ok \in BOOLEAN :
                    /\ answers' = Append(answers, Answer("task", ok, ""))
                    /\ modem' = IF ok THEN Accepted(task.at, Command(task.at, task.conf)) ELSE modem
               /\ UNCHANGED <<screen, saved>>
      <3>1. ui = NoCheck /\ ui.waits = FALSE /\ ui.trace = ""
        BY <2>3, NoCheckFacts DEF Waiting
      <3>2. answers = <<>>
        BY <2>0, <3>1, OneAnswer
      <3>3. PICK ok \in BOOLEAN :
              /\ answers' = Append(answers, Answer("task", ok, ""))
              /\ modem' = IF ok THEN Accepted(task.at, Command(task.at, task.conf)) ELSE modem
        BY <2>3
      <3>4. answers'[1].ok = ok
        <4>1. Answer("task", ok, "") \in Replies /\ Answer("task", ok, "").ok = ok
          BY DEF Answer, Replies
        <4>2. QED
          BY <3>2, <3>3, <4>1, AnswersFacts
      <3>5. task'.at = task.at /\ task'.waits = TRUE /\ task'.conf = task.conf
        BY <1>0, <2>3, ConfTaskFacts
      <3>6. ui' = ui /\ prefs' = prefs /\ mts' = mts
        BY <2>3 DEF screen, saved
      <3>7. /\ modem'.xsio \in {modem.xsio, IF task.at = "xsio" THEN task.conf.xsio ELSE modem.xsio}
            /\ modem'.trace \in {modem.trace, IF task.at = "trace" THEN task.conf.trace
                                              ELSE IF task.at = "trace0" THEN "0" ELSE modem.trace}
            /\ ok => Done(task.at)'
        <4>1. CASE ok
          <5>1. modem' = Accepted(task.at, Command(task.at, task.conf))
            BY <3>3, <4>1
          <5>2. /\ modem'.xsio = IF task.at = "xsio" THEN task.conf.xsio ELSE modem.xsio
                /\ modem'.trace = IF task.at = "trace" THEN task.conf.trace
                                  ELSE IF task.at = "trace0" THEN "0" ELSE modem.trace
            BY <1>0, <2>0, <5>1, AcceptedFacts
          <5>3. Done(task.at)'
            BY <3>5, <5>2 DEF Done
          <5>4. QED
            BY <5>2, <5>3
        <4>2. CASE ~ok
          BY <3>3, <4>2
        <4>3. QED
          BY <4>1, <4>2
      <3>8. Answered'
        BY <3>1, <3>4, <3>5, <3>6, <3>7 DEF Answered, Done
      <3>9. Checked'
        BY <3>1, <3>6 DEF Checked
      <3>10. Applied'
        <4>1. SUFFICES ASSUME task.at \in Forward, task.conf.index \in Indexes PROVE Applied'
          BY <3>5 DEF Applied
        <4>2. PICK i \in Indexes : i = task.conf.index
          BY <4>1
        <4>3. CASE MastersOnly /\ HasOutput(i) /\ HasMts(i)
          <5>1. task.at \notin {"xsio", "trace", "trace0"}
            BY <1>0, <2>0, <4>1, <4>3, CommandFacts DEF MastersOnly, Forward
          <5>2. modem'.xsio = modem.xsio /\ modem'.trace = modem.trace
            BY <3>7, <5>1
          <5>3. QED
            BY <3>5, <3>6, <4>2, <4>3, <5>2 DEF Applied, MastersOnly, HasOutput, HasMts
        <4>4. CASE /\ task.conf = OutputConf(i)
                   /\ task.at # "xsio" => modem.xsio = Catalog[i].xsio
                   /\ task.at \notin {"xsio", "trace"} => modem.trace = "1"
          <5>1. task.conf.xsio = Catalog[i].xsio /\ task.conf.trace = "1"
            BY <4>4, ConfFacts
          <5>2. task.at \notin {"start", "restart", "commit", "trace0"}
            BY <2>0, <4>1 DEF Sends, Forward
          <5>3. task.at # "xsio" => modem'.xsio = Catalog[i].xsio
            BY <3>7, <4>4
          <5>4. task.at \notin {"xsio", "trace"} => modem'.trace = "1"
            BY <3>7, <4>4, <5>2
          <5>5. QED
            BY <3>5, <4>2, <4>4, <5>2, <5>3, <5>4 DEF Applied, OutputConf
        <4>5. QED
          BY <1>0, <4>1, <4>2, <4>3, <4>4 DEF Applied
      <3>11. Stored'
        BY <2>0, <3>5 DEF Stored
      <3>12. Stopping'
        <4>1. task.at \in {"systrace0", "flush0", "restart0"} => modem'.trace = "0"
          BY <1>0, <3>7 DEF Stopping
        <4>2. QED
          BY <1>0, <3>5, <3>6, <4>1 DEF Stopping
      <3>13. QED
        BY <3>8, <3>9, <3>10, <3>11, <3>12 DEF Clean
    <2>4. CASE modem' = Accepted(task.at, Command(task.at, task.conf))
               /\ answers' = Append(answers, Answer("task", TRUE, ""))
               /\ task' = [task EXCEPT !.waits = TRUE] /\ spoiled' = (spoiled \/ ui.at # "idle")
               /\ UNCHANGED <<screen, saved>>
      BY <2>3, <2>4
    <2>5. CASE modem' = modem /\ answers' = Append(answers, Answer("task", FALSE, ""))
               /\ task' = [task EXCEPT !.waits = TRUE] /\ spoiled' = (spoiled \/ ui.at # "idle")
               /\ UNCHANGED <<screen, saved>>
      BY <2>3, <2>5
    <2>6. QED
      BY <1>4, <2>1, <2>2, <2>4, <2>5 DEF Send
  <1>5. CASE Read
    <2>0. task.at \in Sends /\ task.at # "idle" /\ task.waits = TRUE
      BY <1>0, <1>5, AtFacts DEF Read, Waiting
    <2>1. CASE Throws /\ (answers' = answers \/ answers' = <<>>) /\ UNCHANGED <<device, screen>>
      <3>1. UNCHANGED <<modem, ui>>
        BY <2>1 DEF device, screen
      <3>2. QED
        BY <2>0, <2>1, <3>1, ThrowsClean
    <2>2. CASE /\ answers # <<>> /\ answers' = <<>> /\ answers[1].ok
               /\ task' = [task EXCEPT !.at = After(task.at), !.waits = FALSE]
               /\ UNCHANGED <<device, screen, saved>>
      <3>1. Done(task.at)
        BY <1>0, <2>0, <2>2 DEF Answered
      <3>2. task'.at = After(task.at) /\ task'.waits = FALSE /\ task'.conf = task.conf
        BY <1>0, <2>0, <2>2, AtFacts, ConfTaskFacts
      <3>3. UNCHANGED <<modem, mts, prefs, ui>>
        BY <2>2 DEF device, screen, saved
      <3>4. QED
        BY <2>0, <2>2, <3>1, <3>2, <3>3, AfterClean
    <2>3. CASE ProcessEnds
      BY <1>1, <2>3
    <2>4. QED
      BY <1>2, <1>5, <2>1, <2>2, <2>3 DEF Read, link
  <1>6. CASE SetMts
    <2>0. task.at = "mts" /\ task.waits = FALSE
      BY <1>0, <1>6 DEF SetMts, Waiting, Sends
    <2>1. /\ task'.at = IF task.conf.mts # "" THEN "start" ELSE "restart"
          /\ task'.waits = FALSE /\ task'.conf = task.conf
      <3>1. PICK at \in {"start", "restart"} : at = IF task.conf.mts # "" THEN "start" ELSE "restart"
        OBVIOUS
      <3>2. task' = [task EXCEPT !.at = at] /\ at \in Ats
        BY <1>6, <3>1 DEF SetMts, Ats, Forward
      <3>3. QED
        BY <1>0, <2>0, <3>1, <3>2, ConfTaskFacts
    <2>2. UNCHANGED <<modem, prefs, ui, answers>>
      BY <1>6 DEF SetMts, device, link, screen
    <2>3. Answered' /\ Checked' /\ Stored' /\ Stopping'
      BY <1>0, <2>0, <2>1, <2>2 DEF Answered, Checked, Stored, Stopping, Rollback
    <2>4. Applied'
      <3>1. SUFFICES ASSUME task.conf.index \in Indexes PROVE Applied'
        BY <2>1 DEF Applied
      <3>2. PICK i \in Indexes : i = task.conf.index
        BY <3>1
      <3>3. CASE MastersOnly /\ HasOutput(i) /\ HasMts(i)
        <4>1. mts' = mts
          BY <1>6, <3>3 DEF SetMts, MastersOnly
        <4>2. QED
          BY <2>1, <2>2, <3>2, <3>3, <4>1 DEF Applied, MastersOnly, HasOutput, HasMts
      <3>4. CASE /\ task.conf = OutputConf(i)
                 /\ modem.xsio = Catalog[i].xsio /\ modem.trace = "1"
        <4>1. task.conf.xsio # "" /\ task.conf.mts = Catalog[i].mts
          BY <3>4, ConfFacts, IndexFacts
        <4>2. mts' = [Stopped EXCEPT !.params = Params(task.conf)]
          BY <1>6, <4>1 DEF SetMts
        <4>3. Params(task.conf) \in {None, -1} \cup Indexes
          BY <1>0, CommandFacts DEF Params, Services
        <4>4. mts'.persistent = FALSE /\ mts'.params = Params(task.conf)
          BY <1>0, <4>2, <4>3, MtsFacts
        <4>5. task.conf.mts # "" => mts'.params = i
          BY <3>2, <4>4 DEF Params
        <4>6. task'.at = "start" => mts'.persistent = FALSE /\ mts'.params = i /\ Catalog[i].mts # ""
          BY <2>1, <4>1, <4>4, <4>5
        <4>7. task'.at = "restart" => HasMts(i)'
          BY <2>1, <4>1, <4>4 DEF HasMts
        <4>8. task'.at \in {"start", "restart"} /\ task'.conf = OutputConf(i)
          BY <2>1, <3>4
        <4>9. QED
          BY <2>2, <3>2, <3>4, <4>6, <4>7, <4>8 DEF Applied, OutputConf
      <3>5. QED
        BY <1>0, <2>0, <3>1, <3>2, <3>3, <3>4 DEF Applied, Forward
    <2>5. QED
      BY <2>3, <2>4 DEF Clean
  <1>7. CASE StartMts
    <2>0. task.at = "start" /\ task.waits = FALSE
      BY <1>0, <1>7 DEF StartMts, Waiting, Sends
    <2>1. task'.at = "restart" /\ task'.waits = FALSE /\ task'.conf = task.conf
      BY <1>0, <1>7, <2>0, ConfTaskFacts DEF StartMts, Ats, Forward
    <2>2. UNCHANGED <<modem, prefs, ui, answers>> /\ mts' = Started(task.conf.mts)
      BY <1>7 DEF StartMts, device, link, screen
    <2>3. Answered' /\ Checked' /\ Stored' /\ Stopping'
      BY <1>0, <2>0, <2>1, <2>2 DEF Answered, Checked, Stored, Stopping, Rollback
    <2>4. Applied'
      <3>1. SUFFICES ASSUME task.conf.index \in Indexes PROVE Applied'
        BY <2>1 DEF Applied
      <3>2. PICK i \in Indexes : i = task.conf.index
        BY <3>1
      <3>3. task.conf.mts \in Modes
        BY <1>0, CommandFacts
      <3>4. CASE MastersOnly /\ HasOutput(i) /\ HasMts(i)
        <4>1. mts' = mts
          BY <1>0, <2>2, <3>3, <3>4, MtsFacts DEF MastersOnly
        <4>2. QED
          BY <2>1, <2>2, <3>2, <3>4, <4>1 DEF Applied, MastersOnly, HasOutput, HasMts
      <3>5. CASE /\ task.conf = OutputConf(i)
                 /\ modem.xsio = Catalog[i].xsio /\ modem.trace = "1"
                 /\ ~mts.persistent /\ mts.params = i
        <4>1. task.conf.mts = Catalog[i].mts
          BY <3>5, ConfFacts
        <4>2. /\ mts'.params = i /\ mts'.persistent = (task.conf.mts = "persistent")
              /\ task.conf.mts = "oneshot" => mts'.oneshot
          <5>1. /\ mts'.params = mts.params
                /\ mts'.persistent = (mts.persistent \/ task.conf.mts = "persistent")
                /\ task.conf.mts = "oneshot" => mts'.oneshot
            BY <1>0, <2>2, <3>3, MtsFacts
          <5>2. QED
            BY <3>5, <5>1
        <4>3. HasMts(i)'
          BY <4>1, <4>2 DEF HasMts
        <4>4. QED
          BY <2>1, <2>2, <3>2, <3>5, <4>3 DEF Applied, OutputConf
      <3>6. QED
        BY <1>0, <2>0, <3>1, <3>2, <3>4, <3>5 DEF Applied, Forward
    <2>5. QED
      BY <2>3, <2>4 DEF Clean
  <1>8. CASE Restart
    <2>0. task.at = "restart" /\ task.waits = FALSE /\ UNCHANGED <<modem, ui, answers>>
      BY <1>0, <1>8 DEF Restart, Waiting, Sends, link, screen
    <2>1. CASE Throws
      BY <2>0, <2>1, ThrowsClean
    <2>2. CASE task' = [task EXCEPT !.at = "commit"] /\ UNCHANGED saved
      <3>1. task'.at = "commit" /\ task'.waits = FALSE /\ task'.conf = task.conf
        BY <1>0, <2>0, <2>2, ConfTaskFacts DEF Ats, Forward
      <3>2. prefs' = prefs /\ mts' = mts
        BY <2>2 DEF saved
      <3>3. Answered' /\ Checked' /\ Stored' /\ Stopping'
        BY <1>0, <2>0, <3>1, <3>2 DEF Answered, Checked, Stored, Stopping, Rollback
      <3>4. Applied'
        BY <1>0, <2>0, <3>1, <3>2
           DEF Applied, Forward, MastersOnly, HasOutput, HasMts, OutputConf
      <3>5. QED
        BY <3>3, <3>4 DEF Clean
    <2>3. QED
      BY <1>8, <2>1, <2>2 DEF Restart
  <1>9. CASE Commit
    <2>0. /\ task.at = "commit" /\ task'.at = "idle" /\ task'.waits = FALSE
          /\ UNCHANGED <<modem, ui, answers, mts>>
      BY <1>9, NoTaskFacts DEF Commit, device, link, screen
    <2>1. prefs'.index = task.conf.index
      BY <1>9 DEF Commit, Typing, Stores
    <2>2. Answered' /\ Checked' /\ Applied' /\ Stopping'
      BY <1>0, <2>0 DEF Answered, Checked, Applied, Stopping, Forward, Rollback
    <2>3. Stored'
      <3>1. SUFFICES ASSUME task.conf.index \in Indexes PROVE Stored'
        BY <2>1 DEF Stored
      <3>2. PICK i \in Indexes : i = task.conf.index
        BY <3>1
      <3>3. HasOutput(i) /\ HasMts(i)
        BY <1>0, <2>0, <3>1, <3>2 DEF Applied, Forward, HasOutput
      <3>4. QED
        BY <2>0, <2>1, <3>2, <3>3 DEF Stored, HasOutput, HasMts
    <2>4. QED
      BY <2>2, <2>3 DEF Clean
  <1>10. CASE StopMts
    <2>0. task.at = "stop" /\ task.waits = FALSE
      BY <1>0, <1>10 DEF StopMts, Waiting, Sends
    <2>1. task'.at = "trace0" /\ task'.waits = FALSE /\ mts'.persistent = FALSE
      BY <1>0, <1>10, <2>0, ConfTaskFacts, MtsFacts DEF StopMts, Ats, Rollback
    <2>2. UNCHANGED <<modem, prefs, ui, answers>>
      BY <1>10 DEF StopMts, device, link, screen
    <2>3. Answered' /\ Checked' /\ Applied' /\ Stored' /\ Stopping'
      BY <1>0, <2>0, <2>1, <2>2 DEF Answered, Checked, Applied, Stored, Stopping, Forward, Rollback
    <2>4. QED
      BY <2>3 DEF Clean
  <1>11. CASE RestartStopped
    <2>0. task.at = "restart0" /\ task.waits = FALSE /\ UNCHANGED <<modem, ui, answers>>
      BY <1>0, <1>11 DEF RestartStopped, Waiting, Sends, link, screen
    <2>1. CASE Throws
      BY <2>0, <2>1, ThrowsClean
    <2>2. CASE prefs' = [prefs EXCEPT !.active = FALSE] /\ task' = NoTask /\ mts' = mts
      <3>1. task'.at = "idle" /\ task'.waits = FALSE
        BY <2>2, NoTaskFacts
      <3>2. prefs'.index = None
        BY <2>0, <2>2 DEF Typing, Stores, Forgotten, Rollback
      <3>3. Answered' /\ Checked' /\ Applied' /\ Stopping'
        BY <1>0, <2>0, <3>1 DEF Answered, Checked, Applied, Stopping, Forward, Rollback
      <3>4. Stored'
        BY <3>2, IndexFacts DEF Stored
      <3>5. QED
        BY <3>3, <3>4 DEF Clean
    <2>3. QED
      BY <1>11, <2>1, <2>2 DEF RestartStopped
  <1>12. QED
    BY <1>3, <1>4, <1>5, <1>6, <1>7, <1>8, <1>9, <1>10, <1>11 DEF DoInBackground

\* those of the main thread do,
LEMMA CleanOfThread ==
  ASSUME Typing, Waiting, Clean, MainThread \/ Check, ~spoiled'
  PROVE  Clean'
  <1>0. /\ ui \in Checks /\ task.waits \in BOOLEAN /\ ui.waits \in BOOLEAN /\ mts \in Services
        /\ Answered /\ Checked /\ Applied /\ Stored /\ Stopping
    BY ConfTaskFacts, UiFacts DEF Typing, Clean
  <1>1. ProcessEnds => Clean'
    BY EndsClean
  <1>2. answers # <<>> => Tail(answers) = <<>> /\ Head(answers) = answers[1]
    BY <1>0, OneAnswer DEF Answered
  <1>3. ASSUME UNCHANGED <<device, saved, task>>, answers' = answers \/ answers' = <<>>,
               ui' = ui \/ ui' = NoCheck \/ BeginCheck
        PROVE  Clean'
    <2>1. ui' = ui \/ (ui'.waits = FALSE /\ ui'.trace = "")
      BY <1>3, NoCheckFacts DEF BeginCheck
    <2>2. UNCHANGED <<modem, prefs, mts>>
      BY <1>3 DEF device, saved
    <2>3. QED
      BY <1>3, <2>1, <2>2, QuietClean
  <1>4. CASE Receive \/ Check
    BY <1>3, <1>4 DEF Receive, Check, link, job
  <1>5. CASE Ask
    <2>0. ui.at \in Questions /\ ui.waits = FALSE
      BY <1>0, <1>5 DEF Ask, Questions
    <2>1. CASE ui' = NoCheck /\ UNCHANGED <<answers, task, device, saved>>
      BY <1>3, <2>1
    <2>2. CASE ProcessEnds
      BY <1>1, <2>2
    <2>3. CASE /\ answers' = Append(answers, Answer(ui.at, TRUE,
                                       CASE ui.at = "xsio"  -> modem.xsio
                                         [] ui.at = "trace" -> modem.trace
                                         [] OTHER           -> ""))
               /\ ui' = [ui EXCEPT !.waits = TRUE] /\ spoiled' = (spoiled \/ task.waits)
               /\ UNCHANGED <<device, saved, task>>
      <3>1. task.waits = FALSE /\ answers = <<>>
        BY <1>0, <2>0, <2>3, OneAnswer
      <3>2. PICK says \in {"", "0", "1", "2"} :
              /\ says = CASE ui.at = "xsio" -> modem.xsio [] ui.at = "trace" -> modem.trace
                          [] OTHER -> ""
              /\ ui.at = "trace" => says = modem.trace
        <4>1. modem.xsio \in {"1", "2"} /\ modem.trace \in {"0", "1"}
          BY ModemFacts
        <4>2. QED
          BY <4>1
      <3>3. answers' = Append(answers, Answer(ui.at, TRUE, says))
        BY <2>3, <3>2
      <3>4. Answer(ui.at, TRUE, says) \in Replies /\ Answer(ui.at, TRUE, says).to = ui.at
            /\ Answer(ui.at, TRUE, says).ok = TRUE /\ Answer(ui.at, TRUE, says).says = says
        BY <2>0 DEF Answer, Replies
      <3>5. answers'[1] = Answer(ui.at, TRUE, says)
        BY <3>1, <3>3, <3>4, AnswersFacts
      <3>6. ui'.at = ui.at /\ ui'.waits = TRUE /\ ui'.trace = ui.trace
        BY <1>0, <2>3, UiFacts
      <3>7. task' = task /\ modem' = modem /\ prefs' = prefs /\ mts' = mts
        BY <2>3 DEF device, saved
      <3>8. Answered'
        BY <3>1, <3>2, <3>4, <3>5, <3>6, <3>7 DEF Answered
      <3>9. Checked' /\ Stored' /\ Stopping'
        BY <1>0, <3>6, <3>7 DEF Checked, Stored, Stopping, HasOutput, HasMts
      <3>10. Applied'
        BY <1>0, <3>7 DEF Applied, MastersOnly, HasOutput, HasMts, OutputConf
      <3>11. QED
        BY <3>8, <3>9, <3>10 DEF Clean
    <2>4. QED
      BY <1>5, <2>1, <2>2, <2>3 DEF Ask
  <1>6. CASE Hear
    <2>0. ui.waits = TRUE /\ ui.at \in Questions
      BY <1>0, <1>6 DEF Hear, Waiting
    <2>1. CASE ui' = NoCheck /\ UNCHANGED <<device, saved, job>>
               /\ (answers' = <<>> \/ answers' = answers)
      BY <1>3, <2>1 DEF job
    <2>2. CASE /\ answers # <<>> /\ answers' = <<>> /\ UNCHANGED <<device, saved, job>>
               /\ \E says \in IF answers[1].to = ui.at THEN {answers[1].says} ELSE {"", "0", "1"} :
                    ui' = [ui EXCEPT !.at = NextQuestion(ui.at), !.waits = FALSE,
                                     !.xsio = IF ui.at = "xsio" THEN says ELSE @,
                                     !.trace = IF ui.at = "trace" THEN says ELSE @]
      <3>1. answers[1].to = ui.at /\ (ui.at = "trace" => answers[1].says = modem.trace)
        BY <1>0, <2>0, <2>2 DEF Answered
      <3>2. ui' = [ui EXCEPT !.at = NextQuestion(ui.at), !.waits = FALSE,
                             !.xsio = IF ui.at = "xsio" THEN answers[1].says ELSE @,
                             !.trace = IF ui.at = "trace" THEN answers[1].says ELSE @]
        BY <2>2, <3>1
      <3>3. ui'.waits = FALSE /\ ui'.trace = IF ui.at = "trace" THEN answers[1].says ELSE ui.trace
        BY <1>0, <3>2 DEF Checks
      <3>4. task' = task /\ modem' = modem /\ prefs' = prefs /\ mts' = mts
        BY <2>2 DEF device, saved, job
      <3>5. Answered'
        BY <2>2, <3>3 DEF Answered
      <3>6. Checked'
        BY <1>0, <3>1, <3>3, <3>4 DEF Checked
      <3>7. Stored' /\ Stopping'
        BY <1>0, <3>4 DEF Stored, Stopping, HasOutput, HasMts
      <3>8. Applied'
        BY <1>0, <3>4 DEF Applied, MastersOnly, HasOutput, HasMts, OutputConf
      <3>9. QED
        BY <3>5, <3>6, <3>7, <3>8 DEF Clean
    <2>3. CASE ProcessEnds
      BY <1>1, <2>3
    <2>4. QED
      BY <1>2, <1>6, <2>1, <2>2, <2>3 DEF Hear, link
  <1>7. CASE UpdateUi
    <2>1. CASE ProcessEnds
      BY <1>1, <2>1
    <2>2. CASE ui.trace # "0" /\ mts' = mts /\ ui' = NoCheck /\ UNCHANGED <<device, link, prefs, job>>
      <3>1. ui'.waits = FALSE /\ ui'.trace = ""
        BY <2>2, NoCheckFacts
      <3>2. UNCHANGED <<modem, answers, task, prefs, mts>>
        BY <2>2 DEF device, link, job
      <3>3. QED
        BY <3>1, <3>2, QuietClean
    <2>3. CASE ui.trace = "0" /\ mts' = Stopped /\ ui' = NoCheck /\ UNCHANGED <<device, link, prefs, job>>
      <3>1. modem.trace = "0"
        BY <1>0, <2>3 DEF Checked
      <3>2. ui'.waits = FALSE /\ ui'.trace = "" /\ mts'.persistent = FALSE
        BY <1>0, <2>3, NoCheckFacts, MtsFacts
      <3>3. UNCHANGED <<modem, answers, task, prefs>>
        BY <2>3 DEF device, link, job
      <3>4. Answered'
        BY <1>0, <3>2, <3>3 DEF Answered, Done
      <3>5. Checked' /\ Stopping'
        BY <1>0, <3>2, <3>3 DEF Checked, Stopping
      <3>6. Stored'
        BY <1>0, <3>1, <3>3 DEF Stored, HasOutput
      <3>7. Applied'
        <4>1. SUFFICES ASSUME task.at \in Forward, task.conf.index \in Indexes PROVE Applied'
          BY <3>3 DEF Applied
        <4>2. PICK i \in Indexes : i = task.conf.index
          BY <4>1
        <4>3. /\ task.conf = OutputConf(i) /\ task.at \in {"xsio", "trace"}
              /\ task.at # "xsio" => modem.xsio = Catalog[i].xsio
          BY <1>0, <3>1, <4>1, <4>2 DEF Applied, HasOutput
        <4>4. QED
          BY <3>3, <4>2, <4>3 DEF Applied, OutputConf
      <3>8. QED
        BY <3>4, <3>5, <3>6, <3>7 DEF Clean
    <2>4. QED
      BY <1>7, <2>1, <2>2, <2>3 DEF UpdateUi
  <1>8. QED
    BY <1>4, <1>5, <1>6, <1>7 DEF MainThread

\* A configuration that is applied after one that was disturbed finds nobody on the tty.
LEMMA CleanOfApply ==
  ASSUME Typing, Waiting, ~spoiled => Clean, Apply, ~spoiled'
  PROVE  Clean'
  <1>0. /\ ui = NoCheck /\ task.at = "idle" /\ ui.at = "idle"
        /\ UNCHANGED <<modem, answers, ui, prefs, mts>>
    BY DEF Apply, Waiting, device, link, screen
  <1>1. PICK conf \in {OutputConf(i) : i \in Indexes} \cup Experts \cup {StopConf, MasterConf} :
          /\ task' = [at |-> "xsio", waits |-> FALSE, conf |-> conf]
          /\ spoiled' = (spoiled /\ conf = MasterConf)
    BY DEF Apply
  <1>2. task'.at = "xsio" /\ task'.waits = FALSE /\ task'.conf = conf
    BY <1>1
  <1>3. ui.waits = FALSE /\ ui.trace = ""
    BY <1>0, NoCheckFacts
  <1>4. Answered' /\ Checked' /\ Stored' /\ Stopping'
    BY <1>0, <1>2, <1>3 DEF Answered, Checked, Stored, Stopping, Rollback
  <1>5. Applied'
    <2>1. SUFFICES ASSUME conf.index \in Indexes PROVE Applied'
      BY <1>2 DEF Applied
    <2>2. PICK i \in Indexes : i = conf.index
      BY <2>1
    <2>3. CASE conf = MasterConf
      <3>1. Clean /\ conf.index = prefs.index
        BY <1>1, <2>3, ConfFacts
      <3>2. HasOutput(i) /\ HasMts(i)
        BY <1>0, <2>2, <3>1 DEF Clean, Stored
      <3>3. conf.xsio = "" /\ conf.trace = "" /\ conf.mts = ""
        BY <2>3, ConfFacts
      <3>4. QED
        BY <1>0, <1>2, <2>2, <3>2, <3>3 DEF Applied, MastersOnly, HasOutput, HasMts
    <2>4. CASE conf # MasterConf
      <3>1. conf \notin Experts /\ conf # StopConf
        BY <2>1, ConfFacts, IndexFacts
      <3>2. PICK j \in Indexes : conf = OutputConf(j)
        BY <1>1, <2>4, <3>1
      <3>3. conf = OutputConf(i)
        BY <2>2, <3>2, ConfFacts
      <3>4. QED
        BY <1>2, <2>2, <3>3 DEF Applied, OutputConf
    <2>5. QED
      BY <2>3, <2>4
  <1>6. QED
    BY <1>4, <1>5 DEF Clean

\* and so does every step.
LEMMA CleanStep ==
  Typing /\ Waiting /\ Forgotten /\ (~spoiled => Clean) /\ [Next]_vars => (~spoiled' => Clean')
  <1> SUFFICES ASSUME Typing, Waiting, Forgotten, ~spoiled => Clean, [Next]_vars, ~spoiled'
               PROVE  Clean'
    OBVIOUS
  <1>1. CASE Apply
    BY <1>1, CleanOfApply
  <1>2. CASE Leave
    BY <1>2, EndsClean DEF Leave
  <1>3. CASE [Next]_vars /\ ~Apply /\ ~Leave
    <2>1. spoiled \in BOOLEAN
      BY DEF Typing
    <2>2. ~spoiled
      <3>1. CASE DoInBackground
        BY <2>1, <3>1, EndsFacts
           DEF DoInBackground, Skip, Send, Read, SetMts, StartMts, Restart, Commit, StopMts, RestartStopped
      <3>2. CASE MainThread \/ Check
        BY <2>1, <3>2, EndsFacts DEF MainThread, Receive, Ask, Hear, UpdateUi, Check, job
      <3>3. CASE \/ UNCHANGED vars \/ GoesDown \/ ComesUp \/ OnModemEvent \/ DropAnswer
                 \/ Launch \/ Acquire \/ SetAcquired \/ SetFirst \/ Pause \/ Resume
        BY <3>3 DEF vars, GoesDown, ComesUp, OnModemEvent, DropAnswer, Launch, Acquire,
                    SetAcquired, SetFirst, Pause, Resume, ResumeIf, job
      <3>4. QED
        BY <1>3, <3>1, <3>2, <3>3 DEF Next
    <2>3. Clean
      BY <2>2
    <2>4. CASE DoInBackground
      BY <2>3, <2>4, CleanOfTask
    <2>5. CASE MainThread \/ Check
      BY <2>3, <2>5, CleanOfThread
    <2>6. CASE \/ UNCHANGED vars \/ GoesDown \/ ComesUp \/ OnModemEvent \/ DropAnswer
               \/ Launch \/ Acquire \/ SetAcquired \/ SetFirst \/ Pause \/ Resume
      <3>1. answers # <<>> => Tail(answers) = <<>>
        BY <2>3, OneAnswer DEF Clean, Answered
      <3>2. modem'.xsio = modem.xsio /\ modem'.trace = modem.trace
        <4>1. modem' = modem \/ \E up \in BOOLEAN : modem' = [modem EXCEPT !.up = up]
          BY <2>6 DEF vars, GoesDown, ComesUp, OnModemEvent, DropAnswer, Launch, Acquire,
                      SetAcquired, SetFirst, Pause, Resume, ResumeIf, device
        <4>2. modem \in Modems
          BY DEF Typing
        <4>3. QED
          BY <4>1, <4>2 DEF Modems
      <3>3. mts' = mts /\ prefs' = prefs /\ task' = task /\ ui' = ui
        BY <2>6 DEF vars, GoesDown, ComesUp, OnModemEvent, DropAnswer, Launch, Acquire,
                    SetAcquired, SetFirst, Pause, Resume, ResumeIf, saved, job, screen
      <3>4. answers' = answers \/ answers' = <<>>
        BY <2>6, <3>1 DEF vars, GoesDown, ComesUp, OnModemEvent, DropAnswer, Launch, Acquire,
                          SetAcquired, SetFirst, Pause, Resume, ResumeIf, link
      <3>5. QED
        BY <2>3, <3>2, <3>3, <3>4, QuietClean
    <2>7. QED
      BY <1>3, <2>4, <2>5, <2>6 DEF Next
  <1>4. QED
    BY <1>1, <1>2, <1>3
-----------------------------------------------------------------------------
(* The theorems.                                                           *)

\* The invariant holds at first.
LEMMA InitInv == Init => Inv
  <1> SUFFICES ASSUME Init PROVE Inv
    OBVIOUS
  <1>0. /\ asked = FALSE /\ events = <<>> /\ status = "none" /\ tty = FALSE /\ answers = <<>>
        /\ front = "out" /\ connect = "idle" /\ acquired = FALSE /\ first = TRUE /\ held = 0
        /\ msgs = <<>> /\ ui = NoCheck /\ enabled = TRUE
        /\ prefs = [index |-> None, active |-> FALSE]
        /\ mts = [persistent |-> FALSE, oneshot |-> FALSE, params |-> None]
        /\ expert = FALSE /\ task = NoTask /\ spoiled = FALSE
    BY DEF Init
  <1>1. modem \in Modems
    BY CatalogAssumption DEF Init, Modems
  <1>2. prefs \in Stores /\ mts \in Services /\ prefs.index = None
    BY <1>0 DEF Stores, Services
  <1>3. task \in ConfTasks /\ task.at = "idle" /\ task.waits = FALSE
        /\ ui \in Checks /\ ui.at = "idle" /\ ui.waits = FALSE /\ ui.trace = ""
    BY <1>0, NoTaskFacts, NoCheckFacts
  <1>4. Typing
    <2>1. answers \in Seq(Replies) /\ events \in Seq(Tells) /\ msgs \in Seq(Shouts)
      BY <1>0
    <2>2. QED
      BY <1>0, <1>1, <1>2, <1>3, <2>1 DEF Typing, States
  <1>5. Holding
    BY <1>0, <1>3 DEF Holding
  <1>6. Waiting
    <2>1. Len(answers) = 0
      BY <1>0
    <2>2. Len(answers) <= Count(task.waits, ui.waits)
      <3>1. task.waits \in BOOLEAN /\ ui.waits \in BOOLEAN
        BY <1>3
      <3>2. 0 <= Count(task.waits, ui.waits)
        BY <3>1, CountFacts DEF Count
      <3>3. QED
        BY <2>1, <3>2
    <2>3. QED
      BY <1>0, <1>3, <2>2 DEF Waiting
  <1>7. Forgotten /\ Answered /\ Checked /\ Applied /\ Stopping
    BY <1>0, <1>3 DEF Forgotten, Answered, Checked, Applied, Stopping, Forward, Rollback
  <1>8. Stored
    BY <1>2, IndexFacts DEF Stored
  <1>9. QED
    BY <1>4, <1>5, <1>6, <1>7, <1>8 DEF Inv, Clean

\* The invariant holds.
THEOREM Invariant == Spec => []Inv
  <1>1. Inv /\ [Next]_vars => Inv'
    BY TypingStep, HoldingStep, WaitingStep, ForgottenStep, CleanStep DEF Inv
  <1>2. QED
    BY <1>1, InitInv, PTL DEF Spec

\* Typing; the modem is acquired at most once, and is held when the flag says so.
THEOREM TypeCorrect == Spec => []TypeOK
  <1>1. Inv => TypeOK
    <2>1. SUFFICES ASSUME Inv PROVE TypeOK
      OBVIOUS
    <2>2. \A k \in DOMAIN answers : answers[k].to \in {"task", "xsio", "trace", "systrace"}
      <3>1. answers \in Seq(Replies)
        BY <2>1 DEF Inv, Typing
      <3>2. \A k \in DOMAIN answers : answers[k] \in Replies
        BY <3>1, LenProperties, ElementOfSeq
      <3>3. QED
        BY <3>2 DEF Replies, Questions
    <2>3. task.at \in Ats /\ task.conf \in ModemConfs /\ ui.at \in {"idle", "update"} \cup Questions
      BY <2>1, ConfTaskFacts, UiFacts DEF Inv, Typing
    <2>4. held \in {0, 1} /\ (acquired => held = 1)
      BY <2>1 DEF Inv, Holding
    <2>5. task.waits => task.at \in Sends
      BY <2>1 DEF Inv, Waiting
    <2>6. QED
      BY <2>1, <2>2, <2>3, <2>4, <2>5
         DEF Inv, Typing, Holding, TypeOK, Modems, Stores, Services, Tells, States, Shouts, Ats,
             Forward, Rollback, Sends, Questions
  <1>2. QED
    BY <1>1, Invariant, PTL

\* The index that is stored names the output and the traces the modem has.
THEOREM StoredIsApplied == Spec => []IndexIsApplied
  <1>1. Inv => IndexIsApplied
    BY DEF Inv, Clean, Stored, HasOutput, IndexIsApplied
  <1>2. QED
    BY <1>1, Invariant, PTL

\* mts runs as the configuration that is stored needs it.
THEOREM StoredHasMts == Spec => []MtsIsSet
  <1>1. Inv => MtsIsSet
    BY DEF Inv, Clean, Stored, HasMts, MtsIsSet
  <1>2. QED
    BY <1>1, Invariant, PTL

\* A task that stores that the logs are off has stopped them.
THEOREM Stops == Spec => StopIsTrue
  <1>1. ASSUME Inv, Inv', [Next]_vars,
               task.at = "restart0", task'.at = "idle", ~prefs'.active, ~spoiled'
        PROVE  modem.trace = "0" /\ ~mts.persistent /\ prefs'.index = None
    <2>0. task \in ConfTasks /\ task.waits = FALSE /\ spoiled \in BOOLEAN
      BY <1>1, ConfTaskFacts DEF Inv, Typing, Waiting, Sends
    <2>1. ~ProcessEnds
      BY <1>1, <2>0, EndsFacts DEF Inv
    <2>2. RestartStopped
      <3>1. task' # task
        BY <1>1
      <3>2. ~Apply /\ ~Leave
        BY <1>1, <2>1 DEF Apply, Leave
      <3>3. ~Skip /\ ~Send /\ ~Read /\ ~SetMts /\ ~StartMts /\ ~Restart /\ ~Commit /\ ~StopMts
        BY <1>1, <2>0
           DEF Skip, Send, Read, SetMts, StartMts, Restart, Commit, StopMts, Sends
      <3>4. ~Receive /\ ~Ask /\ ~Hear /\ ~UpdateUi /\ ~Check
        BY <2>1, <3>1 DEF Receive, Ask, Hear, UpdateUi, Check, job
      <3>5. ~(\/ UNCHANGED vars \/ GoesDown \/ ComesUp \/ OnModemEvent \/ DropAnswer
              \/ Launch \/ Acquire \/ SetAcquired \/ SetFirst \/ Pause \/ Resume)
        BY <3>1 DEF vars, GoesDown, ComesUp, OnModemEvent, DropAnswer, Launch, Acquire,
                    SetAcquired, SetFirst, Pause, Resume, ResumeIf, job
      <3>6. QED
        BY <1>1, <3>2, <3>3, <3>4, <3>5 DEF Next, DoInBackground, MainThread
    <2>3. ~Throws
      BY <1>1, <2>0, ThrowsFacts, NoTaskFacts DEF Inv, Rollback
    <2>4. prefs' = [prefs EXCEPT !.active = FALSE] /\ spoiled' = spoiled
      BY <2>2, <2>3 DEF RestartStopped
    <2>5. Stopping /\ prefs.index = None
      BY <1>1, <2>4 DEF Inv, Clean, Forgotten, Rollback
    <2>6. QED
      BY <1>1, <2>4, <2>5 DEF Stopping, Rollback, Inv, Typing, Stores
  <1>2. QED
    BY <1>1, Invariant, PTL DEF Spec, StopIsTrue
-----------------------------------------------------------------------------
(* The search of the symbols.                                              *)

\* The first elements of a sequence.
LEMMA FirstOfFacts ==
  ASSUME NEW S, NEW s \in Seq(S), NEW n \in Nat
  PROVE  /\ FirstOf(s, n) \in Seq(S) /\ Len(FirstOf(s, n)) = IF Len(s) < n THEN Len(s) ELSE n
         /\ \A i \in DOMAIN FirstOf(s, n) : i \in DOMAIN s /\ FirstOf(s, n)[i] = s[i]
  <1>1. Len(s) \in Nat /\ DOMAIN s = 1 .. Len(s)
    BY LenProperties
  <1> DEFINE m == IF Len(s) < n THEN Len(s) ELSE n
  <1>2. m \in Nat /\ m <= Len(s) /\ 1 .. m \subseteq 1 .. Len(s)
    BY <1>1
  <1>3. \A i \in 1 .. m : s[i] \in S
    BY <1>1, <1>2, ElementOfSeq
  <1>4. SubSeq(s, 1, m) \in Seq(S) /\ Len(SubSeq(s, 1, m)) = m
        /\ \A i \in 1 .. m : SubSeq(s, 1, m)[i] = s[i]
    BY <1>1, <1>2, <1>3, SubSeqProperties
  <1>5. DOMAIN SubSeq(s, 1, m) = 1 .. m
    BY <1>4, LenProperties
  <1>6. FirstOf(s, n) = SubSeq(s, 1, m)
    BY DEF FirstOf
  <1>7. QED
    BY <1>1, <1>2, <1>4, <1>5, <1>6

\* A set of numbers has a least one.
LEMMA LeastIs ==
  ASSUME NEW S \in SUBSET Nat, S # {}
  PROVE  Least(S) \in S /\ \A m \in S : Least(S) <= m
  <1>1. \E n \in S : \A m \in S : n <= m
    <2>1. PICK n \in S : \A m \in S : ~ (<<m, n>> \in OpToRel(<, Nat))
      BY Zenon, NatLessThanWellFounded, WFMin
    <2>2. \A m \in S : ~ (m < n)
      BY <2>1 DEF OpToRel
    <2>3. QED
      BY <2>2
  <1>2. QED
    BY <1>1 DEF Least
-----------------------------------------------------------------------------
(* The search in a table.                                                  *)

\* With the searches among at most n elements, bsearch is defined by its own equation.
SearchBody(f, x) ==
  LET t    == x[1]
      a    == x[2]
      base == x[3]
      lim  == x[4]
      p    == base + lim \div 2
  IN  IF lim = 0 THEN NoSymbol
      ELSE IF Bcompar(a, t[p]) = 0 THEN t[p]
      ELSE IF Bcompar(a, t[p]) > 0 THEN f[<<t, a, p + 1, (lim - 1) \div 2>>]
      ELSE f[<<t, a, base, lim \div 2>>]

Upto(n) == {x \in Searches : x[4] <= n}
SearchUpto(n) == \E f : f = [x \in Upto(n) |-> SearchBody(f, x)]

\* What bsearch is called with.
LEMMA SearchesFacts ==
  ASSUME NEW t \in Seq(Symbol), NEW a \in Nat, NEW base \in Nat \ {0}, NEW lim \in Nat,
         base + lim <= Len(t) + 1
  PROVE  <<t, a, base, lim>> \in Searches
  <1> DEFINE x == <<t, a, base, lim>>
  <1>1. x \in Seq(Symbol) \X Nat \X (Nat \ {0}) \X Nat
    OBVIOUS
  <1>2. x[1] = t /\ x[3] = base /\ x[4] = lim
    OBVIOUS
  <1> HIDE DEF x
  <1>3. x \in Searches
    BY <1>1, <1>2 DEF Searches
  <1>4. QED
    BY <1>3 DEF x

\* The two halves of a part of a table, and the element between them.
LEMMA HalfFacts ==
  ASSUME NEW n \in Nat \ {0}
  PROVE  /\ n \div 2 \in Nat /\ (n - 1) \div 2 \in Nat /\ n \div 2 < n /\ (n - 1) \div 2 < n
         /\ (n \div 2) + 1 + ((n - 1) \div 2) = n
  OBVIOUS

\* What the search of a half has to do with the whole.
LEMMA Halves ==
  ASSUME NEW x \in Searches, x[4] # 0
  PROVE  LET p == x[3] + x[4] \div 2
         IN  /\ x[1] \in Seq(Symbol) /\ x[2] \in Nat /\ x[3] \in Nat \ {0} /\ x[4] \in Nat
             /\ x[3] + x[4] <= Len(x[1]) + 1
             /\ p \in DOMAIN x[1] /\ x[3] <= p /\ p < x[3] + x[4]
             /\ <<x[1], x[2], p + 1, (x[4] - 1) \div 2>> \in Searches
             /\ <<x[1], x[2], x[3], x[4] \div 2>> \in Searches
             /\ (x[4] - 1) \div 2 < x[4] /\ (x[4] - 1) \div 2 \in Nat
             /\ x[4] \div 2 < x[4] /\ x[4] \div 2 \in Nat
             /\ x[3] + x[4] \div 2 = p /\ p + 1 + (x[4] - 1) \div 2 = x[3] + x[4]
  <1>1. x[1] \in Seq(Symbol) /\ x[2] \in Nat /\ x[3] \in Nat \ {0} /\ x[4] \in Nat
        /\ x[3] + x[4] <= Len(x[1]) + 1
    BY DEF Searches
  <1>2. Len(x[1]) \in Nat /\ DOMAIN x[1] = 1 .. Len(x[1])
    BY <1>1, LenProperties
  <1> DEFINE b == x[3]
             n == x[4]
             l == Len(x[1])
             h == n \div 2
             g == (n - 1) \div 2
  <1>3. b \in Nat \ {0} /\ n \in Nat \ {0} /\ l \in Nat /\ b + n <= l + 1
    BY <1>1, <1>2
  <1> HIDE DEF b, n, l
  <1>4. h \in Nat /\ g \in Nat /\ h < n /\ g < n /\ h + 1 + g = n
    BY <1>3, HalfFacts
  <1> HIDE DEF h, g
  <1>5. /\ b + h \in 1 .. l /\ b <= b + h /\ b + h < b + n /\ (b + h) + 1 \in Nat \ {0}
        /\ b + h + 1 + g = b + n /\ b + h + 1 + g <= l + 1 /\ b + h <= l + 1
    BY <1>3, <1>4
  <1>6. <<x[1], x[2], b + h + 1, g>> \in Searches
    BY <1>1, <1>4, <1>5, SearchesFacts DEF l
  <1>7. <<x[1], x[2], b, h>> \in Searches
    BY <1>1, <1>3, <1>4, <1>5, SearchesFacts DEF l
  <1>8. QED
    BY <1>1, <1>2, <1>3, <1>4, <1>5, <1>6, <1>7 DEF b, n, l, h, g

\* Where bsearch goes from x.
Right1(x) == <<x[1], x[2], x[3] + x[4] \div 2 + 1, (x[4] - 1) \div 2>>
Left1(x)  == <<x[1], x[2], x[3], x[4] \div 2>>

\* A step of bsearch depends on its two halves only.
LEMMA SameBody ==
  ASSUME NEW f, NEW g, NEW x \in Searches,
         x[4] # 0 => f[Left1(x)] = g[Left1(x)] /\ f[Right1(x)] = g[Right1(x)]
  PROVE  SearchBody(f, x) = SearchBody(g, x)
  BY DEF SearchBody, Left1, Right1

\* The halves are shorter.
LEMMA HalvesUpto ==
  ASSUME NEW n \in Nat, NEW x \in Upto(n), x[4] # 0
  PROVE  /\ Left1(x) \in Searches /\ Right1(x) \in Searches
         /\ Left1(x)[4] < x[4] /\ Right1(x)[4] < x[4]
         /\ Left1(x)[4] \in Nat /\ Right1(x)[4] \in Nat /\ x[4] \in Nat
         /\ Left1(x) \in Upto(n) /\ Right1(x) \in Upto(n)
  <1>1. x \in Searches /\ x[4] <= n
    BY DEF Upto
  <1>2. Left1(x)[4] = x[4] \div 2 /\ Right1(x)[4] = (x[4] - 1) \div 2
    BY DEF Left1, Right1
  <1>3. /\ Left1(x) \in Searches /\ Right1(x) \in Searches /\ x[4] \in Nat
        /\ x[4] \div 2 < x[4] /\ (x[4] - 1) \div 2 < x[4]
        /\ x[4] \div 2 \in Nat /\ (x[4] - 1) \div 2 \in Nat
    BY <1>1, Halves DEF Left1, Right1
  <1> DEFINE i == x[4] \div 2
             j == (x[4] - 1) \div 2
             k == x[4]
  <1>4. i \in Nat /\ j \in Nat /\ i < k /\ j < k /\ k <= n /\ k \in Nat
    BY <1>1, <1>3
  <1> HIDE DEF i, j, k
  <1>5. i <= n /\ j <= n
    BY <1>4
  <1>6. Left1(x)[4] <= n /\ Right1(x)[4] <= n
    BY <1>2, <1>5 DEF i, j
  <1>7. QED
    BY <1>2, <1>3, <1>6 DEF Upto

\* Two functions that search agree wherever both are defined.
LEMMA OneSearch ==
  ASSUME NEW m \in Nat, NEW n \in Nat, NEW f, NEW g,
         f = [x \in Upto(m) |-> SearchBody(f, x)], g = [x \in Upto(n) |-> SearchBody(g, x)]
  PROVE  \A x \in Upto(m) \cap Upto(n) : f[x] = g[x]
  <1> DEFINE S == {k \in Nat : \E x \in Upto(m) \cap Upto(n) : x[4] = k /\ f[x] # g[x]}
  <1>1. SUFFICES ASSUME S # {} PROVE FALSE
    <2>1. \A x \in Upto(m) : x[4] \in Nat
      BY DEF Upto, Searches
    <2>2. QED
      BY <1>1, <2>1
  <1>2. Least(S) \in S /\ \A k \in S : Least(S) <= k
    BY <1>1, LeastIs
  <1>3. PICK x \in Upto(m) \cap Upto(n) : x[4] = Least(S) /\ f[x] # g[x]
    BY <1>2
  <1>4. ASSUME x[4] # 0
        PROVE  f[Left1(x)] = g[Left1(x)] /\ f[Right1(x)] = g[Right1(x)]
    <2>1. /\ Left1(x) \in Upto(m) /\ Right1(x) \in Upto(m)
          /\ Left1(x) \in Upto(n) /\ Right1(x) \in Upto(n)
          /\ Left1(x)[4] < x[4] /\ Right1(x)[4] < x[4]
          /\ Left1(x)[4] \in Nat /\ Right1(x)[4] \in Nat /\ x[4] \in Nat
      BY <1>3, <1>4, HalvesUpto
    <2>2. \A y \in Upto(m) \cap Upto(n) : y[4] \in Nat /\ f[y] # g[y] => x[4] <= y[4]
      BY <1>2, <1>3
    <2>3. \A i, j \in Nat : i < j => ~ (j <= i)
      OBVIOUS
    <2>4. QED
      BY <2>1, <2>2, <2>3
  <1>5. x \in Searches
    BY DEF Upto
  <1>6. SearchBody(f, x) = SearchBody(g, x)
    BY <1>4, <1>5, SameBody
  <1>7. f[x] = SearchBody(f, x) /\ g[x] = SearchBody(g, x)
    OBVIOUS
  <1>8. QED
    BY <1>3, <1>6, <1>7

\* There is a function that searches parts of any length,
LEMMA AllSearches ==
  ASSUME NEW n \in Nat
  PROVE  SearchUpto(n)
  <1> DEFINE S == {k \in Nat : ~ SearchUpto(k)}
  <1>1. SUFFICES ASSUME S # {} PROVE FALSE
    BY <1>1
  <1> DEFINE k == Least(S)
  <1>2. k \in S /\ \A j \in S : k <= j
    BY <1>1, LeastIs
  <1> HIDE DEF k
  <1>3. k \in Nat
    BY <1>2
  <1>4. CASE k = 0
    <2> DEFINE f == [x \in Upto(0) |-> NoSymbol]
    <2>1. \A x \in Upto(0) : SearchBody(f, x) = NoSymbol
      <3>1. \A x \in Upto(0) : x[4] \in Nat /\ x[4] <= 0
        BY DEF Upto, Searches
      <3>2. \A x \in Upto(0) : x[4] = 0
        BY <3>1
      <3>3. QED
        BY <3>2 DEF SearchBody
    <2>2. f = [x \in Upto(0) |-> SearchBody(f, x)]
      BY <2>1
    <2>3. QED
      BY <1>2, <1>4, <2>2 DEF SearchUpto
  <1>5. CASE k # 0
    <2>1. k - 1 \in Nat /\ k - 1 < k
      BY <1>3, <1>5
    <2>2. SearchUpto(k - 1)
      BY <1>2, <1>3, <2>1
    <2>3. PICK f : f = [x \in Upto(k - 1) |-> SearchBody(f, x)]
      BY <2>2 DEF SearchUpto
    <2> DEFINE g == [x \in Upto(k) |-> SearchBody(f, x)]
    <2>4. \A x \in Upto(k) : x \in Searches /\ x[4] \in Nat /\ x[4] <= k
      BY DEF Upto, Searches
    <2>5. \A x \in Upto(k - 1) : g[x] = f[x]
      <3>1. Upto(k - 1) \subseteq Upto(k)
        BY <1>3, <1>5 DEF Upto, Searches
      <3>2. QED
        BY <2>3, <3>1
    <2>6. ASSUME NEW x \in Upto(k)
          PROVE  SearchBody(f, x) = SearchBody(g, x)
      <3>1. ASSUME x[4] # 0
            PROVE  Left1(x) \in Upto(k - 1) /\ Right1(x) \in Upto(k - 1)
        <4>1. /\ Left1(x) \in Searches /\ Right1(x) \in Searches
              /\ Left1(x)[4] < x[4] /\ Right1(x)[4] < x[4]
              /\ Left1(x)[4] \in Nat /\ Right1(x)[4] \in Nat
          BY <1>3, <2>6, <3>1, HalvesUpto
        <4>2. \A i, j \in Nat : i < j /\ j <= k => i <= k - 1
          BY <1>3
        <4>3. QED
          BY <2>4, <4>1, <4>2 DEF Upto
      <3>2. QED
        BY <2>4, <2>5, <3>1, SameBody
    <2>7. g = [x \in Upto(k) |-> SearchBody(g, x)]
      BY <2>6
    <2>8. QED
      BY <1>2, <2>7 DEF SearchUpto
  <1>6. QED
    BY <1>4, <1>5

\* so that Search satisfies its definition.
LEMMA SearchIs == Search = [x \in Searches |-> SearchBody(Search, x)]
  <1> DEFINE G(n) == CHOOSE f : f = [x \in Upto(n) |-> SearchBody(f, x)]
             F == [x \in Searches |-> G(x[4])[x]]
  <1>1. ASSUME NEW n \in Nat
        PROVE  G(n) = [x \in Upto(n) |-> SearchBody(G(n), x)]
    BY AllSearches DEF SearchUpto
  <1> HIDE DEF G
  <1>2. ASSUME NEW x \in Searches
        PROVE  F[x] = SearchBody(F, x)
    <2>1. x[4] \in Nat /\ x \in Upto(x[4])
      BY DEF Searches, Upto
    <2>2. F[x] = SearchBody(G(x[4]), x)
      <3>1. F[x] = G(x[4])[x]
        OBVIOUS
      <3>2. QED
        BY <1>1, <2>1, <3>1
    <2>3. ASSUME NEW y \in Searches, y[4] \in Nat, y[4] < x[4]
          PROVE  F[y] = G(x[4])[y]
      <3>1. y \in Upto(y[4]) /\ y \in Upto(x[4])
        BY <2>1, <2>3 DEF Upto
      <3>2. G(y[4]) = [z \in Upto(y[4]) |-> SearchBody(G(y[4]), z)]
            /\ G(x[4]) = [z \in Upto(x[4]) |-> SearchBody(G(x[4]), z)]
        BY <1>1, <2>1, <2>3
      <3>3. G(y[4])[y] = G(x[4])[y]
        BY <2>1, <2>3, <3>1, <3>2, OneSearch
      <3>4. QED
        BY <3>3
    <2>4. x[4] # 0 => F[Left1(x)] = G(x[4])[Left1(x)] /\ F[Right1(x)] = G(x[4])[Right1(x)]
      BY <2>1, <2>3, HalvesUpto
    <2> HIDE DEF F
    <2>5. SearchBody(F, x) = SearchBody(G(x[4]), x)
      BY <2>4, SameBody
    <2>6. QED
      BY <2>2, <2>5
  <1>3. F = [x \in Searches |-> SearchBody(F, x)]
    BY <1>2
  <1>4. \E f : f = [x \in Searches |-> SearchBody(f, x)]
    BY <1>3
  <1>5. Search = CHOOSE f : f = [x \in Searches |-> SearchBody(f, x)]
    BY DEF Search, SearchBody
  <1>6. QED
    BY <1>4, <1>5

\* What is found has the address.
Has(s, a) == s.addr <= a /\ a < s.addr + s.size

\* What bcompar tells.
LEMMA BcomparFacts ==
  ASSUME NEW s \in Symbol, NEW a \in Nat
  PROVE  /\ Bcompar(a, s) = 0 <=> Has(s, a)
         /\ Bcompar(a, s) > 0 => s.addr + s.size <= a
         /\ ~ (Bcompar(a, s) > 0) /\ Bcompar(a, s) # 0 => a < s.addr
         /\ Has(s, a) => s # NoSymbol
  <1>1. s.addr \in Nat /\ s.size \in Nat
    BY DEF Symbol
  <1>2. NoSymbol.addr = 0 /\ NoSymbol.size = 0
    BY DEF NoSymbol
  <1> DEFINE d == s.addr
             z == s.size
  <1>3. d \in Nat /\ z \in Nat
    BY <1>1
  <1> HIDE DEF d, z
  <1>4. CASE a < d
    BY <1>3, <1>4, <1>2 DEF Bcompar, Has, d, z
  <1>5. CASE ~ (a < d) /\ a - d >= z
    <2>1. d + z <= a
      BY <1>3, <1>5
    <2>2. Bcompar(a, s) = 1
      BY <1>5 DEF Bcompar, d, z
    <2>3. ~ (a < d + z)
      BY <1>3, <2>1
    <2>4. QED
      BY <2>1, <2>2, <2>3 DEF Has, d, z
  <1>6. CASE ~ (a < d) /\ ~ (a - d >= z)
    <2>1. d <= a /\ a < d + z
      BY <1>3, <1>6
    <2>2. Bcompar(a, s) = 0
      BY <1>6 DEF Bcompar, d, z
    <2>3. z # 0
      BY <1>3, <2>1
    <2>4. QED
      BY <1>2, <2>1, <2>2, <2>3 DEF Has, d, z
  <1>7. QED
    BY <1>4, <1>5, <1>6

\* What bsearch finds contains the address.
LEMMA SearchFinds ==
  ASSUME NEW x \in Searches
  PROVE  Search[x] = NoSymbol \/ \E p \in DOMAIN x[1] : Search[x] = x[1][p] /\ Has(x[1][p], x[2])
  <1> DEFINE Ok(y) == Search[y] = NoSymbol
                        \/ \E p \in DOMAIN y[1] : Search[y] = y[1][p] /\ Has(y[1][p], y[2])
             S == {k \in Nat : \E y \in Searches : y[4] = k /\ ~ Ok(y)}
  <1> HIDE DEF Ok
  <1>0. \A y \in Searches : y[4] \in Nat
    BY DEF Searches
  <1>1. SUFFICES ASSUME S # {} PROVE FALSE
    BY <1>0, <1>1 DEF Ok
  <1>2. Least(S) \in S /\ \A k \in S : Least(S) <= k
    BY <1>1, LeastIs
  <1>3. PICK y \in Searches : y[4] = Least(S) /\ ~ Ok(y)
    BY <1>2
  <1>4. \A z \in Searches : z[4] < y[4] => Ok(z)
    <2>1. \A z \in Searches : ~ Ok(z) => y[4] <= z[4]
      BY <1>0, <1>2, <1>3
    <2>2. \A i, j \in Nat : i < j => ~ (j <= i)
      OBVIOUS
    <2>3. QED
      BY <1>0, <2>1, <2>2
  <1>5. Search[y] = SearchBody(Search, y)
    BY SearchIs
  <1>6. CASE y[4] = 0
    BY <1>3, <1>5, <1>6, Zenon DEF SearchBody, Ok
  <1>7. CASE y[4] # 0
    <2> DEFINE p == y[3] + y[4] \div 2
    <2>1. y \in Upto(y[4]) /\ y[4] \in Nat
      BY <1>0 DEF Upto, Searches
    <2>2. Ok(Left1(y)) /\ Ok(Right1(y))
      BY <1>4, <1>7, <2>1, HalvesUpto
    <2>3. Left1(y)[1] = y[1] /\ Left1(y)[2] = y[2] /\ Right1(y)[1] = y[1] /\ Right1(y)[2] = y[2]
      BY DEF Left1, Right1
    <2>4. p \in DOMAIN y[1] /\ y[1] \in Seq(Symbol) /\ y[2] \in Nat
      BY <1>7, Halves
    <2>5. y[1][p] \in Symbol
      BY <2>4, ElementOfSeq, LenProperties
    <2>6. CASE Bcompar(y[2], y[1][p]) = 0
      <3>1. Search[y] = y[1][p]
        BY <1>5, <1>7, <2>6 DEF SearchBody
      <3>2. Has(y[1][p], y[2])
        BY <2>4, <2>5, <2>6, BcomparFacts
      <3>3. QED
        BY <1>3, <2>4, <3>1, <3>2, Zenon DEF Ok
    <2>7. CASE Bcompar(y[2], y[1][p]) # 0
      <3>1. Search[y] = Search[Left1(y)] \/ Search[y] = Search[Right1(y)]
        BY <1>5, <1>7, <2>7 DEF SearchBody, Left1, Right1
      <3>2. QED
        BY <1>3, <2>2, <2>3, <3>1 DEF Ok
    <2>8. QED
      BY <2>6, <2>7
  <1>8. QED
    BY <1>6, <1>7

\* A table as qsort leaves it.
Ordered(t) == \A i, j \in DOMAIN t : i < j => t[i].addr <= t[j].addr

\* In a sorted table whose symbols do not overlap it misses none.
LEMMA SearchMisses ==
  ASSUME NEW t \in Seq(Symbol), NEW a \in Nat, Ordered(t), Separate(t)
  PROVE  \A x \in Searches : \A k \in DOMAIN t :
           x[1] = t /\ x[2] = a /\ x[3] <= k /\ k < x[3] + x[4] /\ Has(t[k], a)
             => Search[x] # NoSymbol
  <1> DEFINE Bad(y) == /\ y[1] = t /\ y[2] = a /\ Search[y] = NoSymbol
                       /\ \E k \in DOMAIN t : y[3] <= k /\ k < y[3] + y[4] /\ Has(t[k], a)
             S == {k \in Nat : \E y \in Searches : y[4] = k /\ Bad(y)}
  <1> HIDE DEF Bad
  <1>0. \A y \in Searches : y[4] \in Nat
    BY DEF Searches
  <1>1. SUFFICES ASSUME S # {} PROVE FALSE
    BY <1>0, <1>1 DEF Bad
  <1>2. Least(S) \in S /\ \A k \in S : Least(S) <= k
    BY <1>1, LeastIs
  <1>3. PICK y \in Searches : y[4] = Least(S) /\ Bad(y)
    BY <1>2
  <1>4. \A z \in Searches : z[4] < y[4] => ~ Bad(z)
    <2>1. \A z \in Searches : Bad(z) => y[4] <= z[4]
      BY <1>0, <1>2, <1>3
    <2>2. \A i, j \in Nat : i < j => ~ (j <= i)
      OBVIOUS
    <2>3. QED
      BY <1>0, <2>1, <2>2
  <1>5. Search[y] = SearchBody(Search, y)
    BY SearchIs
  <1>6. PICK k \in DOMAIN t : y[3] <= k /\ k < y[3] + y[4] /\ Has(t[k], a)
    BY <1>3 DEF Bad
  <1>7. y[1] = t /\ y[2] = a /\ Search[y] = NoSymbol
    BY <1>3 DEF Bad
  <1>8. DOMAIN t = 1 .. Len(t) /\ Len(t) \in Nat /\ \A i \in DOMAIN t : t[i] \in Symbol
    BY SeqFacts
  <1>9. y[3] \in Nat /\ y[4] \in Nat /\ k \in Nat
    BY <1>8 DEF Searches
  <1>10. y[4] # 0
    <2> DEFINE b == y[3]
               n == y[4]
    <2>1. b \in Nat /\ n \in Nat /\ b <= k /\ k < b + n
      BY <1>6, <1>9
    <2> HIDE DEF b, n
    <2>2. n # 0
      BY <1>9, <2>1
    <2>3. QED
      BY <2>2 DEF n
  <1> DEFINE p == y[3] + y[4] \div 2
  <1>11. /\ p \in DOMAIN t /\ y[3] <= p /\ p < y[3] + y[4]
         /\ Left1(y) \in Searches /\ Right1(y) \in Searches
         /\ Left1(y)[4] < y[4] /\ Right1(y)[4] < y[4]
         /\ Left1(y)[1] = t /\ Left1(y)[2] = a /\ Left1(y)[3] = y[3]
         /\ Right1(y)[1] = t /\ Right1(y)[2] = a /\ Right1(y)[3] = p + 1
         /\ Left1(y)[3] + Left1(y)[4] = p /\ Right1(y)[3] + Right1(y)[4] = y[3] + y[4]
    BY <1>7, <1>10, Halves DEF Left1, Right1
  <1>12. p \in Nat
    BY <1>8, <1>11
  <1> HIDE DEF p
  <1>13. t[p] \in Symbol /\ t[k] \in Symbol
    BY <1>8, <1>11
  <1>14. /\ t[p].addr \in Nat /\ t[k].addr \in Nat /\ t[p].size \in Nat /\ t[k].size \in Nat
         /\ t[k].addr <= a /\ a < t[k].addr + t[k].size
    BY <1>6, <1>13 DEF Symbol, Has
  <1>15. CASE Bcompar(a, t[p]) = 0
    <2>1. Search[y] = t[p] /\ t[p] # NoSymbol
      BY <1>5, <1>7, <1>10, <1>13, <1>15, BcomparFacts DEF SearchBody, p
    <2>2. QED
      BY <1>7, <2>1
  <1>16. CASE Bcompar(a, t[p]) > 0
    <2>1. Search[Right1(y)] = NoSymbol
      BY <1>5, <1>7, <1>10, <1>16 DEF SearchBody, p, Right1
    <2>2. t[p].addr + t[p].size <= a
      BY <1>13, <1>16, BcomparFacts
    <2>3. ~ (k < p)
      <3>1. SUFFICES ASSUME k < p PROVE FALSE
        BY <3>1
      <3>2. \/ t[k].addr + t[k].size <= t[p].addr
            \/ t[k].addr = t[p].addr /\ t[k].size = t[p].size
        BY <1>11, <3>1 DEF Separate
      <3>3. QED
        BY <1>14, <2>2, <3>2
    <2>4. k # p
      BY <1>14, <2>2
    <2>5. p + 1 <= k
      BY <1>9, <1>12, <2>3, <2>4
    <2>6. Bad(Right1(y))
      BY <1>6, <1>11, <2>1, <2>5 DEF Bad
    <2>7. QED
      BY <1>4, <1>11, <2>6
  <1>17. CASE ~ (Bcompar(a, t[p]) > 0) /\ Bcompar(a, t[p]) # 0
    <2>1. Search[Left1(y)] = NoSymbol
      BY <1>5, <1>7, <1>10, <1>17 DEF SearchBody, p, Left1
    <2>2. a < t[p].addr
      BY <1>13, <1>17, BcomparFacts
    <2>3. ~ (p < k)
      <3>1. SUFFICES ASSUME p < k PROVE FALSE
        BY <3>1
      <3>2. t[p].addr <= t[k].addr
        BY <1>11, <3>1 DEF Ordered
      <3>3. QED
        BY <1>14, <2>2, <3>2
    <2>4. k # p
      BY <1>14, <2>2
    <2>5. k < p
      BY <1>9, <1>12, <2>3, <2>4
    <2>6. Bad(Left1(y))
      BY <1>6, <1>11, <2>1, <2>5 DEF Bad
    <2>7. QED
      BY <1>4, <1>11, <2>6
  <1>18. QED
    BY <1>15, <1>16, <1>17

\* What symbol_tables_lookup returns.
LEMMA LookupFacts ==
  ASSUME NEW t \in Seq(Symbol), NEW a \in Nat, NEW wide \in BOOLEAN, Ordered(t)
  PROVE  LET s == Lookup(t, a, wide)
         IN  /\ s \in Symbol \cup {NoSymbol}
             /\ s # NoSymbol => s \in Containing(t, a)
             /\ Containing(t, a) # {} /\ Separate(t) /\ a # 0 => s # NoSymbol
  <1> DEFINE x == <<t, a, 1, Len(t)>>
  <1>1. DOMAIN t = 1 .. Len(t) /\ Len(t) \in Nat /\ \A i \in DOMAIN t : t[i] \in Symbol
    BY SeqFacts
  <1>2. x \in Searches
    BY <1>1, SearchesFacts
  <1>3. x[1] = t /\ x[2] = a /\ x[3] = 1 /\ x[4] = Len(t)
    OBVIOUS
  <1>4. Bsearch(t, a) = Search[x]
    BY DEF Bsearch
  <1> HIDE DEF x
  <1>6. Search[x] = NoSymbol \/ \E p \in DOMAIN t : Search[x] = t[p] /\ Has(t[p], a)
    BY <1>2, <1>3, SearchFinds
  <1>7. Containing(t, a) = {t[p] : p \in {i \in DOMAIN t : Has(t[i], a)}}
    BY DEF Containing, Range, Has
  <1>8. Search[x] \in Symbol \cup {NoSymbol} /\ (Search[x] # NoSymbol => Search[x] \in Containing(t, a))
    BY <1>1, <1>6, <1>7
  <1>9. ASSUME Containing(t, a) # {}, Separate(t)
        PROVE  Search[x] # NoSymbol
    <2>1. PICK k \in DOMAIN t : Has(t[k], a)
      BY <1>7, <1>9
    <2>2. x[3] <= k /\ k < x[3] + x[4]
      BY <1>1, <1>3
    <2>3. QED
      BY <1>2, <1>3, <1>9, <2>1, <2>2, SearchMisses
  <1>10. QED
    BY <1>4, <1>8, <1>9 DEF Lookup
-----------------------------------------------------------------------------
(* The tables.                                                             *)

\* The symbols that are copied are symbols, finitely many.
LEMMA CopiedFacts ==
  ASSUME NEW f \in Files
  PROVE  LET o == Object[f]
         IN  /\ \A c \in Copied(o) : SymbolAt(o, c) \in Symbol
             /\ Cardinality(Copied(o)) \in Nat
  <1> DEFINE o == Object[f]
             n == Len(o.dynsym)
             m == Len(o.symtab)
             cs == Copied(o)
             g == [c \in cs |-> IF c[1] = "dynsym" THEN c[2] ELSE n + c[2]]
  <1>1. o.dynsym \in Seq(Symbol) /\ o.symtab \in Seq(Symbol)
    BY ObjectAssumption
  <1>2. /\ n \in Nat /\ DOMAIN o.dynsym = 1 .. n /\ \A i \in 1 .. n : o.dynsym[i] \in Symbol
        /\ m \in Nat /\ DOMAIN o.symtab = 1 .. m /\ \A i \in 1 .. m : o.symtab[i] \in Symbol
    BY <1>1, SeqFacts
  <1>3. \A c \in cs : \/ \E i \in 1 .. n : c = <<"dynsym", i>>
                      \/ \E i \in 1 .. m : c = <<"symtab", i>>
    BY <1>2 DEF Copied
  <1> HIDE DEF cs, n, m, o
  <1>4. \A c \in cs : SymbolAt(o, c) \in Symbol
    BY <1>2, <1>3 DEF SymbolAt
  <1>5. g \in Injection(cs, 1 .. n + m)
    <2>1. g \in [cs -> 1 .. n + m]
      BY <1>2, <1>3
    <2>2. \A c, d \in cs : g[c] = g[d] => c = d
      BY <1>2, <1>3
    <2>3. QED
      BY <2>1, <2>2 DEF Injection, IsInjective
  <1>6. IsFiniteSet(cs)
    BY <1>2, <1>5, FS_Interval, FS_Injection
  <1>7. Cardinality(cs) \in Nat
    BY <1>6, FS_CardinalityType
  <1>8. QED
    BY <1>4, <1>7 DEF cs, o

\* A table is sorted.
LEMMA TablesFacts ==
  ASSUME NEW f \in Files, NEW t \in Tables(f)
  PROVE  t \in Seq(Symbol) /\ Ordered(t)
  <1> DEFINE o == Object[f]
             n == Cardinality(Copied(o))
  <1>1. PICK p \in Sorted(o, Copied(o)) : t = [i \in DOMAIN p |-> SymbolAt(o, p[i])]
    BY DEF Tables
  <1>2. /\ p \in [1 .. n -> Copied(o)]
        /\ \A i, j \in DOMAIN p : i < j => SymbolAt(o, p[i]).addr <= SymbolAt(o, p[j]).addr
    BY DEF Sorted
  <1>3. n \in Nat /\ \A c \in Copied(o) : SymbolAt(o, c) \in Symbol
    BY CopiedFacts
  <1> HIDE DEF n, o
  <1>4. DOMAIN p = 1 .. n /\ \A i \in 1 .. n : p[i] \in Copied(o)
    BY <1>2
  <1>5. t \in [1 .. n -> Symbol]
    BY <1>1, <1>3, <1>4
  <1>6. t \in Seq(Symbol)
    BY <1>3, <1>5, SeqDef
  <1>7. DOMAIN t = 1 .. n /\ \A i \in 1 .. n : t[i] = SymbolAt(o, p[i])
    BY <1>1, <1>4
  <1>8. QED
    BY <1>2, <1>4, <1>6, <1>7 DEF Ordered
-----------------------------------------------------------------------------
(* The lists of mappings.                                                  *)

Rows == [lo : Nat, hi : Nat, file : Files, exec : BOOLEAN, words : Nat]
Maps == [lo : Nat, hi : Nat, file : Files, loaded : BOOLEAN]

\* The recursive function of MapList satisfies its definition.
LEMMA ListedEq ==
  ASSUME NEW ls \in Seq(Rows)
  PROVE  Listed(ls) =
           [n \in 0 .. Len(ls) |-> IF n = 0 THEN << >> ELSE AddLine(Listed(ls)[n - 1], ls[n])]
  <1> DEFINE Is(f, m) == f = [n \in 0 .. m |-> IF n = 0 THEN << >> ELSE AddLine(f[n - 1], ls[n])]
             S == {k \in Nat : ~ \E f : Is(f, k)}
  <1>1. S = {}
    <2> SUFFICES ASSUME S # {} PROVE FALSE
      OBVIOUS
    <2> DEFINE k == Least(S)
    <2>2. k \in S /\ \A j \in S : k <= j
      BY LeastIs
    <2> HIDE DEF k
    <2>3. CASE k = 0
      <3> DEFINE f == [n \in 0 .. 0 |-> << >>]
      <3>1. 0 .. 0 = {0}
        OBVIOUS
      <3>2. Is(f, 0)
        BY <3>1
      <3>3. QED
        BY <2>2, <2>3, <3>2
    <2>4. CASE k # 0
      <3>1. k - 1 \in Nat /\ ~ (k <= k - 1)
        BY <2>2, <2>4
      <3>2. k - 1 \notin S
        BY <2>2, <3>1
      <3>3. PICK f : Is(f, k - 1)
        BY <3>1, <3>2
      <3> DEFINE g == [n \in 0 .. k |-> IF n = k THEN AddLine(f[k - 1], ls[k]) ELSE f[n]]
      <3> HIDE DEF Is
      <3>4. \A n \in 0 .. k : n # k => n \in 0 .. k - 1
        BY <2>2, <3>1
      <3>5. \A n \in 0 .. k : n # 0 => n - 1 \in 0 .. k - 1 /\ n - 1 \in 0 .. k /\ n - 1 # k
        BY <2>2, <3>1
      <3>6. \A n \in 0 .. k - 1 : f[n] = IF n = 0 THEN << >> ELSE AddLine(f[n - 1], ls[n])
        BY <3>3 DEF Is
      <3>7. \A n \in 0 .. k : g[n] = IF n = 0 THEN << >> ELSE AddLine(g[n - 1], ls[n])
        <4>1. \A n \in 0 .. k : n # 0 => g[n - 1] = f[n - 1]
          BY <3>5
        <4>2. \A n \in 0 .. k : n = k => g[n] = AddLine(f[n - 1], ls[n]) /\ n # 0
          BY <2>4
        <4>3. \A n \in 0 .. k : n # k => g[n] = f[n]
          OBVIOUS
        <4> HIDE DEF g
        <4>4. QED
          BY <3>4, <3>6, <4>1, <4>2, <4>3
      <3>8. g = [n \in 0 .. k |-> IF n = 0 THEN << >> ELSE AddLine(g[n - 1], ls[n])]
        <4>1. DOMAIN g = 0 .. k /\ g = [n \in 0 .. k |-> g[n]]
          OBVIOUS
        <4> HIDE DEF g
        <4>2. QED
          BY <3>7, <4>1
      <3>9. QED
        BY <2>2, <3>8 DEF Is
    <2>5. QED
      BY <2>3, <2>4
  <1>2. \E f : Is(f, Len(ls))
    BY <1>1, LenProperties
  <1>3. Listed(ls) = CHOOSE f : Is(f, Len(ls))
    BY DEF Listed
  <1>4. QED
    BY <1>2, <1>3

\* A line leaves a list of maps,
LEMMA AddLineFacts ==
  ASSUME NEW list \in Seq(Maps), NEW l \in Rows
  PROVE  AddLine(list, l) \in Seq(Maps)
  <1>1. Mapinfo(l) \in Maps
    BY DEF Mapinfo, Maps, Rows
  <1>2. <<Mapinfo(l)>> \in Seq(Maps)
    BY <1>1
  <1>3. QED
    BY <1>2, ConcatProperties DEF AddLine

\* and so do all of them.
LEMMA ListedFacts ==
  ASSUME NEW ls \in Seq(Rows)
  PROVE  /\ \A n \in 0 .. Len(ls) : Listed(ls)[n] \in Seq(Maps)
         /\ Listed(ls)[0] = << >>
         /\ \A n \in 1 .. Len(ls) : Listed(ls)[n] = AddLine(Listed(ls)[n - 1], ls[n])
         /\ MapList(ls) \in Seq(Maps) /\ MapList(ls) = Listed(ls)[Len(ls)]
  <1>1. Len(ls) \in Nat /\ DOMAIN ls = 1 .. Len(ls) /\ \A i \in DOMAIN ls : ls[i] \in Rows
    BY SeqFacts
  <1> DEFINE L == Listed(ls)
  <1>2. L = [n \in 0 .. Len(ls) |-> IF n = 0 THEN << >> ELSE AddLine(L[n - 1], ls[n])]
    BY ListedEq
  <1> HIDE DEF L
  <1>3. L[0] = << >>
    BY <1>1, <1>2
  <1>4. \A n \in 1 .. Len(ls) : L[n] = AddLine(L[n - 1], ls[n])
    BY <1>1, <1>2
  <1> DEFINE S == {n \in 0 .. Len(ls) : L[n] \notin Seq(Maps)}
  <1>5. S = {}
    <2> SUFFICES ASSUME S # {} PROVE FALSE
      OBVIOUS
    <2> DEFINE k == Least(S)
    <2>1. S \in SUBSET Nat
      BY <1>1
    <2>2. k \in S /\ \A j \in S : k <= j
      BY <2>1, LeastIs
    <2> HIDE DEF k
    <2>3. k # 0
      <3>1. << >> \in Seq(Maps)
        BY EmptySeq
      <3>2. L[k] \notin Seq(Maps)
        BY <2>2
      <3>3. QED
        BY <1>3, <3>1, <3>2
    <2>4. k \in 1 .. Len(ls) /\ k - 1 \in 0 .. Len(ls) /\ ~ (k <= k - 1)
      BY <1>1, <2>2, <2>3
    <2>5. L[k - 1] \in Seq(Maps)
      BY <2>2, <2>4
    <2>6. QED
      BY <1>1, <1>4, <2>2, <2>4, <2>5, AddLineFacts
  <1>6. QED
    BY <1>1, <1>3, <1>4, <1>5 DEF L, MapList

Loaded(list, parser) == \A i \in DOMAIN list : list[i].loaded = ReadsTable(list[i].file, parser)

\* A file has a table or not.
LEMMA ReadsTableFacts ==
  ASSUME NEW f \in Files, NEW parser
  PROVE  ReadsTable(f, parser) \in BOOLEAN
  BY DEF ReadsTable, Readable

\* parse_elf changes only whether a mapping has a table.
LEMMA ParseElfFacts ==
  ASSUME NEW list \in Seq(Maps), NEW parser
  PROVE  LET l == ParseElf(list, parser)
         IN  /\ l \in Seq(Maps) /\ Len(l) = Len(list) /\ DOMAIN l = DOMAIN list
             /\ \A i \in DOMAIN list : l[i].lo = list[i].lo /\ l[i].hi = list[i].hi
                                         /\ l[i].file = list[i].file
             /\ Loaded(l, parser)
  <1> DEFINE l == ParseElf(list, parser)
  <1>1. Len(list) \in Nat /\ DOMAIN list = 1 .. Len(list) /\ \A i \in DOMAIN list : list[i] \in Maps
    BY SeqFacts
  <1>2. l = [i \in 1 .. Len(list) |-> [list[i] EXCEPT !.loaded = ReadsTable(list[i].file, parser)]]
    BY <1>1 DEF ParseElf
  <1>3. ASSUME NEW i \in 1 .. Len(list)
        PROVE  /\ l[i] \in Maps /\ l[i].lo = list[i].lo /\ l[i].hi = list[i].hi
               /\ l[i].file = list[i].file /\ l[i].loaded = ReadsTable(list[i].file, parser)
    <2>1. list[i] \in Maps
      BY <1>1
    <2>2. ReadsTable(list[i].file, parser) \in BOOLEAN
      BY <2>1, ReadsTableFacts DEF Maps
    <2>3. l[i] = [list[i] EXCEPT !.loaded = ReadsTable(list[i].file, parser)]
      BY <1>2
    <2>4. QED
      BY <2>1, <2>2, <2>3 DEF Maps
  <1>4. DOMAIN l = 1 .. Len(list)
    BY <1>2
  <1> HIDE DEF l
  <1>5. l = [i \in 1 .. Len(list) |-> l[i]]
    BY <1>2, <1>4
  <1>6. l \in [1 .. Len(list) -> Maps]
    BY <1>3, <1>5
  <1>7. l \in Seq(Maps)
    BY <1>1, <1>6, SeqDef
  <1>8. Len(l) = Len(list)
    BY <1>1, <1>4, <1>7, LenProperties
  <1>9. QED
    BY <1>1, <1>3, <1>4, <1>7, <1>8 DEF l, Loaded

\* pc_to_mapsinfo finds the first mapping with the address, if there is one.
LEMMA MapFound ==
  ASSUME NEW list \in Seq(Maps), NEW pc \in Nat
  PROVE  LET m == PcToMapsinfo(list, pc)
         IN  \/ m = NoMap /\ ~ \E i \in DOMAIN list : list[i].lo <= pc /\ pc < list[i].hi
             \/ \E i \in DOMAIN list :
                  /\ m = list[i] /\ list[i].lo <= pc /\ pc < list[i].hi
                  /\ \A j \in DOMAIN list : list[j].lo <= pc /\ pc < list[j].hi => i <= j
  <1> DEFINE with == {i \in DOMAIN list : list[i].lo <= pc /\ pc < list[i].hi}
  <1>1. with \in SUBSET Nat
    BY SeqFacts
  <1>2. PcToMapsinfo(list, pc) = IF with = {} THEN NoMap ELSE list[Least(with)]
    BY DEF PcToMapsinfo, Least
  <1>3. with # {} => Least(with) \in with /\ \A m \in with : Least(with) <= m
    BY <1>1, LeastIs
  <1>4. QED
    BY <1>2, <1>3

\* The symbols that a list has do not change what it finds.
LEMMA SameFile ==
  ASSUME NEW l \in Seq(Maps), NEW list \in Seq(Maps), NEW pc \in Nat, DOMAIN l = DOMAIN list,
         \A i \in DOMAIN list : l[i].lo = list[i].lo /\ l[i].hi = list[i].hi
                                  /\ l[i].file = list[i].file
  PROVE  PcToMapsinfo(l, pc).file = PcToMapsinfo(list, pc).file
  <1> DEFINE with == {i \in DOMAIN list : list[i].lo <= pc /\ pc < list[i].hi}
             same == {i \in DOMAIN l : l[i].lo <= pc /\ pc < l[i].hi}
  <1>1. with = same
    OBVIOUS
  <1>2. with \in SUBSET Nat
    BY SeqFacts
  <1>3. PcToMapsinfo(list, pc) = IF with = {} THEN NoMap ELSE list[Least(with)]
    BY DEF PcToMapsinfo, Least
  <1>4. PcToMapsinfo(l, pc) = IF same = {} THEN NoMap ELSE l[Least(same)]
    BY DEF PcToMapsinfo, Least
  <1>5. with # {} => Least(with) \in DOMAIN list
    BY <1>2, LeastIs
  <1> HIDE DEF with, same
  <1>6. QED
    BY <1>1, <1>3, <1>4, <1>5
-----------------------------------------------------------------------------
(* The names of a stack.                                                   *)

PcSet    == [kind : {"pc"}, of : Tasks, pc : Nat]
FrameSet == [kind : {"frame"}, of : Tasks, pc : Nat, rel : Nat, file : Files \cup {"none"},
             sym : Symbol \cup {NoSymbol}]

TablesOK == table \in [Files -> Seq(Symbol)] /\ \A f \in Files : Ordered(table[f])

\* The width of the files that the tool reads.
Reads == IF request.ask = "trace" THEN 32 ELSE Parser

\* A line with an address has a name that contains it: NameContains says it of all lines.
NameIn(l) ==
  LET in == Containing(table[l.file], l.rel)
  IN  l.file # "none" /\ ReadsTable(l.file, Reads) =>
        /\ l.sym # NoSymbol => \E s \in in : s.name = l.sym.name
        /\ in # {} /\ Separate(table[l.file]) /\ l.rel # 0 => l.sym # NoSymbol

\* What pc_to_mapsinfo returns.
LEMMA MapType ==
  ASSUME NEW list \in Seq(Maps), NEW pc \in Nat
  PROVE  LET m == PcToMapsinfo(list, pc)
         IN  /\ m = NoMap \/ (m \in Maps /\ m.lo <= pc)
             /\ m.file \in Files \cup {"none"} /\ (m.loaded => m \in Maps /\ m.file \in Files)
             /\ RelPc(m, pc) \in Nat
             /\ m.file # "none" => \E i \in DOMAIN list : m = list[i]
  <1> DEFINE m == PcToMapsinfo(list, pc)
  <1>1. \A i \in DOMAIN list : list[i] \in Maps
    BY SeqFacts
  <1>2. m = NoMap \/ \E i \in DOMAIN list : m = list[i] /\ list[i].lo <= pc
    BY MapFound
  <1> HIDE DEF m
  <1>3. CASE m = NoMap
    <2>1. m.file = "none" /\ m.loaded = FALSE /\ RelPc(m, pc) = pc
      BY <1>3 DEF NoMap, RelPc
    <2>2. QED
      BY <1>3, <2>1 DEF m
  <1>4. ASSUME NEW i \in DOMAIN list, m = list[i], list[i].lo <= pc
        PROVE  /\ m \in Maps /\ m.lo <= pc /\ m.file \in Files /\ RelPc(m, pc) \in Nat
    <2>1. m \in Maps /\ m.lo <= pc
      BY <1>1, <1>4
    <2>2. m.lo \in Nat /\ m.file \in Files
      BY <2>1 DEF Maps
    <2>3. pc - m.lo \in Nat
      BY <2>1, <2>2
    <2>4. QED
      BY <2>1, <2>2, <2>3 DEF RelPc
  <1>5. QED
    BY <1>2, <1>3, <1>4 DEF m

\* What is printed with an address.
LEMMA UnwoundFacts ==
  ASSUME TablesOK, NEW list \in Seq(Maps), NEW pcs \in Seq(PcSet), NEW wide \in BOOLEAN,
         NEW i \in DOMAIN pcs
  PROVE  LET u == Unwound(table, list, pcs, wide, i)
             m == PcToMapsinfo(list, pcs[i].pc)
         IN  /\ u.pc = pcs[i].pc /\ u.rel \in Nat /\ u.rel = RelPc(m, pcs[i].pc)
             /\ u.file = m.file /\ u.file \in Files \cup {"none"} /\ u.sym \in Symbol \cup {NoSymbol}
             /\ m.loaded => u.sym = Lookup(table[m.file], u.rel, wide)
  <1>1. Len(pcs) \in Nat /\ DOMAIN pcs = 1 .. Len(pcs) /\ \A j \in DOMAIN pcs : pcs[j] \in PcSet
    BY SeqFacts
  <1>2. i \in Nat /\ 1 .. i \subseteq DOMAIN pcs /\ \A j \in 1 .. i : pcs[j].pc \in Nat
    <2>1. i \in Nat /\ i <= Len(pcs)
      BY <1>1
    <2>2. 1 .. i \subseteq DOMAIN pcs
      BY <1>1, <2>1
    <2>3. \A j \in DOMAIN pcs : pcs[j].pc \in Nat
      BY <1>1 DEF PcSet
    <2>4. QED
      BY <2>1, <2>2, <2>3
  <1> DEFINE map(j) == PcToMapsinfo(list, pcs[j].pc)
             rel(j) == RelPc(map(j), pcs[j].pc)
             known  == {j \in 1 .. i : map(j).loaded}
             sym    == [j \in known |-> Lookup(table[map(j).file], rel(j), wide)]
             last   == CHOOSE j \in known : \A k \in known : k <= j
             u      == Unwound(table, list, pcs, wide, i)
  <1>3. u = [pc |-> pcs[i].pc, rel |-> rel(i), file |-> map(i).file,
             sym |-> IF known = {} THEN NoSymbol ELSE sym[last]]
    BY DEF Unwound
  <1>4. \A j \in 1 .. i : rel(j) \in Nat /\ map(j).file \in Files \cup {"none"}
                           /\ (map(j).loaded => map(j).file \in Files)
    BY <1>2, MapType
  <1>5. \A j \in known : sym[j] \in Symbol \cup {NoSymbol}
    BY <1>4, LookupFacts DEF TablesOK
  <1>6. known # {} => last \in known /\ \A k \in known : k <= last
    <2> SUFFICES ASSUME known # {} PROVE \E j \in known : \A k \in known : k <= j
      OBVIOUS
    <2> DEFINE S == {n \in 0 .. i : i - n \in known}
    <2>1. known \subseteq 1 .. i
      OBVIOUS
    <2> HIDE DEF known
    <2>2. \A k \in known : i - k \in S /\ i - (i - k) = k
      BY <1>2, <2>1
    <2>3. S # {} /\ S \in SUBSET Nat
      BY <1>2, <2>2
    <2>4. Least(S) \in S /\ \A n \in S : Least(S) <= n
      BY <2>3, LeastIs
    <2>5. i - Least(S) \in known /\ \A k \in known : Least(S) <= i - k
      BY <2>2, <2>4
    <2>6. ASSUME NEW k \in known PROVE k <= i - Least(S)
      <3>1. k \in Int /\ i \in Int
        BY <1>2, <2>1
      <3>2. Least(S) \in Int
        BY <2>3, <2>4
      <3>3. Least(S) <= i - k
        BY <2>5
      <3> DEFINE l == Least(S)
      <3> HIDE DEF l
      <3>4. l \in Int /\ l <= i - k => k <= i - l
        BY <3>1
      <3>5. QED
        BY <3>2, <3>3, <3>4 DEF l
    <2>7. QED
      BY <2>5, <2>6
  <1>7. ASSUME map(i).loaded
        PROVE  known # {} /\ last = i
    <2>1. i \in known /\ known \subseteq 1 .. i
      BY <1>2, <1>7, <1>1
    <2> HIDE DEF known
    <2>2. last \in 1 .. i /\ i <= last
      BY <1>6, <2>1
    <2>3. QED
      BY <1>2, <2>1, <2>2
  <1>8. u.pc = pcs[i].pc /\ u.rel = rel(i) /\ u.file = map(i).file
        /\ u.sym = IF known = {} THEN NoSymbol ELSE sym[last]
    <2> DEFINE s == IF known = {} THEN NoSymbol ELSE sym[last]
               r == rel(i)
               m == map(i)
    <2>1. u = [pc |-> pcs[i].pc, rel |-> r, file |-> m.file, sym |-> s]
      BY <1>3, Zenon
    <2> HIDE DEF s, r, m, u
    <2>2. u.pc = pcs[i].pc /\ u.rel = r /\ u.file = m.file /\ u.sym = s
      BY <2>1
    <2>3. QED
      BY <2>2, Zenon DEF s, r, m
  <1>9. i \in 1 .. i
    BY <1>1, <1>2
  <1>10. u.sym \in Symbol \cup {NoSymbol}
    BY <1>5, <1>6, <1>8, Zenon
  <1>11. map(i).loaded => u.sym = Lookup(table[map(i).file], u.rel, wide)
    <2>1. ASSUME map(i).loaded PROVE i \in known
      BY <1>9, <2>1
    <2>2. \A j \in known : sym[j] = Lookup(table[map(j).file], rel(j), wide)
      OBVIOUS
    <2> HIDE DEF known, sym, last, map, rel, u
    <2>3. QED
      BY <1>7, <1>8, <2>1, <2>2
  <1>12. rel(i) \in Nat /\ map(i).file \in Files \cup {"none"}
    BY <1>4, <1>9
  <1> HIDE DEF known, sym, last, u
  <1>13. QED
    BY <1>8, <1>10, <1>11, <1>12 DEF u

\* What is printed with the addresses of a stack.
LEMMA NamedFacts ==
  ASSUME TablesOK, NEW list \in Seq(Maps), NEW ls \in Seq(PcSet), NEW wide \in BOOLEAN,
         Loaded(list, Reads)
  PROVE  LET n == Named(table, list, ls, wide)
         IN  /\ n \in Seq(FrameSet) /\ Len(n) = Len(ls) /\ DOMAIN n = DOMAIN ls
             /\ \A i \in DOMAIN ls :
                  /\ n[i].of = ls[i].of /\ n[i].pc = ls[i].pc
                  /\ n[i].file = PcToMapsinfo(list, ls[i].pc).file
                  /\ NameIn(n[i])
  <1> DEFINE n == Named(table, list, ls, wide)
             u(i) == Unwound(table, list, ls, wide, i)
             m(i) == PcToMapsinfo(list, ls[i].pc)
  <1>1. Len(ls) \in Nat /\ DOMAIN ls = 1 .. Len(ls)
        /\ \A i \in DOMAIN ls : ls[i] \in PcSet /\ ls[i].of \in Tasks /\ ls[i].pc \in Nat
    <2>1. Len(ls) \in Nat /\ DOMAIN ls = 1 .. Len(ls) /\ \A i \in DOMAIN ls : ls[i] \in PcSet
      BY SeqFacts
    <2>2. QED
      BY <2>1 DEF PcSet
  <1>2. n = [i \in DOMAIN ls |->
               [kind |-> "frame", of |-> ls[i].of, pc |-> u(i).pc, rel |-> u(i).rel,
                file |-> u(i).file, sym |-> u(i).sym]]
    BY DEF Named
  <1>3. \A i \in DOMAIN ls :
          /\ u(i).pc = ls[i].pc /\ u(i).rel \in Nat
          /\ u(i).file = m(i).file /\ u(i).file \in Files \cup {"none"}
          /\ u(i).sym \in Symbol \cup {NoSymbol}
          /\ m(i).loaded => u(i).sym = Lookup(table[m(i).file], u(i).rel, wide)
    BY UnwoundFacts
  <1> HIDE DEF u, m
  <1>4. \A i \in DOMAIN ls :
          /\ n[i].kind = "frame" /\ n[i].of = ls[i].of /\ n[i].pc = u(i).pc /\ n[i].rel = u(i).rel
          /\ n[i].file = u(i).file /\ n[i].sym = u(i).sym /\ n[i] \in FrameSet
    BY <1>1, <1>2, <1>3 DEF FrameSet
  <1>5. DOMAIN n = 1 .. Len(ls)
    BY <1>1, <1>2
  <1>6. n = [i \in 1 .. Len(ls) |-> n[i]]
    BY <1>1, <1>2
  <1> HIDE DEF n
  <1>7. n \in Seq(FrameSet)
    BY <1>1, <1>4, <1>6, SeqDef
  <1>8. Len(n) = Len(ls)
    BY <1>1, <1>5, <1>7, LenProperties
  <1>9. ASSUME NEW i \in DOMAIN ls
        PROVE  NameIn(n[i])
    <2> SUFFICES ASSUME n[i].file # "none", ReadsTable(n[i].file, Reads)
                 PROVE  LET in == Containing(table[n[i].file], n[i].rel)
                        IN  /\ n[i].sym # NoSymbol => \E s \in in : s.name = n[i].sym.name
                            /\ in # {} /\ Separate(table[n[i].file]) /\ n[i].rel # 0
                                 => n[i].sym # NoSymbol
      BY DEF NameIn
    <2>1. n[i].file = m(i).file
      BY <1>3, <1>4
    <2>2. PICK k \in DOMAIN list : m(i) = list[k]
      BY <1>1, <2>1, MapType DEF m
    <2>3. m(i).loaded
      BY <2>1, <2>2 DEF Loaded
    <2>4. m(i).file \in Files
      BY <1>1, <2>3, MapType DEF m
    <2>5. n[i].sym = Lookup(table[n[i].file], n[i].rel, wide) /\ n[i].rel \in Nat
      BY <1>3, <1>4, <2>1, <2>3
    <2>6. table[n[i].file] \in Seq(Symbol) /\ Ordered(table[n[i].file])
      BY <2>1, <2>4 DEF TablesOK
    <2> DEFINE t == table[n[i].file]
               a == n[i].rel
    <2>7. t \in Seq(Symbol) /\ Ordered(t) /\ a \in Nat /\ n[i].sym = Lookup(t, a, wide)
      BY <2>5, <2>6
    <2> HIDE DEF t, a
    <2>8. /\ n[i].sym # NoSymbol => n[i].sym \in Containing(t, a)
          /\ Containing(t, a) # {} /\ Separate(t) /\ a # 0 => n[i].sym # NoSymbol
      BY <2>7, LookupFacts
    <2>9. QED
      BY <2>8 DEF t, a
  <1>10. QED
    BY <1>1, <1>3, <1>4, <1>5, <1>7, <1>8, <1>9 DEF n, m
-----------------------------------------------------------------------------
(* The inductive invariant.                                                *)

Kinds     == {"kernel", "userspace", "maps_start", "maps_end", "stack_start", "stack_end",
              "pid_start", "pid_end"}
FileLines == [kind : Kinds, of : Tasks] \cup PcSet \cup [kind : {"map"}, of : Pids, line : Rows]
OutLines  == FileLines \cup FrameSet
Entries   == {e \in [of : Tasks, pcs : Seq(PcSet)] : \A i \in DOMAIN e.pcs : e.pcs[i].of = e.of}

Writing == {"write_processes", "write_maps", "write_stack", "write_threads"}
Phases  == CASE request.ask \in {"all", "one"} -> {"processes", "threads", "names", "maps", "unwind"}
             [] request.ask = "trace"          -> Writing \cup Reading
             [] request.ask = "anr"            -> {"anr", "anr_stack"}

StackTyping ==
  /\ stack \in [Tasks -> [user : BOOLEAN, pcs : Seq(Nat)]] /\ TablesOK /\ request \in Requests
  /\ alive \in SUBSET Tasks /\ \A p \in Pids : \A t \in Threads[p] : t \in alive => p \in alive
  /\ phase \in Phases \cup {"done"} /\ pid \in Pids \cup {0} /\ tid \in Nat
  /\ all \in Seq(Entries) /\ index \in 1 .. Len(all) + 1
  /\ file \in Seq(FileLines) /\ pos \in 0 .. Len(file) /\ pending \in Seq(PcSet)
  /\ title \in Seq(FileLines) /\ milist \in Seq(Maps) /\ out \in Seq(OutLines)

\* The maps of a process, with its symbols.
Own(p) == ParseElf(MapList(MapsOf[p]), Reads)

\* The entries of a process come one after the other, and what the thread of a living process
\* finds are its maps.
LiveOK ==
  /\ \A k \in DOMAIN all :
       all[k].of \notin Pids => k > 1 /\ Process(all[k].of) = Process(all[k - 1].of)
  /\ phase = "threads" => pid \in Pids /\ all # << >> /\ Process(all[Len(all)].of) = pid
  /\ phase = "processes" => index = 1
  /\ phase = "threads" => index = 1
  /\ phase = "names" /\ index > 1 =>
       LET p == Process(all[index - 1].of) IN p \in alive => milist = Own(p)
  /\ phase = "maps" => index <= Len(all) /\ Subject \in Pids
  /\ phase = "unwind" => index <= Len(all) /\ milist = Own(Process(Subject))

\* What may come after a line of the trace.
Successors(kind) ==
  CASE kind \in {"pid_start", "maps_end", "stack_end"} ->
         (IF kind = "pid_start" THEN {"maps_start"} ELSE {"stack_start"}) \cup {"pid_end"}
    [] kind \in {"maps_start", "map"} -> {"map", "maps_end"}
    [] kind = "stack_start" -> {"kernel", "stack_end"}
    [] kind = "kernel" -> {"userspace", "stack_end"}
    [] OTHER -> {"pc", "stack_end"}
Follows(a, b) ==
  IF a.kind = "pid_end" THEN b.kind = "pid_start"
  ELSE b.kind \in Successors(a.kind) /\ Process(a.of) = Process(b.of)

\* The maps of a process are whole.
WholeAt(f, i) ==
  LET rows == MapsOf[f[i].of]
  IN  /\ f[i].of \in Pids /\ i + Len(rows) + 1 \in DOMAIN f
      /\ \A n \in DOMAIN rows : f[i + n] = MapLine(f[i].of, rows[n])
      /\ f[i + Len(rows) + 1] = Line("maps_end", f[i].of)
Piece(f) ==
  /\ \A i \in DOMAIN f : i + 1 \in DOMAIN f => Follows(f[i], f[i + 1])
  /\ \A i \in DOMAIN f : f[i].kind = "maps_start" => WholeAt(f, i)
Trace(f) == Piece(f) /\ (f # << >> => f[1].kind = "pid_start")

Last1 == file[Len(file)]
WriteOK ==
  /\ Trace(file)
  /\ phase \in Writing => out = << >> /\ pos = 0
  /\ phase \in {"write_maps", "write_stack", "write_threads"} =>
       pid \in Pids /\ file # << >> /\ Process(Last1.of) = pid
  /\ phase = "write_processes" => file = << >> \/ Last1.kind = "pid_end"
  /\ phase = "write_maps" => Last1.kind = "pid_start"
  /\ phase = "write_stack" => Last1.kind = "maps_end" \/ (Last1.kind = "pid_start" /\ pid \notin alive)
  /\ phase = "write_threads" =>
       Last1.kind \in {"maps_end", "stack_end"} \/ (Last1.kind = "pid_start" /\ pid \notin alive)

\* In the search for a user part: before the end of the stack, and behind it.
InHead(kind) == kind \in {"stack_start", "kernel"}
Overrun == file[pos].kind \notin {"userspace", "pc"} /\ ~ UserBefore(pos + 1)

\* The maps and the lines that were read are those of one process, unless it is not clear.
ReadOK ==
  /\ phase = "maps_lines" =>
       \E i \in 1 .. pos : /\ file[i].kind = "maps_start" /\ pos - i <= Len(MapsOf[file[i].of])
                           /\ milist = Listed(MapsOf[file[i].of])[pos - i]
  /\ phase \in {"find_maps", "find_stack", "kernel", "user"} => pos > 0
  /\ phase = "user" => file[pos].kind \in {"userspace", "pc"}
  /\ phase = "user" => \A i \in DOMAIN pending : Process(pending[i].of) = Process(file[pos].of)
  /\ phase \in Writing \cup (Reading \ {"user"}) => pending = << >>
  /\ phase \in Writing \cup {"find_pid", "find_maps"} => milist = << >>
  /\ phase = "find_stack" => file[pos].kind \in {"maps_end", "stack_end", "pc"}
  /\ phase = "kernel" => InHead(file[pos].kind) \/ Overrun
  /\ phase \in {"find_stack", "kernel", "user"} =>
       (Clear(Process(file[pos].of)) => milist = Own(Process(file[pos].of)))

Right(l) ==
  l.kind = "frame" => NameIn(l) /\ (Clear(Process(l.of)) => l.file = OwnMap(l.of, l.pc).file)

OutOK ==
  /\ phase # "maps_lines" => Loaded(milist, Reads)
  /\ phase = "anr_stack" => milist = Own(request.pid)
  /\ \A i \in DOMAIN out : Right(out[i])

StackInv == StackTyping /\ LiveOK /\ WriteOK /\ ReadOK /\ OutOK
-----------------------------------------------------------------------------
(* Tasks, and their lines.                                                 *)

\* A task belongs to one process.
LEMMA TaskFacts ==
  /\ Pids \subseteq Tasks /\ Tasks \subseteq Nat \ {0}
  /\ \A t \in Tasks : Process(t) \in Pids
  /\ \A p \in Pids : Process(p) = p
  /\ \A p \in Pids : \A t \in Threads[p] : t \in Tasks /\ t \notin Pids /\ Process(t) = p
  /\ \A t \in Tasks : t \in Pids \/ t \in Threads[Process(t)]
  <1>1. Pids \subseteq Tasks /\ Tasks \subseteq Nat \ {0}
    BY TasksAssumption DEF Tasks
  <1>2. \A p \in Pids : Process(p) = p
    BY DEF Process
  <1>3. ASSUME NEW p \in Pids, NEW t \in Threads[p]
        PROVE  t \in Tasks /\ t \notin Pids /\ Process(t) = p
    <2>1. t \in Tasks /\ t \notin Pids
      BY <1>3, TasksAssumption DEF Tasks
    <2>2. \A q \in Pids : t \in Threads[q] => q = p
      BY <1>3, TasksAssumption
    <2>3. (CHOOSE q \in Pids : t \in Threads[q]) = p
      BY <1>3, <2>2
    <2>4. QED
      BY <2>1, <2>3 DEF Process
  <1>4. ASSUME NEW t \in Tasks
        PROVE  Process(t) \in Pids /\ (t \in Pids \/ t \in Threads[Process(t)])
    <2>1. t \in Pids \/ \E p \in Pids : t \in Threads[p]
      BY DEF Tasks
    <2>2. QED
      BY <1>2, <1>3, <2>1
  <1>5. QED
    BY <1>1, <1>2, <1>3, <1>4

\* The maps of a process.
LEMMA RowFacts ==
  ASSUME NEW p \in Pids
  PROVE  /\ MapsOf[p] \in Seq(Rows) /\ MapList(MapsOf[p]) \in Seq(Maps)
         /\ Len(MapsOf[p]) \in Nat /\ DOMAIN MapsOf[p] = 1 .. Len(MapsOf[p])
         /\ Own(p) \in Seq(Maps) /\ Loaded(Own(p), Reads)
         /\ \A pc \in Nat : PcToMapsinfo(Own(p), pc).file
                              = PcToMapsinfo(MapList(MapsOf[p]), pc).file
  <1>1. MapsOf[p] \in Seq(Rows)
    BY MapsAssumption DEF Rows
  <1>2. MapList(MapsOf[p]) \in Seq(Maps)
    BY <1>1, ListedFacts
  <1> DEFINE list == MapList(MapsOf[p])
  <1>3. Own(p) = ParseElf(list, Reads)
    BY DEF Own
  <1> HIDE DEF list
  <1>4. /\ Own(p) \in Seq(Maps) /\ Loaded(Own(p), Reads) /\ DOMAIN Own(p) = DOMAIN list
        /\ \A i \in DOMAIN list : /\ Own(p)[i].lo = list[i].lo /\ Own(p)[i].hi = list[i].hi
                                  /\ Own(p)[i].file = list[i].file
    BY <1>2, <1>3, ParseElfFacts DEF list
  <1>5. ASSUME NEW pc \in Nat
        PROVE  PcToMapsinfo(Own(p), pc).file = PcToMapsinfo(list, pc).file
    BY <1>2, <1>4, SameFile DEF list
  <1>6. QED
    BY <1>1, <1>2, <1>4, <1>5, LenProperties DEF list

\* The lines of a user stack.
LEMMA PcLinesFacts ==
  ASSUME NEW t \in Tasks, NEW pcs \in Seq(Nat)
  PROVE  /\ PcLines(t, pcs) \in Seq(PcSet) /\ Len(PcLines(t, pcs)) = Len(pcs)
         /\ DOMAIN PcLines(t, pcs) = DOMAIN pcs
         /\ \A i \in DOMAIN pcs : /\ PcLines(t, pcs)[i] \in PcSet
                                  /\ PcLines(t, pcs)[i].of = t /\ PcLines(t, pcs)[i].kind = "pc"
                                  /\ PcLines(t, pcs)[i].pc = pcs[i]
  <1>1. Len(pcs) \in Nat /\ DOMAIN pcs = 1 .. Len(pcs) /\ \A i \in DOMAIN pcs : pcs[i] \in Nat
    BY SeqFacts
  <1> DEFINE l == PcLines(t, pcs)
  <1>2. l = [i \in 1 .. Len(pcs) |-> PcLine(t, pcs[i])]
    BY <1>1 DEF PcLines
  <1>3. \A i \in 1 .. Len(pcs) :
          l[i] \in PcSet /\ l[i].of = t /\ l[i].kind = "pc" /\ l[i].pc = pcs[i]
    BY <1>1, <1>2 DEF PcLine, PcSet
  <1>4. DOMAIN l = 1 .. Len(pcs)
    BY <1>2
  <1> HIDE DEF l
  <1>5. l \in [1 .. Len(pcs) -> PcSet]
    BY <1>2, <1>3, <1>4
  <1>6. l \in Seq(PcSet)
    BY <1>1, <1>5, SeqDef
  <1>7. Len(l) = Len(pcs)
    BY <1>1, <1>4, <1>6, LenProperties
  <1>8. QED
    BY <1>1, <1>3, <1>4, <1>6, <1>7 DEF l

\* The addresses of a user stack.
LEMMA UserPcsFacts ==
  ASSUME StackTyping, NEW t \in Tasks
  PROVE  UserPcs(t) \in Seq(Nat) /\ stack[t].user \in BOOLEAN
  BY EmptySeq DEF UserPcs, StackTyping

\* An element of StackAll.
LEMMA EntryFacts ==
  ASSUME StackTyping, NEW t \in Tasks
  PROVE  Entry(t) \in Entries /\ Entry(t).of = t
  <1>1. UserPcs(t) \in Seq(Nat)
    BY UserPcsFacts
  <1>2. FirstOf(UserPcs(t), MaxStack) \in Seq(Nat)
    BY <1>1, FirstOfFacts, LimitsAssumption
  <1> DEFINE l == PcLines(t, FirstOf(UserPcs(t), MaxStack))
  <1>3. l \in Seq(PcSet) /\ \A i \in DOMAIN l : l[i].of = t
    BY <1>2, PcLinesFacts
  <1>4. Entry(t) = [of |-> t, pcs |-> l]
    BY DEF Entry
  <1> HIDE DEF l
  <1>5. QED
    BY <1>3, <1>4 DEF Entries

\* A line without address or map.
LEMMA LineFacts ==
  ASSUME NEW t \in Tasks, NEW k \in Kinds
  PROVE  Line(k, t) \in FileLines /\ Line(k, t).kind = k /\ Line(k, t).of = t
  BY DEF Line, FileLines

\* The kinds of lines.
LEMMA KindFacts ==
  ASSUME NEW l \in FileLines
  PROVE  /\ l.kind \in Kinds \cup {"pc", "map"} /\ l.kind # "frame" /\ l.of \in Tasks
         /\ l.kind = "pc" => l \in PcSet
         /\ l.kind = "map" => l.of \in Pids /\ l.line \in Rows
         /\ l \in OutLines
  BY TaskFacts DEF FileLines, Kinds, PcSet, OutLines

\* The lines of the maps of a process.
LEMMA MapLinesFacts ==
  ASSUME NEW p \in Pids
  PROVE  LET f == MapLines(p)
             n == Len(MapsOf[p])
         IN  /\ f \in Seq(FileLines) /\ Len(f) = n + 2 /\ DOMAIN f = 1 .. n + 2
             /\ f[1] = Line("maps_start", p) /\ f[n + 2] = Line("maps_end", p)
             /\ \A i \in 1 .. n : f[i + 1] = MapLine(p, MapsOf[p][i])
             /\ \A i \in 1 .. n + 2 : f[i].of = p
             /\ n \in Nat
  <1> DEFINE n == Len(MapsOf[p])
             a == <<Line("maps_start", p)>>
             b == [i \in DOMAIN MapsOf[p] |-> MapLine(p, MapsOf[p][i])]
             c == <<Line("maps_end", p)>>
  <1>1. /\ n \in Nat /\ DOMAIN MapsOf[p] = 1 .. n /\ p \in Tasks
        /\ \A i \in 1 .. n : MapsOf[p][i] \in Rows
    BY RowFacts, SeqFacts, TaskFacts
  <1>2. /\ a \in Seq(FileLines) /\ Len(a) = 1 /\ a[1] = Line("maps_start", p)
        /\ c \in Seq(FileLines) /\ Len(c) = 1 /\ c[1] = Line("maps_end", p)
    <2>1. Line("maps_start", p) \in FileLines /\ Line("maps_end", p) \in FileLines
      BY <1>1, LineFacts DEF Kinds
    <2> DEFINE d == Line("maps_start", p)
               e == Line("maps_end", p)
    <2>2. d \in FileLines /\ e \in FileLines
      BY <2>1
    <2> HIDE DEF d, e
    <2>3. /\ <<d>> \in Seq(FileLines) /\ Len(<<d>>) = 1 /\ <<d>>[1] = d
          /\ <<e>> \in Seq(FileLines) /\ Len(<<e>>) = 1 /\ <<e>>[1] = e
      BY <2>2, OneFacts
    <2>4. QED
      BY <2>3 DEF d, e
  <1>3. b \in Seq(FileLines) /\ Len(b) = n /\ \A i \in 1 .. n : b[i] = MapLine(p, MapsOf[p][i])
    <2>1. \A i \in 1 .. n : MapLine(p, MapsOf[p][i]) \in FileLines
      BY <1>1 DEF MapLine, FileLines
    <2>2. b = [i \in 1 .. n |-> MapLine(p, MapsOf[p][i])]
      BY <1>1
    <2>3. b \in [1 .. n -> FileLines] /\ DOMAIN b = 1 .. n
      BY <2>1, <2>2
    <2>4. b \in Seq(FileLines)
      BY <1>1, <2>3, SeqDef
    <2>5. Len(b) = n
      BY <1>1, <2>3, <2>4, LenProperties
    <2>6. QED
      BY <2>2, <2>4, <2>5
  <1>4. MapLines(p) = (a \o b) \o c
    <2>1. MapLines(p) = a \o b \o c
      BY DEF MapLines
    <2>2. QED
      BY <2>1
  <1> HIDE DEF a, b, c, n
  <1>12. a \in Seq(FileLines) /\ b \in Seq(FileLines) /\ c \in Seq(FileLines)
    BY <1>2, <1>3
  <1>5. /\ a \o b \in Seq(FileLines) /\ Len(a \o b) = n + 1 /\ (a \o b)[1] = a[1]
        /\ \A i \in 1 .. n : (a \o b)[i + 1] = b[i]
    <2>1. /\ a \o b \in Seq(FileLines) /\ Len(a \o b) = Len(a) + Len(b)
          /\ \A i \in 1 .. Len(a) : (a \o b)[i] = a[i]
          /\ \A i \in 1 .. Len(b) : (a \o b)[Len(a) + i] = b[i]
      BY <1>12, JoinFacts
    <2>2. 1 + n = n + 1 /\ 1 \in 1 .. 1 /\ \A i \in 1 .. n : 1 + i = i + 1
      BY <1>1
    <2>3. QED
      BY <1>2, <1>3, <2>1, <2>2
  <1>6. LET f == (a \o b) \o c
        IN  /\ f \in Seq(FileLines) /\ Len(f) = (n + 1) + 1
            /\ \A i \in 1 .. n + 1 : f[i] = (a \o b)[i]
            /\ f[(n + 1) + 1] = c[1]
    <2> DEFINE d == a \o b
    <2>1. d \in Seq(FileLines) /\ Len(d) = n + 1
      BY <1>5
    <2> HIDE DEF d
    <2>5. d \in Seq(FileLines) /\ c \in Seq(FileLines)
      BY <1>12, <2>1
    <2>2. /\ d \o c \in Seq(FileLines) /\ Len(d \o c) = Len(d) + Len(c)
          /\ \A i \in 1 .. Len(d) : (d \o c)[i] = d[i]
          /\ \A i \in 1 .. Len(c) : (d \o c)[Len(d) + i] = c[i]
      BY <2>5, JoinFacts
    <2>3. 1 \in 1 .. 1
      OBVIOUS
    <2>4. QED
      BY <1>2, <2>1, <2>2, <2>3 DEF d
  <1> DEFINE f == (a \o b) \o c
  <1>7. /\ f \in Seq(FileLines) /\ Len(f) = n + 2 /\ f[1] = a[1] /\ f[n + 2] = c[1]
        /\ \A i \in 1 .. n : f[i + 1] = b[i]
    <2>1. (n + 1) + 1 = n + 2 /\ 1 \in 1 .. n + 1 /\ \A i \in 1 .. n : i + 1 \in 1 .. n + 1
      BY <1>1
    <2>2. QED
      BY <1>5, <1>6, <2>1
  <1> HIDE DEF f
  <1>8. DOMAIN f = 1 .. n + 2
    BY <1>7, LenProperties
  <1>9. ASSUME NEW i \in 1 .. n + 2
        PROVE  f[i].of = p
    <2>1. i = 1 \/ i = n + 2 \/ (i - 1 \in 1 .. n /\ (i - 1) + 1 = i)
      BY <1>1
    <2>6. Line("maps_start", p).of = p /\ Line("maps_end", p).of = p
      BY DEF Line
    <2>2. CASE i = 1
      BY <1>2, <1>7, <2>2, <2>6
    <2>3. CASE i = n + 2
      BY <1>2, <1>7, <2>3, <2>6
    <2>4. CASE i - 1 \in 1 .. n /\ (i - 1) + 1 = i
      <3>1. f[i] = b[i - 1]
        BY <1>7, <2>4
      <3>2. QED
        BY <1>3, <2>4, <3>1 DEF MapLine
    <2>5. QED
      BY <2>1, <2>2, <2>3, <2>4
  <1>10. f = MapLines(p)
    BY <1>4 DEF f
  <1>11. QED
    BY <1>1, <1>2, <1>3, <1>7, <1>8, <1>9, <1>10 DEF n
-----------------------------------------------------------------------------
(* What is written to the trace.                                           *)

\* Two pieces of a trace make one where the second may follow the first.
LEMMA PieceJoin ==
  ASSUME NEW f \in Seq(FileLines), NEW g \in Seq(FileLines), Piece(f), Piece(g),
         f # << >> /\ g # << >> => Follows(f[Len(f)], g[1])
  PROVE  Piece(f \o g)
  <1> DEFINE n == Len(f)
             m == Len(g)
             h == f \o g
  <1>1. /\ n \in Nat /\ m \in Nat /\ DOMAIN f = 1 .. n /\ DOMAIN g = 1 .. m
        /\ DOMAIN h = 1 .. n + m
        /\ \A i \in 1 .. n : h[i] = f[i]
        /\ \A i \in 1 .. m : h[n + i] = g[i]
    BY JoinFacts, SeqFacts
  <1>2. (n > 0 => f # << >>) /\ (m > 0 => g # << >>)
    BY <1>1, EmptySeq
  <1>9. /\ \A i \in 1 .. n : f[i] \in FileLines
        /\ \A i \in 1 .. m : g[i] \in FileLines
    BY <1>1, SeqFacts
  <1> HIDE DEF n, m, h
  <1>3. ASSUME NEW i \in DOMAIN h
        PROVE  (i \in 1 .. n /\ h[i] = f[i]) \/ (i - n \in 1 .. m /\ h[i] = g[i - n] /\ i = n + (i - n))
    <2>1. i \in 1 .. n + m /\ n \in Nat /\ m \in Nat
      BY <1>1
    <2>2. i \in 1 .. n \/ (i - n \in 1 .. m /\ i = n + (i - n))
      BY <2>1
    <2>3. i - n \in 1 .. m => h[n + (i - n)] = g[i - n]
      BY <1>1
    <2>4. QED
      BY <1>1, <2>2, <2>3
  <1>4. ASSUME NEW i \in DOMAIN h, i + 1 \in DOMAIN h
        PROVE  Follows(h[i], h[i + 1])
    <2>1. CASE i + 1 \in 1 .. n
      <3>1. i \in 1 .. n
        BY <1>1, <1>4, <2>1
      <3>2. QED
        BY <1>1, <2>1, <3>1 DEF Piece
    <2>2. CASE i = n
      <3>1. 1 \in 1 .. m /\ n \in 1 .. n /\ n > 0 /\ m > 0
        BY <1>1, <1>4, <2>2
      <3>2. h[i] = f[n] /\ h[i + 1] = g[1]
        BY <1>1, <2>2, <3>1
      <3>3. QED
        BY <1>2, <3>1, <3>2 DEF n
    <2>3. CASE i > n
      <3>1. i - n \in 1 .. m /\ (i - n) + 1 \in 1 .. m /\ n + (i - n) = i /\ n + ((i - n) + 1) = i + 1
        <4>1. i \in 1 .. n + m /\ i + 1 \in 1 .. n + m /\ n \in Nat /\ m \in Nat
          BY <1>1, <1>4
        <4>2. QED
          BY <2>3, <4>1
      <3>2. h[i] = g[i - n] /\ h[i + 1] = g[(i - n) + 1]
        BY <1>1, <3>1
      <3>3. QED
        BY <1>1, <3>1, <3>2 DEF Piece
    <2>4. QED
      BY <1>1, <1>4, <2>1, <2>2, <2>3
  <1>5. ASSUME NEW i \in DOMAIN h, h[i].kind = "maps_start"
        PROVE  WholeAt(h, i)
    <2>1. CASE i \in 1 .. n
      <3>1. h[i] = f[i] /\ WholeAt(f, i)
        BY <1>1, <1>5, <2>1 DEF Piece
      <3> DEFINE rows == MapsOf[f[i].of]
                 l == Len(rows)
      <3>2. f[i].of \in Pids /\ i + l + 1 \in 1 .. n /\ \A k \in DOMAIN rows : f[i + k] = MapLine(f[i].of, rows[k])
            /\ f[i + l + 1] = Line("maps_end", f[i].of)
        BY <1>1, <3>1 DEF WholeAt
      <3>3. DOMAIN rows = 1 .. l /\ l \in Nat
        BY <3>2, RowFacts
      <3> HIDE DEF rows, l
      <3>4. i + l + 1 \in 1 .. n + m /\ \A k \in DOMAIN rows : i + k \in 1 .. n
        BY <1>1, <2>1, <3>2, <3>3
      <3>5. /\ h[i + l + 1] = f[i + l + 1]
            /\ \A k \in DOMAIN rows : h[i + k] = f[i + k]
        BY <1>1, <3>2, <3>4
      <3>6. QED
        BY <1>1, <3>1, <3>2, <3>4, <3>5 DEF WholeAt, rows, l
    <2>2. CASE i - n \in 1 .. m /\ i = n + (i - n)
      <3> DEFINE j == i - n
      <3>1. h[i] = g[j] /\ WholeAt(g, j) /\ j \in 1 .. m /\ i = n + j
        BY <1>1, <1>5, <2>2 DEF Piece
      <3> HIDE DEF j
      <3> DEFINE rows == MapsOf[g[j].of]
                 l == Len(rows)
      <3>2. g[j].of \in Pids /\ j + l + 1 \in 1 .. m /\ \A k \in DOMAIN rows : g[j + k] = MapLine(g[j].of, rows[k])
            /\ g[j + l + 1] = Line("maps_end", g[j].of)
        BY <1>1, <3>1 DEF WholeAt
      <3>3. DOMAIN rows = 1 .. l /\ l \in Nat
        BY <3>2, RowFacts
      <3> HIDE DEF rows, l
      <3>4. /\ i + l + 1 \in 1 .. n + m /\ i + l + 1 = n + (j + l + 1)
            /\ \A k \in DOMAIN rows : j + k \in 1 .. m /\ i + k = n + (j + k)
        <4>1. n \in Nat /\ m \in Nat /\ l \in Nat /\ j \in Nat /\ 1 <= j /\ i = n + j /\ j + l + 1 <= m
          BY <1>1, <3>1, <3>2, <3>3
        <4>2. i + l + 1 \in 1 .. n + m /\ i + l + 1 = n + (j + l + 1)
          BY <4>1
        <4>3. \A k \in 1 .. l : j + k \in 1 .. m /\ i + k = n + (j + k)
          BY <4>1
        <4>4. QED
          BY <3>3, <4>2, <4>3
      <3>5. /\ h[i + l + 1] = g[j + l + 1]
            /\ \A k \in DOMAIN rows : h[i + k] = g[j + k]
        BY <1>1, <3>2, <3>4
      <3>6. QED
        BY <1>1, <3>1, <3>2, <3>4, <3>5 DEF WholeAt, rows, l
    <2>3. QED
      BY <1>3, <1>5, <2>1, <2>2
  <1>6. QED
    BY <1>4, <1>5 DEF Piece, h

\* The ends of what is joined.
LEMMA EndsJoin ==
  ASSUME NEW S, NEW f \in Seq(S), NEW g \in Seq(S), f # << >>
  PROVE  /\ f \o g \in Seq(S) /\ f \o g # << >> /\ (f \o g)[1] = f[1]
         /\ (f \o g)[Len(f \o g)] = IF g = << >> THEN f[Len(f)] ELSE g[Len(g)]
  <1> DEFINE n == Len(f)
             m == Len(g)
             h == f \o g
  <1>1. /\ n \in Nat /\ m \in Nat /\ h \in Seq(S) /\ Len(h) = n + m
        /\ \A i \in 1 .. n : h[i] = f[i]
        /\ \A i \in 1 .. m : h[n + i] = g[i]
    BY JoinFacts, SeqFacts
  <1>2. n > 0 /\ (g # << >> => m > 0) /\ (g = << >> => m = 0) /\ (h = << >> => Len(h) = 0)
    BY EmptySeq, LenProperties
  <1> HIDE DEF n, m, h
  <1>3. 1 \in 1 .. n /\ n \in 1 .. n /\ (m > 0 => m \in 1 .. m) /\ (m = 0 => n + m = n) /\ n + m # 0
    BY <1>1, <1>2
  <1>4. QED
    BY <1>1, <1>2, <1>3 DEF n, m, h

\* A line is a piece,
LEMMA OnePiece ==
  ASSUME NEW l \in FileLines, l.kind # "maps_start"
  PROVE  <<l>> \in Seq(FileLines) /\ Piece(<<l>>) /\ <<l>> # << >> /\ Len(<<l>>) = 1 /\ <<l>>[1] = l
  <1> DEFINE f == <<l>>
  <1>1. f \in Seq(FileLines) /\ Len(f) = 1 /\ DOMAIN f = 1 .. 1 /\ f[1] = l /\ f # << >>
    BY OneFacts
  <1> HIDE DEF f
  <1>2. \A i \in 1 .. 1 : i = 1 /\ i + 1 \notin 1 .. 1
    OBVIOUS
  <1>3. Piece(f)
    BY <1>1, <1>2 DEF Piece
  <1>4. QED
    BY <1>1, <1>3 DEF f

\* the maps of a process are,
LEMMA MapsPiece ==
  ASSUME NEW p \in Pids
  PROVE  Piece(MapLines(p))
  <1> DEFINE f == MapLines(p)
             n == Len(MapsOf[p])
  <1>1. /\ f \in Seq(FileLines) /\ DOMAIN f = 1 .. n + 2
        /\ f[1] = Line("maps_start", p) /\ f[n + 2] = Line("maps_end", p)
        /\ \A i \in 1 .. n : f[i + 1] = MapLine(p, MapsOf[p][i])
        /\ \A i \in 1 .. n + 2 : f[i].of = p
        /\ n \in Nat /\ DOMAIN MapsOf[p] = 1 .. n
    BY MapLinesFacts, RowFacts
  <1> HIDE DEF f, n
  <1>2. \A i \in 1 .. n + 2 : \/ i = 1 /\ f[i].kind = "maps_start"
                              \/ i # 1 /\ i # n + 2 /\ f[i].kind = "map"
                              \/ i = n + 2 /\ f[i].kind = "maps_end"
    <2> SUFFICES ASSUME NEW i \in 1 .. n + 2
                 PROVE  \/ i = 1 /\ f[i].kind = "maps_start"
                        \/ i # 1 /\ i # n + 2 /\ f[i].kind = "map"
                        \/ i = n + 2 /\ f[i].kind = "maps_end"
      OBVIOUS
    <2>1. i = 1 \/ i = n + 2 \/ (i - 1 \in 1 .. n /\ (i - 1) + 1 = i)
      BY <1>1
    <2>2. Line("maps_start", p).kind = "maps_start" /\ Line("maps_end", p).kind = "maps_end"
      BY DEF Line
    <2>3. ASSUME i - 1 \in 1 .. n, (i - 1) + 1 = i PROVE f[i].kind = "map" /\ i # 1 /\ i # n + 2
      <3>1. f[i] = MapLine(p, MapsOf[p][i - 1])
        BY <1>1, <2>3
      <3>2. i # 1 /\ i # n + 2
        BY <1>1, <2>3
      <3>3. QED
        BY <3>1, <3>2 DEF MapLine
    <2>4. QED
      BY <1>1, <2>1, <2>2, <2>3
  <1>3. ASSUME NEW i \in DOMAIN f, i + 1 \in DOMAIN f
        PROVE  Follows(f[i], f[i + 1])
    <2>1. f[i].kind \in {"maps_start", "map"}
      BY <1>1, <1>2, <1>3
    <2>2. f[i + 1].kind \in {"map", "maps_end"}
      BY <1>1, <1>2, <1>3
    <2>3. QED
      BY <1>1, <1>3, <2>1, <2>2 DEF Follows, Successors
  <1>4. WholeAt(f, 1)
    <2>1. f[1].of = p /\ 1 + n + 1 \in DOMAIN f /\ 1 + n + 1 = n + 2
      BY <1>1
    <2>2. \A k \in 1 .. n : f[1 + k] = MapLine(p, MapsOf[p][k])
      <3>1. \A k \in 1 .. n : 1 + k = k + 1
        BY <1>1
      <3>2. QED
        BY <1>1, <3>1
    <2>3. QED
      BY <1>1, <2>1, <2>2 DEF WholeAt, n
  <1>5. \A i \in DOMAIN f : f[i].kind = "maps_start" => i = 1
    BY <1>1, <1>2
  <1>6. QED
    BY <1>3, <1>4, <1>5 DEF Piece, f

\* and so are the addresses of a stack.
LEMMA PcPiece ==
  ASSUME NEW t \in Tasks, NEW pcs \in Seq(Nat)
  PROVE  /\ PcLines(t, pcs) \in Seq(FileLines) /\ Piece(PcLines(t, pcs))
         /\ PcLines(t, pcs) # << >> =>
              /\ PcLines(t, pcs)[1].kind = "pc" /\ PcLines(t, pcs)[1].of = t
              /\ PcLines(t, pcs)[Len(PcLines(t, pcs))].kind = "pc"
              /\ PcLines(t, pcs)[Len(PcLines(t, pcs))].of = t
  <1> DEFINE f == PcLines(t, pcs)
  <1>1. f \in Seq(PcSet) /\ \A i \in DOMAIN f : f[i].of = t /\ f[i].kind = "pc"
    BY PcLinesFacts
  <1> HIDE DEF f
  <1>2. f \in Seq(FileLines) /\ DOMAIN f = 1 .. Len(f) /\ Len(f) \in Nat
    <2>1. PcSet \subseteq FileLines
      BY DEF FileLines
    <2>2. Len(f) \in Nat /\ DOMAIN f = 1 .. Len(f) /\ f \in [1 .. Len(f) -> PcSet]
      BY <1>1, SeqFacts, LenProperties
    <2>3. f \in [1 .. Len(f) -> FileLines]
      BY <2>1, <2>2
    <2>4. QED
      BY <2>2, <2>3, SeqDef
  <1>3. Piece(f)
    BY <1>1 DEF Piece, Follows, Successors
  <1>4. f # << >> => 1 \in DOMAIN f /\ Len(f) \in DOMAIN f
    BY <1>2, EmptySeq
  <1>5. QED
    BY <1>1, <1>2, <1>3, <1>4 DEF f

\* A stack of the trace.
LEMMA StackPiece ==
  ASSUME StackTyping, NEW t \in Tasks, NEW f \in {StackLines(t), EmptyStack(t)}
  PROVE  /\ f \in Seq(FileLines) /\ Piece(f) /\ f # << >>
         /\ f[1] = Line("stack_start", t) /\ f[Len(f)] = Line("stack_end", t)
  <1> DEFINE s == Line("stack_start", t)
             k == Line("kernel", t)
             u == Line("userspace", t)
             e == Line("stack_end", t)
             b == IF stack[t].user THEN <<u>> ELSE << >>
             c == PcLines(t, UserPcs(t))
  <1>1. /\ s \in FileLines /\ s.kind = "stack_start" /\ s.of = t
        /\ k \in FileLines /\ k.kind = "kernel" /\ k.of = t
        /\ u \in FileLines /\ u.kind = "userspace" /\ u.of = t
        /\ e \in FileLines /\ e.kind = "stack_end" /\ e.of = t
    BY LineFacts DEF Kinds
  <1>2. /\ c \in Seq(FileLines) /\ Piece(c)
        /\ c # << >> => /\ c[1].kind = "pc" /\ c[1].of = t /\ c[Len(c)].kind = "pc" /\ c[Len(c)].of = t
                        /\ stack[t].user
    <2>1. UserPcs(t) \in Seq(Nat) /\ stack[t].user \in BOOLEAN
      BY UserPcsFacts
    <2>2. ~ stack[t].user => c = << >>
      <3>1. ~ stack[t].user => UserPcs(t) = << >>
        BY DEF UserPcs
      <3>2. Len(c) = Len(UserPcs(t)) /\ c \in Seq(PcSet)
        BY <2>1, PcLinesFacts
      <3>3. QED
        BY <3>1, <3>2, EmptySeq
    <2>3. QED
      BY <2>1, <2>2, PcPiece
  <1>3. StackLines(t) = ((<<s, k>> \o b) \o c) \o <<e>> /\ EmptyStack(t) = <<s, e>>
    BY DEF StackLines, EmptyStack
  <1>4. <<s, k>> = <<s>> \o <<k>> /\ <<s, e>> = <<s>> \o <<e>>
    OBVIOUS
  <1> HIDE DEF s, k, u, e, c
  <1>5. /\ <<s>> \in Seq(FileLines) /\ Piece(<<s>>) /\ <<s>> # << >> /\ Len(<<s>>) = 1 /\ <<s>>[1] = s
        /\ <<k>> \in Seq(FileLines) /\ Piece(<<k>>) /\ <<k>> # << >> /\ Len(<<k>>) = 1 /\ <<k>>[1] = k
        /\ <<u>> \in Seq(FileLines) /\ Piece(<<u>>) /\ <<u>> # << >> /\ Len(<<u>>) = 1 /\ <<u>>[1] = u
        /\ <<e>> \in Seq(FileLines) /\ Piece(<<e>>) /\ <<e>> # << >> /\ Len(<<e>>) = 1 /\ <<e>>[1] = e
    BY <1>1, OnePiece
  <1>6. Follows(s, k) /\ Follows(s, e) /\ Follows(k, u) /\ Follows(k, e) /\ Follows(u, e)
    BY <1>1 DEF Follows, Successors
  <1> DEFINE S == <<s>>
             K == <<k>>
             E == <<e>>
             U == <<u>>
  <1> HIDE DEF S, K, E, U
  <1>7. /\ S \in Seq(FileLines) /\ Piece(S) /\ S # << >> /\ Len(S) = 1 /\ S[1] = s
        /\ K \in Seq(FileLines) /\ Piece(K) /\ K # << >> /\ Len(K) = 1 /\ K[1] = k
        /\ U \in Seq(FileLines) /\ Piece(U) /\ U # << >> /\ Len(U) = 1 /\ U[1] = u
        /\ E \in Seq(FileLines) /\ Piece(E) /\ E # << >> /\ Len(E) = 1 /\ E[1] = e
    BY <1>5 DEF S, K, E, U
  <1>8. /\ S \o E \in Seq(FileLines) /\ Piece(S \o E) /\ S \o E # << >>
        /\ (S \o E)[1] = s /\ (S \o E)[Len(S \o E)] = e
    BY <1>6, <1>7, PieceJoin, EndsJoin
  <1> DEFINE x == S \o K
  <1>9. x \in Seq(FileLines) /\ Piece(x) /\ x # << >> /\ x[1] = s /\ x[Len(x)] = k
    BY <1>6, <1>7, PieceJoin, EndsJoin
  <1> HIDE DEF x
  <1> DEFINE y == x \o b
  <1>10. /\ b \in Seq(FileLines) /\ Piece(b) /\ (b # << >> => b[1] = u /\ b[Len(b)] = u)
         /\ stack[t].user => b # << >>
    <2>1. << >> \in Seq(FileLines) /\ Piece(<< >>)
      BY EmptySeq DEF Piece
    <2>2. b = IF stack[t].user THEN U ELSE << >>
      BY DEF U
    <2>3. QED
      BY <1>7, <2>1, <2>2
  <1> HIDE DEF b
  <1>11. /\ y \in Seq(FileLines) /\ Piece(y) /\ y # << >> /\ y[1] = s
         /\ y[Len(y)] = IF b = << >> THEN k ELSE u
    <2>1. b # << >> => Follows(x[Len(x)], b[1])
      BY <1>6, <1>9, <1>10
    <2>2. QED
      BY <1>9, <1>10, <2>1, PieceJoin, EndsJoin
  <1> HIDE DEF y
  <1> DEFINE z == y \o c
  <1>12. /\ z \in Seq(FileLines) /\ Piece(z) /\ z # << >> /\ z[1] = s
         /\ z[Len(z)].kind \in {"kernel", "userspace", "pc"} /\ z[Len(z)].of = t
    <2>1. c # << >> => Follows(y[Len(y)], c[1])
      BY <1>1, <1>2, <1>10, <1>11 DEF Follows, Successors
    <2>2. /\ z \in Seq(FileLines) /\ Piece(z) /\ z # << >> /\ z[1] = s
          /\ z[Len(z)] = IF c = << >> THEN y[Len(y)] ELSE c[Len(c)]
      BY <1>2, <1>11, <2>1, PieceJoin, EndsJoin
    <2>3. QED
      BY <1>1, <1>2, <1>11, <2>2
  <1> HIDE DEF z
  <1>13. Follows(z[Len(z)], E[1])
    BY <1>1, <1>7, <1>12 DEF Follows, Successors
  <1>14. /\ z \o E \in Seq(FileLines) /\ Piece(z \o E) /\ z \o E # << >>
         /\ (z \o E)[1] = s /\ (z \o E)[Len(z \o E)] = e
    BY <1>7, <1>12, <1>13, PieceJoin, EndsJoin
  <1>15. StackLines(t) = z \o E /\ EmptyStack(t) = S \o E
    BY <1>3, <1>4 DEF S, K, E, x, y, z
  <1>16. QED
    BY <1>8, <1>14, <1>15 DEF s, e
-----------------------------------------------------------------------------
(* Typing.                                                                 *)

\* What depends on the system alone never changes.
LEMMA Rigid ==
  ASSUME UNCHANGED given
  PROVE  /\ stack' = stack /\ table' = table /\ request' = request
         /\ TablesOK' <=> TablesOK
         /\ Phases' = Phases /\ Reads' = Reads
         /\ \A p : Own(p)' = Own(p)
         /\ \A l : NameIn(l)' <=> NameIn(l)
         /\ file' = file => /\ Trace(file)' <=> Trace(file)
                            /\ \A p : Clear(p)' <=> Clear(p)
                            /\ \A l : Right(l)' <=> Right(l)
  <1>1. stack' = stack /\ table' = table /\ request' = request
    BY DEF given
  <1>2. Reads' = Reads
    BY <1>1 DEF Reads
  <1>3. \A p : Own(p)' = Own(p)
    BY <1>2 DEF Own
  <1>4. \A l : NameIn(l)' <=> NameIn(l)
    BY <1>1, <1>2 DEF NameIn
  <1>5. (TablesOK' <=> TablesOK) /\ Phases' = Phases
    BY <1>1 DEF TablesOK, Phases, Writing, Reading
  <1>6. ASSUME file' = file
        PROVE  /\ Trace(file)' <=> Trace(file)
               /\ \A p : Clear(p)' <=> Clear(p)
               /\ \A l : Right(l)' <=> Right(l)
    <2>1. \A p : Clear(p)' <=> Clear(p)
      BY <1>6 DEF Clear, UserBefore
    <2>2. Trace(file)' <=> Trace(file)
      BY <1>6
    <2>3. \A l : Right(l)' <=> Right(l)
      BY <1>4, <2>1 DEF Right
    <2>4. QED
      BY <2>1, <2>2, <2>3
  <1>7. QED
    BY <1>1, <1>2, <1>3, <1>4, <1>5, <1>6

\* What the tool is asked for, and its phases.
LEMMA AskFacts ==
  ASSUME StackTyping
  PROVE  /\ request.ask \in {"all", "one", "trace", "anr"}
         /\ request.ask \in {"one", "anr"} => request.pid \in Pids
         /\ request.ask \in {"all", "one"} => Wanted \subseteq Pids
         /\ phase \in {"processes", "threads", "names", "maps", "unwind"} =>
              request.ask \in {"all", "one"}
              /\ Phases = {"processes", "threads", "names", "maps", "unwind"}
         /\ phase \in Writing \cup Reading => request.ask = "trace" /\ Phases = Writing \cup Reading
         /\ phase \in {"anr", "anr_stack"} => request.ask = "anr" /\ Phases = {"anr", "anr_stack"}
  <1>1. request \in Requests
    BY DEF StackTyping
  <1>2. /\ request.ask \in {"all", "one", "trace", "anr"}
        /\ request.ask \in {"one", "anr"} => request.pid \in Pids
    BY <1>1 DEF Requests
  <1>3. request.ask \in {"all", "one"} => Wanted \subseteq Pids
    BY <1>2 DEF Wanted
  <1>4. phase \in Phases \cup {"done"}
    BY DEF StackTyping
  <1>5. QED
    BY <1>2, <1>3, <1>4 DEF Phases, Writing, Reading

\* One more line, entry or list.
LEMMA MilistFacts ==
  ASSUME StackTyping, NEW p \in Pids
  PROVE  Own(p) \in Seq(Maps) /\ << >> \in Seq(Maps) /\ Loaded(<< >>, Reads)
         /\ ParseElf(milist, 32) \in Seq(Maps) /\ Loaded(ParseElf(milist, 32), 32)
  BY RowFacts, ParseElfFacts, EmptySeq DEF StackTyping, Loaded

\* Frames are lines of the output.
LEMMA NamedOut ==
  ASSUME StackTyping, Loaded(milist, Reads), NEW ls \in Seq(PcSet), NEW wide \in BOOLEAN
  PROVE  LET n == Named(table, milist, ls, wide)
         IN  /\ n \in Seq(OutLines) /\ Len(n) = Len(ls) /\ DOMAIN n = DOMAIN ls
             /\ \A i \in DOMAIN ls :
                  /\ n[i].of = ls[i].of /\ n[i].pc = ls[i].pc /\ n[i].kind = "frame"
                  /\ n[i].file = PcToMapsinfo(milist, ls[i].pc).file
                  /\ NameIn(n[i])
  <1> DEFINE n == Named(table, milist, ls, wide)
  <1>1. TablesOK /\ milist \in Seq(Maps)
    BY DEF StackTyping
  <1>2. /\ n \in Seq(FrameSet) /\ Len(n) = Len(ls) /\ DOMAIN n = DOMAIN ls
        /\ \A i \in DOMAIN ls :
             /\ n[i].of = ls[i].of /\ n[i].pc = ls[i].pc
             /\ n[i].file = PcToMapsinfo(milist, ls[i].pc).file
             /\ NameIn(n[i])
    BY <1>1, NamedFacts
  <1> HIDE DEF n
  <1>3. Len(n) \in Nat /\ DOMAIN n = 1 .. Len(n) /\ \A i \in DOMAIN n : n[i] \in FrameSet
    BY <1>2, SeqFacts
  <1>4. \A i \in DOMAIN n : n[i] \in OutLines /\ n[i].kind = "frame"
    BY <1>3 DEF OutLines, FrameSet
  <1>5. n \in [1 .. Len(n) -> OutLines]
    BY <1>2, <1>3, <1>4
  <1>6. n \in Seq(OutLines)
    BY <1>3, <1>5, SeqDef
  <1>7. QED
    BY <1>2, <1>4, <1>6 DEF n

\* The next line of the trace.
LEMMA NowFacts ==
  ASSUME StackTyping, pos < Len(file)
  PROVE  /\ pos + 1 \in DOMAIN file /\ Now = file[pos + 1] /\ Now \in FileLines
         /\ Now \in OutLines /\ Now.kind # "frame" /\ pos + 1 \in 0 .. Len(file)
         /\ Now.kind = "pc" => Now \in PcSet
         /\ Now.kind = "map" => Now.of \in Pids /\ Now.line \in Rows
  <1>1. file \in Seq(FileLines) /\ pos \in 0 .. Len(file)
    BY DEF StackTyping
  <1>2. Len(file) \in Nat /\ DOMAIN file = 1 .. Len(file)
    BY <1>1, SeqFacts
  <1>3. pos + 1 \in DOMAIN file /\ pos + 1 \in 0 .. Len(file)
    BY <1>1, <1>2
  <1>4. Now = file[pos + 1] /\ Now \in FileLines
    BY <1>1, <1>3, SeqFacts DEF Now
  <1>5. QED
    BY <1>3, <1>4, KindFacts
\* Types, when all the parts have theirs.
LEMMA NewTyping ==
  ASSUME StackTyping, UNCHANGED given,
         alive' \in SUBSET Tasks /\ \A p \in Pids : \A t \in Threads[p] : t \in alive' => p \in alive',
         phase' \in Phases \cup {"done"}, pid' \in Pids \cup {0}, tid' \in Nat,
         all' \in Seq(Entries) /\ index' \in 1 .. Len(all') + 1,
         file' \in Seq(FileLines) /\ pos' \in 0 .. Len(file') /\ pending' \in Seq(PcSet),
         title' \in Seq(FileLines) /\ milist' \in Seq(Maps) /\ out' \in Seq(OutLines)
  PROVE  StackTyping'
  BY Rigid DEF StackTyping

\* What is left when a task ends.
LEMMA LeftFacts ==
  ASSUME StackTyping, NEW t \in Tasks,
         alive' = alive \ (IF t \in Pids THEN {t} \cup Threads[t] ELSE {t})
  PROVE  /\ alive' \in SUBSET Tasks /\ alive' \subseteq alive
         /\ \A p \in Pids : \A u \in Threads[p] : u \in alive' => p \in alive'
  <1>1. alive \in SUBSET Tasks /\ \A p \in Pids : \A u \in Threads[p] : u \in alive => p \in alive
    BY DEF StackTyping
  <1>2. ASSUME NEW p \in Pids, NEW u \in Threads[p], u \in alive'
        PROVE  p \in alive'
    <2>1. u \in alive /\ p \in alive
      BY <1>1, <1>2
    <2>2. CASE t \in Pids
      <3>1. u \notin Threads[t]
        BY <1>2, <2>2
      <3>2. p # t
        BY <3>1
      <3>3. p \notin Threads[t]
        BY <2>2, TaskFacts
      <3>4. QED
        BY <2>1, <2>2, <3>2, <3>3
    <2>3. CASE t \notin Pids
      BY <2>1, <2>3
    <2>4. QED
      BY <2>2, <2>3
  <1>3. QED
    BY <1>1, <1>2

\* Types: the end of a task,
LEMMA ExitTyping ==
  ASSUME StackTyping, Exit
  PROVE  StackTyping' /\ alive' \subseteq alive
  <1>1. UNCHANGED <<given, phase, pid, tid, all, index, file, pos, pending, title, milist, out>>
    BY DEF Exit, live, trace
  <1>2. PICK t \in alive : alive' = alive \ (IF t \in Pids THEN {t} \cup Threads[t] ELSE {t})
    BY DEF Exit
  <1>3. t \in Tasks
    BY DEF StackTyping
  <1>4. /\ alive' \in SUBSET Tasks /\ alive' \subseteq alive
        /\ \A p \in Pids : \A u \in Threads[p] : u \in alive' => p \in alive'
    BY <1>2, <1>3, LeftFacts
  <1>5. /\ UNCHANGED given /\ phase' \in Phases \cup {"done"} /\ pid' \in Pids \cup {0} /\ tid' \in Nat
        /\ all' \in Seq(Entries) /\ index' \in 1 .. Len(all') + 1
        /\ file' \in Seq(FileLines) /\ pos' \in 0 .. Len(file') /\ pending' \in Seq(PcSet)
        /\ title' \in Seq(FileLines) /\ milist' \in Seq(Maps) /\ out' \in Seq(OutLines)
    BY <1>1 DEF StackTyping
  <1>6. QED
    BY <1>4, <1>5, NewTyping

\* A task found by its number.
LEMMA FoundFacts ==
  ASSUME StackTyping, NEW S, NEW n \in Nat, {t \in S \cap alive : t > n} # {}
  PROVE  LET t == Least({u \in S \cap alive : u > n})
         IN  t \in S /\ t \in alive /\ t \in Tasks /\ t \in Nat
  <1> DEFINE T == {u \in S \cap alive : u > n}
  <1>1. alive \subseteq Tasks /\ Tasks \subseteq Nat
    BY TaskFacts DEF StackTyping
  <1>2. T \in SUBSET Nat /\ T # {}
    BY <1>1
  <1>3. Least(T) \in T
    <2> HIDE DEF T
    <2> QED
      BY <1>2, LeastIs
  <1>4. QED
    BY <1>1, <1>3

\* the reading of a live system,
LEMMA ReadTyping ==
  ASSUME StackTyping, LiveOK, OutOK,
         ReadProcess \/ ReadThread \/ PassOver \/ ReadName \/ ReadMaps \/ PrintStack
  PROVE  StackTyping' /\ alive' = alive
  <1>1. UNCHANGED <<given, alive, file, pos, pending, title>>
    BY DEF ReadProcess, ReadThread, PassOver, ReadName, ReadMaps, PrintStack, system, trace
  <1>2. /\ alive' \in SUBSET Tasks /\ \A p \in Pids : \A t \in Threads[p] : t \in alive' => p \in alive'
        /\ file' \in Seq(FileLines) /\ pos' \in 0 .. Len(file') /\ pending' \in Seq(PcSet)
        /\ title' \in Seq(FileLines)
    BY <1>1 DEF StackTyping
  <1>3. /\ phase \in Phases \cup {"done"} /\ pid \in Pids \cup {0} /\ tid \in Nat
        /\ all \in Seq(Entries) /\ index \in 1 .. Len(all) + 1
        /\ milist \in Seq(Maps) /\ out \in Seq(OutLines)
    BY DEF StackTyping
  <1>4. Phases = {"processes", "threads", "names", "maps", "unwind"}
    BY AskFacts DEF ReadProcess, ReadThread, PassOver, ReadName, ReadMaps, PrintStack
  <1>5. ASSUME NEW t \in Tasks
        PROVE  Record(t) => all' \in Seq(Entries) /\ index \in 1 .. Len(all') + 1
    <2>1. Entry(t) \in Entries
      BY EntryFacts
    <2> DEFINE e == Entry(t)
    <2> HIDE DEF e
    <2>2. Append(all, e) \in Seq(Entries) /\ Len(Append(all, e)) = Len(all) + 1
      BY <1>3, <2>1, AppendFacts DEF e
    <2>3. Len(all) \in Nat
      BY <1>3, SeqFacts
    <2>4. Append(all, e) \in Seq(Entries) /\ index \in 1 .. Len(Append(all, e)) + 1
      BY <1>3, <2>2, <2>3
    <2>5. Record(t) => all' \in {Append(all, e), all}
      BY DEF Record, e
    <2>6. QED
      BY <1>3, <2>4, <2>5
  <1>6. CASE ReadProcess
    <2>1. UNCHANGED <<index, milist, out>>
      BY <1>6 DEF ReadProcess
    <2> DEFINE next == {p \in Wanted \cap alive : p > pid}
    <2>2. CASE next = {}
      <3>1. phase' = "names" /\ UNCHANGED <<all, pid, tid>>
        BY <1>6, <2>2 DEF ReadProcess
      <3>2. QED
        BY <1>1, <1>2, <1>3, <1>4, <2>1, <3>1, NewTyping
    <2>3. CASE next # {}
      <3>1. /\ pid' = Least(next) /\ tid' = 0 /\ Record(pid') /\ phase' \in Phases
        BY <1>4, <1>6, <2>3 DEF ReadProcess
      <3>2. pid \in Nat /\ Wanted \subseteq Pids
        BY <1>3, <1>6, TasksAssumption, AskFacts DEF ReadProcess
      <3>3. pid' \in Wanted /\ pid' \in Tasks
        BY <2>3, <3>1, <3>2, FoundFacts
      <3>4. all' \in Seq(Entries) /\ index \in 1 .. Len(all') + 1
        <4> DEFINE q == pid'
        <4>1. q \in Tasks /\ Record(q)
          BY <3>1, <3>3
        <4> HIDE DEF q
        <4>2. QED
          BY <1>5, <4>1
      <3>5. QED
        BY <1>1, <1>2, <1>3, <1>4, <2>1, <3>1, <3>2, <3>3, <3>4, NewTyping
    <2>4. QED
      BY <2>2, <2>3
  <1>7. CASE ReadThread
    <2>1. UNCHANGED <<pid, index, milist, out>>
      BY <1>7 DEF ReadThread
    <2> DEFINE next == {t \in Threads[pid] \cap alive : t > tid}
    <2>2. CASE next = {}
      <3>1. phase' = "processes" /\ UNCHANGED <<all, tid>>
        BY <1>7, <2>2 DEF ReadThread
      <3>2. QED
        BY <1>1, <1>2, <1>3, <1>4, <2>1, <3>1, NewTyping
    <2>3. CASE next # {}
      <3>1. tid' = Least(next) /\ Record(tid') /\ phase' = phase
        BY <1>7, <2>3 DEF ReadThread
      <3>3. tid' \in Nat /\ tid' \in Tasks
        BY <1>3, <2>3, <3>1, FoundFacts
      <3>4. all' \in Seq(Entries) /\ index \in 1 .. Len(all') + 1
        <4> DEFINE q == tid'
        <4>1. q \in Tasks /\ Record(q)
          BY <3>1, <3>3
        <4> HIDE DEF q
        <4>2. QED
          BY <1>5, <4>1
      <3>5. QED
        BY <1>1, <1>2, <1>3, <1>4, <2>1, <3>1, <3>3, <3>4, NewTyping
    <2>4. QED
      BY <2>2, <2>3
  <1>8. Len(all) \in Nat /\ (index <= Len(all) => index + 1 \in 1 .. Len(all) + 1 /\ all[index] \in Entries)
    BY <1>3, SeqFacts
  <1>9. CASE PassOver
    <2>1. UNCHANGED <<phase, pid, tid, all, milist, out>> /\ index' = index + 1 /\ index <= Len(all)
      BY <1>9 DEF PassOver
    <2>2. index' \in 1 .. Len(all') + 1
      BY <1>8, <2>1
    <2>3. QED
      BY <1>1, <1>2, <1>3, <2>1, <2>2, NewTyping
  <1>10. CASE ReadName
    <2>1. UNCHANGED <<pid, tid, all, index>>
      BY <1>10 DEF ReadName, live
    <2>2. CASE index > Len(all) /\ phase' = "done" /\ milist' = << >> /\ UNCHANGED out
      <3>1. milist' \in Seq(Maps)
        BY <2>2, EmptySeq
      <3>2. QED
        BY <1>1, <1>2, <1>3, <2>1, <2>2, <3>1, NewTyping
    <2>3. CASE /\ index <= Len(all) /\ out' = Append(out, Line("kernel", Subject))
               /\ phase' = IF Subject \in Pids THEN "maps" ELSE "unwind"
               /\ UNCHANGED milist
      <3>1. Subject \in Tasks
        BY <1>8, <2>3 DEF Subject, Entries
      <3>2. Line("kernel", Subject) \in OutLines
        BY <3>1, LineFacts, KindFacts DEF Kinds
      <3>3. out' \in Seq(OutLines)
        BY <1>3, <2>3, <3>2, AppendFacts
      <3>4. QED
        BY <1>1, <1>2, <1>3, <1>4, <2>1, <2>3, <3>3, NewTyping
    <2>4. QED
      BY <1>10, <2>2, <2>3 DEF ReadName
  <1>11. CASE ReadMaps
    <2>1. UNCHANGED <<pid, tid, all, out>> /\ phase = "maps"
      BY <1>11 DEF ReadMaps
    <2>2. index <= Len(all) /\ Subject \in Pids
      BY <2>1 DEF LiveOK
    <2>3. milist' \in Seq(Maps)
      <3>1. MapList(MapsOf[Subject]) \in Seq(Maps)
        BY <2>2, RowFacts
      <3>2. ParseElf(MapList(MapsOf[Subject]), Parser) \in Seq(Maps)
        BY <3>1, ParseElfFacts
      <3>3. QED
        BY <1>11, <3>2, EmptySeq DEF ReadMaps
    <2>4. /\ phase' \in {"names", "unwind"}
          /\ index' \in 1 .. Len(all') + 1
      BY <1>3, <1>8, <1>11, <2>1, <2>2 DEF ReadMaps
    <2>5. QED
      BY <1>1, <1>2, <1>3, <1>4, <2>1, <2>3, <2>4, NewTyping
  <1>12. CASE PrintStack
    <2>1. /\ UNCHANGED <<pid, tid, all, milist>> /\ phase = "unwind" /\ phase' = "names"
          /\ index' = index + 1
          /\ out' = out \o Named(table, milist, FirstOf(all[index].pcs, StackDepth), Wide)
      BY <1>12 DEF PrintStack
    <2>2. index <= Len(all) /\ Loaded(milist, Reads)
      BY <2>1 DEF LiveOK, OutOK
    <2>3. FirstOf(all[index].pcs, StackDepth) \in Seq(PcSet)
      BY <1>8, <2>2, FirstOfFacts, LimitsAssumption DEF Entries
    <2> DEFINE n == Named(table, milist, FirstOf(all[index].pcs, StackDepth), Wide)
    <2>4. n \in Seq(OutLines)
      BY <2>2, <2>3, NamedOut, ObjectAssumption
    <2> HIDE DEF n
    <2>5. out' \in Seq(OutLines)
      BY <1>3, <2>1, <2>4, JoinFacts DEF n
    <2>6. index' \in 1 .. Len(all') + 1
      BY <1>8, <2>1, <2>2
    <2>7. QED
      BY <1>1, <1>2, <1>3, <1>4, <2>1, <2>5, <2>6, NewTyping
  <1>13. QED
    BY <1>1, <1>6, <1>7, <1>9, <1>10, <1>11, <1>12

\* A stack is written, or an empty one of a task that ends.
LEMMA StackOrEndFacts ==
  ASSUME StackTyping, NEW t \in Tasks, StackOrEnd(t)
  PROVE  /\ \E g \in {StackLines(t), EmptyStack(t)} : file' = file \o g
         /\ file' \in Seq(FileLines) /\ alive' \subseteq alive
         /\ alive' \in SUBSET Tasks /\ \A p \in Pids : \A u \in Threads[p] : u \in alive' => p \in alive'
  <1>1. file \in Seq(FileLines)
    BY DEF StackTyping
  <1>2. PICK g \in {StackLines(t), EmptyStack(t)} : file' = file \o g
    BY DEF StackOrEnd
  <1>3. file' \in Seq(FileLines)
    <2>1. g \in Seq(FileLines)
      BY StackPiece
    <2>2. QED
      BY <1>1, <1>2, <2>1, JoinFacts
  <1>4. CASE UNCHANGED system
    <2>1. alive' = alive
      BY <1>4 DEF system
    <2>2. QED
      BY <1>2, <1>3, <2>1 DEF StackTyping
  <1>5. CASE alive' = alive \ (IF t \in Pids THEN {t} \cup Threads[t] ELSE {t})
    BY <1>2, <1>3, <1>5, LeftFacts
  <1>6. QED
    BY <1>4, <1>5 DEF StackOrEnd

\* Types: the writing of a trace,
LEMMA WriteTyping ==
  ASSUME StackTyping, WriteOK, WriteProcess \/ WriteMaps \/ WriteStack \/ WriteThread
  PROVE  StackTyping' /\ alive' \subseteq alive
  <1>1. UNCHANGED <<given, all, index, pos, pending, title, milist, out>>
    BY DEF WriteProcess, WriteMaps, WriteStack, WriteThread, live
  <1>2. /\ all' \in Seq(Entries) /\ index' \in 1 .. Len(all') + 1
        /\ pending' \in Seq(PcSet)
        /\ title' \in Seq(FileLines) /\ milist' \in Seq(Maps) /\ out' \in Seq(OutLines)
    BY <1>1 DEF StackTyping
  <1>3. /\ phase \in Phases \cup {"done"} /\ pid \in Pids \cup {0} /\ tid \in Nat
        /\ file \in Seq(FileLines)
        /\ alive \in SUBSET Tasks /\ \A p \in Pids : \A t \in Threads[p] : t \in alive => p \in alive
    BY DEF StackTyping
  <1>4. Phases = Writing \cup Reading
    BY AskFacts DEF WriteProcess, WriteMaps, WriteStack, WriteThread, Writing
  <1>13. pos = 0
    BY DEF WriteOK, Writing, WriteProcess, WriteMaps, WriteStack, WriteThread
  <1>5. ASSUME file' \in Seq(FileLines) PROVE pos' \in 0 .. Len(file')
    <2>1. Len(file') \in Nat
      BY <1>5, SeqFacts
    <2>2. QED
      BY <1>1, <1>13, <2>1
  <1>6. ASSUME UNCHANGED system
        PROVE  /\ alive' \subseteq alive
               /\ alive' \in SUBSET Tasks /\ \A p \in Pids : \A u \in Threads[p] : u \in alive' => p \in alive'
    BY <1>3, <1>6 DEF system
  <1>14. ASSUME NEW k \in Kinds, NEW t \in Tasks PROVE Append(file, Line(k, t)) \in Seq(FileLines)
    BY <1>3, LineFacts, AppendFacts
  <1>7. CASE WriteProcess
    <2>1. UNCHANGED <<system, tid>>
      BY <1>7 DEF WriteProcess
    <2> DEFINE next == {p \in Pids \cap alive : p > pid}
    <2>2. CASE next = {}
      <3>1. phase' = "find_pid" /\ UNCHANGED <<file, pid>>
        BY <1>7, <2>2 DEF WriteProcess
      <3>2. QED
        BY <1>1, <1>2, <1>3, <1>4, <1>5, <1>6, <2>1, <3>1, NewTyping DEF Reading
    <2>3. CASE next # {}
      <3>1. pid' = Least(next) /\ file' = Append(file, Line("pid_start", pid')) /\ phase' = "write_maps"
        BY <1>7, <2>3 DEF WriteProcess
      <3>2. pid \in Nat
        BY <1>3, TasksAssumption
      <3>3. pid' \in Pids /\ pid' \in Tasks
        BY <2>3, <3>1, <3>2, FoundFacts
      <3>4. file' \in Seq(FileLines)
        <4> DEFINE q == pid'
        <4>1. Append(file, Line("pid_start", q)) \in Seq(FileLines)
          BY <1>14, <3>3 DEF Kinds
        <4>2. QED
          BY <3>1, <4>1
      <3>5. QED
        BY <1>1, <1>2, <1>3, <1>4, <1>5, <1>6, <2>1, <3>1, <3>3, <3>4, NewTyping DEF Writing
    <2>4. QED
      BY <2>2, <2>3
  <1>8. CASE WriteMaps
    <2>1. UNCHANGED <<system, pid, tid>> /\ phase = "write_maps" /\ phase' = "write_stack"
      BY <1>8 DEF WriteMaps
    <2>2. pid \in Pids
      BY <2>1 DEF WriteOK
    <2>3. file \o MapLines(pid) \in Seq(FileLines)
      BY <1>3, <2>2, MapLinesFacts, JoinFacts
    <2>4. file' \in Seq(FileLines)
      BY <1>3, <1>8, <2>3 DEF WriteMaps
    <2>5. QED
      BY <1>1, <1>2, <1>3, <1>4, <1>5, <1>6, <2>1, <2>4, NewTyping DEF Writing
  <1>9. CASE WriteStack
    <2>1. UNCHANGED pid /\ tid' = 0 /\ phase = "write_stack" /\ phase' = "write_threads"
      BY <1>9 DEF WriteStack
    <2>2. pid \in Pids /\ pid \in Tasks
      BY <2>1, TaskFacts DEF WriteOK
    <2>3. /\ file' \in Seq(FileLines) /\ alive' \subseteq alive
          /\ alive' \in SUBSET Tasks /\ \A p \in Pids : \A u \in Threads[p] : u \in alive' => p \in alive'
      <3>1. StackOrEnd(pid) \/ UNCHANGED <<file, system>>
        BY <1>9 DEF WriteStack
      <3>2. CASE StackOrEnd(pid)
        BY <2>2, <3>2, StackOrEndFacts
      <3>3. CASE UNCHANGED <<file, system>>
        BY <1>3, <1>6, <3>3
      <3>4. QED
        BY <3>1, <3>2, <3>3
    <2>4. QED
      BY <1>1, <1>2, <1>3, <1>4, <1>5, <2>1, <2>3, NewTyping DEF Writing
  <1>10. CASE WriteThread
    <2>1. UNCHANGED pid /\ phase = "write_threads"
      BY <1>10 DEF WriteThread
    <2>2. pid \in Pids /\ pid \in Tasks
      BY <2>1, TaskFacts DEF WriteOK
    <2> DEFINE next == {t \in Threads[pid] \cap alive : t > tid}
    <2>3. CASE next = {}
      <3>1. file' = Append(file, Line("pid_end", pid)) /\ phase' = "write_processes" /\ UNCHANGED <<tid, system>>
        BY <1>10, <2>3 DEF WriteThread
      <3>2. file' \in Seq(FileLines)
        BY <1>14, <2>2, <3>1 DEF Kinds
      <3>3. QED
        BY <1>1, <1>2, <1>3, <1>4, <1>5, <1>6, <2>1, <3>1, <3>2, NewTyping DEF Writing
    <2>4. CASE next # {}
      <3>1. tid' = Least(next) /\ StackOrEnd(tid') /\ phase' = phase
        BY <1>10, <2>4 DEF WriteThread
      <3>2. tid' \in Nat /\ tid' \in Tasks
        <4>1. tid' = Least(next) /\ tid \in Nat
          BY <1>3, <3>1
        <4>2. QED
          BY <2>4, <4>1, FoundFacts
      <3>3. /\ file' \in Seq(FileLines) /\ alive' \subseteq alive
            /\ alive' \in SUBSET Tasks /\ \A p \in Pids : \A u \in Threads[p] : u \in alive' => p \in alive'
        <4> DEFINE q == tid'
        <4>1. q \in Tasks /\ StackOrEnd(q)
          BY <3>1, <3>2
        <4> HIDE DEF q
        <4>2. QED
          BY <4>1, StackOrEndFacts
      <3>4. QED
        BY <1>1, <1>2, <1>3, <1>4, <1>5, <2>1, <3>1, <3>2, <3>3, NewTyping
    <2>5. QED
      BY <2>3, <2>4
  <1>11. QED
    BY <1>7, <1>8, <1>9, <1>10

\* Among the lines of the maps, the next one is the row of the process that the list has not got
\* yet, or the end.
LEMMA MapsNow ==
  ASSUME StackTyping, ReadOK, Piece(file), phase = "maps_lines", pos < Len(file)
  PROVE  \E p \in Pids : \E k \in 0 .. Len(MapsOf[p]) :
           /\ milist = Listed(MapsOf[p])[k]
           /\ Now = IF k = Len(MapsOf[p]) THEN Line("maps_end", p) ELSE MapLine(p, MapsOf[p][k + 1])
           /\ pos + 1 - (k + 1) \in 1 .. pos /\ file[pos + 1 - (k + 1)].kind = "maps_start"
           /\ file[pos + 1 - (k + 1)].of = p
  <1>1. PICK i \in 1 .. pos : /\ file[i].kind = "maps_start" /\ pos - i <= Len(MapsOf[file[i].of])
                              /\ milist = Listed(MapsOf[file[i].of])[pos - i]
    BY DEF ReadOK
  <1>2. pos \in Nat /\ pos + 1 \in DOMAIN file /\ Now = file[pos + 1] /\ i \in DOMAIN file
    <2>1. pos \in 0 .. Len(file) /\ DOMAIN file = 1 .. Len(file) /\ Len(file) \in Nat
      BY SeqFacts DEF StackTyping
    <2>2. QED
      BY <2>1, NowFacts
  <1>3. WholeAt(file, i)
    BY <1>1, <1>2 DEF Piece
  <1> DEFINE p == file[i].of
             rows == MapsOf[p]
             k == pos - i
  <1>4. /\ p \in Pids /\ DOMAIN rows = 1 .. Len(rows) /\ Len(rows) \in Nat
        /\ \A n \in DOMAIN rows : file[i + n] = MapLine(p, rows[n])
        /\ file[i + Len(rows) + 1] = Line("maps_end", p)
    BY <1>3, RowFacts DEF WholeAt
  <1>5. k \in 0 .. Len(rows) /\ i + (k + 1) = pos + 1 /\ pos + 1 - (k + 1) = i
    BY <1>1, <1>2, <1>4
  <1>6. Now = IF k = Len(rows) THEN Line("maps_end", p) ELSE MapLine(p, rows[k + 1])
    <2>1. CASE k = Len(rows)
      <3>1. i + Len(rows) + 1 = pos + 1
        BY <1>2, <1>4, <1>5, <2>1
      <3>2. QED
        BY <1>2, <1>4, <2>1, <3>1
    <2>2. CASE k # Len(rows)
      <3>1. k + 1 \in DOMAIN rows
        BY <1>4, <1>5, <2>2
      <3>2. QED
        BY <1>2, <1>4, <1>5, <2>2, <3>1
    <2>3. QED
      BY <2>1, <2>2
  <1>7. p \in Pids /\ k \in 0 .. Len(MapsOf[p])
    BY <1>4, <1>5
  <1>8. /\ milist = Listed(MapsOf[p])[k]
        /\ Now = IF k = Len(MapsOf[p]) THEN Line("maps_end", p) ELSE MapLine(p, MapsOf[p][k + 1])
        /\ pos + 1 - (k + 1) \in 1 .. pos /\ file[pos + 1 - (k + 1)].kind = "maps_start"
        /\ file[pos + 1 - (k + 1)].of = p
    BY <1>1, <1>5, <1>6
  <1> HIDE DEF p, k
  <1>9. QED
    BY <1>7, <1>8

FindStep == FindPid \/ FindMaps \/ MapsLine \/ FindStack \/ Kernel \/ UserLine \/ EndOfFile

\* the reading of it,
LEMMA FindTyping ==
  ASSUME StackTyping, ReadOK, OutOK, Piece(file), FindStep
  PROVE  StackTyping' /\ UNCHANGED <<alive, file>>
  <1>1. UNCHANGED <<given, alive, pid, tid, all, index, file>>
    BY DEF FindStep, FindPid, FindMaps, MapsLine, FindStack, Kernel, UserLine, EndOfFile, live, system, trace
  <1>2. /\ alive' \in SUBSET Tasks /\ \A p \in Pids : \A t \in Threads[p] : t \in alive' => p \in alive'
        /\ pid' \in Pids \cup {0} /\ tid' \in Nat
        /\ all' \in Seq(Entries) /\ index' \in 1 .. Len(all') + 1 /\ file' \in Seq(FileLines)
    BY <1>1 DEF StackTyping
  <1>3. /\ pending \in Seq(PcSet) /\ title \in Seq(FileLines) /\ milist \in Seq(Maps)
        /\ out \in Seq(OutLines) /\ pos \in 0 .. Len(file) /\ file \in Seq(FileLines)
    BY DEF StackTyping
  <1>4. Phases = Writing \cup Reading /\ phase \in Reading
    BY AskFacts DEF FindStep, FindPid, FindMaps, MapsLine, FindStack, Kernel, UserLine, EndOfFile, Next1, Reading
  <1>5. CASE EndOfFile
    <2>1. UNCHANGED <<pos, pending, title, out>> /\ phase' = "done" /\ milist' = << >>
      BY <1>5 DEF EndOfFile, trace
    <2>2. milist' \in Seq(Maps)
      BY <2>1, EmptySeq
    <2>3. QED
      BY <1>1, <1>2, <1>3, <2>1, <2>2, NewTyping
  <1> DEFINE Line1 == FindPid \/ FindMaps \/ MapsLine \/ FindStack \/ Kernel \/ UserLine
  <1>6. ASSUME Line1
        PROVE  /\ pos < Len(file) /\ pos' \in 0 .. Len(file') /\ Now \in OutLines
               /\ (phase' \in Reading => phase' \in Phases \cup {"done"})
               /\ Append(out, Now) \in Seq(OutLines)
    <2>1. pos < Len(file) /\ pos' = pos + 1
      BY <1>6 DEF FindPid, FindMaps, MapsLine, FindStack, Kernel, UserLine, Next1
    <2>2. Now \in OutLines /\ pos + 1 \in 0 .. Len(file)
      BY <2>1, NowFacts
    <2>3. QED
      BY <1>1, <1>3, <1>4, <2>1, <2>2, AppendFacts
  <1>7. CASE FindPid
    <2>1. UNCHANGED <<pending, title, milist>> /\ out' = Append(out, Now) /\ phase' \in Reading
      BY <1>4, <1>7 DEF FindPid, Copy, Reading
    <2>2. QED
      BY <1>1, <1>2, <1>3, <1>6, <1>7, <2>1, NewTyping
  <1>8. CASE FindMaps
    <2>1. UNCHANGED <<pending, title, milist>> /\ out' \in {out, Append(out, Now)} /\ phase' \in Reading
      BY <1>4, <1>8 DEF FindMaps, Copy, Reading
    <2>2. QED
      BY <1>1, <1>2, <1>3, <1>6, <1>8, <2>1, NewTyping
  <1>9. CASE MapsLine
    <2>1. UNCHANGED <<pending, title, out>> /\ phase = "maps_lines" /\ pos' = pos + 1 /\ phase' \in Reading
      BY <1>4, <1>9 DEF MapsLine, Next1, Reading
    <2>2. milist' \in Seq(Maps)
      <3>1. CASE Now.kind = "maps_end"
        <4>1. milist' = ParseElf(milist, 32)
          BY <1>9, <3>1 DEF MapsLine
        <4>2. QED
          BY <1>3, <4>1, ParseElfFacts
      <3>2. CASE Now.kind # "maps_end"
        <4>1. milist' = AddLine(milist, Now.line)
          BY <1>9, <3>2 DEF MapsLine
        <4>2. Now.kind = "map"
          <5>1. PICK p \in Pids : \E k \in 0 .. Len(MapsOf[p]) :
                  Now = IF k = Len(MapsOf[p]) THEN Line("maps_end", p) ELSE MapLine(p, MapsOf[p][k + 1])
            BY <1>6, <1>9, <2>1, MapsNow
          <5>2. QED
            BY <3>2, <5>1 DEF Line, MapLine
        <4>3. Now.line \in Rows
          BY <1>6, <1>9, <4>2, NowFacts
        <4>4. QED
          BY <1>3, <4>1, <4>3, AddLineFacts
      <3>3. QED
        BY <3>1, <3>2
    <2>3. QED
      BY <1>1, <1>2, <1>3, <1>6, <1>9, <2>1, <2>2, NewTyping
  <1>10. CASE FindStack
    <2>1. /\ UNCHANGED <<pending, title>> /\ out' = Append(out, Now) /\ milist' \in {milist, << >>}
          /\ phase' \in Reading
      BY <1>4, <1>10 DEF FindStack, Copy, Reading
    <2>2. milist' \in Seq(Maps)
      BY <1>3, <2>1, EmptySeq
    <2>3. QED
      BY <1>1, <1>2, <1>3, <1>6, <1>10, <2>1, <2>2, NewTyping
  <1>11. CASE Kernel
    <2>1. UNCHANGED <<pending, title, milist>> /\ out' \in {out, Append(out, Now)} /\ phase' \in Reading
      BY <1>4, <1>11 DEF Kernel, Copy, Reading
    <2>2. QED
      BY <1>1, <1>2, <1>3, <1>6, <1>11, <2>1, NewTyping
  <1>12. CASE UserLine
    <2>1. phase = "user" /\ UNCHANGED milist /\ pos < Len(file)
      BY <1>12 DEF UserLine, Next1
    <2>2. CASE ~ Full(pending) /\ Now.kind # "stack_end"
      <3>1. pending' = Append(pending, Now) /\ UNCHANGED <<phase, title, out>>
        BY <1>12, <2>2 DEF UserLine
      <3>2. Now \in PcSet
        <4>1. pos > 0 /\ file[pos].kind \in {"userspace", "pc"}
          BY <2>1 DEF ReadOK
        <4>2. pos \in DOMAIN file /\ pos + 1 \in DOMAIN file /\ Now = file[pos + 1]
          BY <1>3, <2>1, <4>1, NowFacts, SeqFacts
        <4>3. Follows(file[pos], Now)
          BY <4>2 DEF Piece
        <4>4. Now.kind \in {"pc", "stack_end"}
          BY <4>1, <4>3 DEF Follows, Successors
        <4>5. QED
          BY <2>1, <2>2, <4>4, NowFacts
      <3>3. pending' \in Seq(PcSet)
        BY <1>3, <3>1, <3>2, AppendFacts
      <3>4. QED
        BY <1>1, <1>2, <1>3, <1>4, <1>6, <1>12, <2>1, <3>1, <3>3, NewTyping
    <2>3. CASE Full(pending) \/ Now.kind = "stack_end"
      <3>1. /\ title' = (IF Full(pending) THEN title ELSE <<Now>>)
            /\ out' = out \o Named(table, milist, pending, FALSE) \o title'
            /\ pending' = << >> /\ phase' = "find_stack"
        BY <1>12, <2>3 DEF UserLine
      <3>2. pending' \in Seq(PcSet)
        BY <3>1, EmptySeq
      <3>3. title' \in Seq(FileLines) /\ title' \in Seq(OutLines)
        <4>1. <<Now>> \in Seq(FileLines)
          BY <2>1, NowFacts, OneFacts
        <4>2. title' \in Seq(FileLines)
          BY <1>3, <3>1, <4>1
        <4>3. FileLines \subseteq OutLines
          BY DEF OutLines
        <4> DEFINE t == title'
        <4>4. t \in Seq(FileLines)
          BY <4>2
        <4> HIDE DEF t
        <4>5. Len(t) \in Nat /\ t \in [1 .. Len(t) -> FileLines]
          BY <4>4, LenProperties
        <4>6. t \in [1 .. Len(t) -> OutLines]
          BY <4>3, <4>5
        <4>7. t \in Seq(OutLines)
          BY <4>5, <4>6, SeqDef
        <4>8. QED
          BY <4>2, <4>7 DEF t
      <3>4. Loaded(milist, Reads)
        BY <2>1 DEF OutOK
      <3> DEFINE n == Named(table, milist, pending, FALSE)
      <3>5. n \in Seq(OutLines)
        BY <1>3, <3>4, NamedOut
      <3> HIDE DEF n
      <3>6. out' = (out \o n) \o title'
        BY <3>1 DEF n
      <3>7. out \o n \in Seq(OutLines)
        BY <1>3, <3>5, JoinFacts
      <3>8. out' \in Seq(OutLines)
        <4> DEFINE o == out \o n
                   t == title'
        <4>1. o \in Seq(OutLines) /\ t \in Seq(OutLines)
          BY <3>3, <3>7
        <4> HIDE DEF o, t
        <4>2. o \o t \in Seq(OutLines)
          BY <4>1, JoinFacts
        <4>3. QED
          BY <3>6, <4>2 DEF o, t
      <3>9. QED
        BY <1>1, <1>2, <1>3, <1>4, <1>6, <1>12, <2>1, <3>1, <3>2, <3>3, <3>8, NewTyping DEF Reading
    <2>4. QED
      BY <2>2, <2>3
  <1>13. QED
    BY <1>1, <1>5, <1>7, <1>8, <1>9, <1>10, <1>11, <1>12 DEF FindStep

\* and the stack of one process.
LEMMA AnrTyping ==
  ASSUME StackTyping, OutOK, ParseAnrMaps \/ ParseAnrStack
  PROVE  StackTyping' /\ alive' = alive
  <1>1. UNCHANGED <<given, alive, pid, tid, all, index, file, pos, pending, title>>
    BY DEF ParseAnrMaps, ParseAnrStack, live, system, trace
  <1>2. /\ alive' \in SUBSET Tasks /\ \A p \in Pids : \A t \in Threads[p] : t \in alive' => p \in alive'
        /\ pid' \in Pids \cup {0} /\ tid' \in Nat
        /\ all' \in Seq(Entries) /\ index' \in 1 .. Len(all') + 1
        /\ file' \in Seq(FileLines) /\ pos' \in 0 .. Len(file') /\ pending' \in Seq(PcSet)
        /\ title' \in Seq(FileLines)
    BY <1>1 DEF StackTyping
  <1>3. request.pid \in Pids /\ request.pid \in Tasks /\ Phases = {"anr", "anr_stack"}
    BY AskFacts, TaskFacts DEF ParseAnrMaps, ParseAnrStack
  <1>4. CASE ParseAnrMaps
    <2>1. /\ out' = <<Line("kernel", request.pid)>> /\ phase' = "anr_stack"
          /\ milist' = ParseElf(MapList(MapsOf[request.pid]), Parser)
      BY <1>4 DEF ParseAnrMaps
    <2>2. milist' \in Seq(Maps)
      <3>1. MapList(MapsOf[request.pid]) \in Seq(Maps)
        BY <1>3, RowFacts
      <3>2. QED
        BY <2>1, <3>1, ParseElfFacts
    <2>3. out' \in Seq(OutLines)
      <3>1. Line("kernel", request.pid) \in OutLines
        BY <1>3, LineFacts, KindFacts DEF Kinds
      <3>2. QED
        BY <2>1, <3>1, OneFacts
    <2>4. QED
      BY <1>1, <1>2, <1>3, <2>1, <2>2, <2>3, NewTyping
  <1>5. CASE ParseAnrStack
    <2> DEFINE ls == PcLines(request.pid, FirstOf(UserPcs(request.pid), StackDepth - 1))
    <2>1. /\ out' = out \o Named(table, milist, ls, FALSE) /\ phase' = "done" /\ milist' = milist
          /\ phase = "anr_stack"
      BY <1>5 DEF ParseAnrStack
    <2>2. ls \in Seq(PcSet)
      <3>1. UserPcs(request.pid) \in Seq(Nat) /\ StackDepth - 1 \in Nat
        BY <1>3, UserPcsFacts, LimitsAssumption
      <3>2. FirstOf(UserPcs(request.pid), StackDepth - 1) \in Seq(Nat)
        BY <3>1, FirstOfFacts
      <3>3. QED
        BY <1>3, <3>2, PcLinesFacts
    <2> HIDE DEF ls
    <2>3. Loaded(milist, Reads)
      BY <2>1 DEF OutOK
    <2> DEFINE n == Named(table, milist, ls, FALSE)
    <2>4. n \in Seq(OutLines)
      BY <2>2, <2>3, NamedOut
    <2> HIDE DEF n
    <2>5. out' \in Seq(OutLines) /\ milist' \in Seq(Maps)
      BY <2>1, <2>4, JoinFacts DEF n, StackTyping
    <2>6. QED
      BY <1>1, <1>2, <2>1, <2>5, NewTyping
  <1>6. QED
    BY <1>1, <1>4, <1>5

\* One more entry of StackAll.
LEMMA MoreEntries ==
  ASSUME StackTyping, LiveOK, NEW t \in Tasks,
         t \in Pids \/ (all # << >> /\ Process(t) = Process(all[Len(all)].of))
  PROVE  LET a == Append(all, Entry(t))
         IN  /\ \A k \in DOMAIN a :
                  a[k].of \notin Pids => k > 1 /\ Process(a[k].of) = Process(a[k - 1].of)
             /\ a # << >> /\ a[Len(a)].of = t
  <1> DEFINE e == Entry(t)
             n == Len(all)
             a == Append(all, e)
  <1>1. e \in Entries /\ e.of = t /\ all \in Seq(Entries)
    BY EntryFacts DEF StackTyping
  <1> HIDE DEF e
  <1>2. n \in Nat /\ DOMAIN all = 1 .. n
    BY <1>1, SeqFacts
  <1>3. /\ a \in Seq(Entries) /\ Len(a) = n + 1 /\ DOMAIN a = 1 .. n + 1
        /\ \A i \in 1 .. n : a[i] = all[i]
        /\ a[n + 1] = e
    BY <1>1, <1>2, AppendFacts
  <1>4. all # << >> => n > 0
    BY <1>1, <1>2, EmptySeq
  <1> HIDE DEF a, n
  <1>5. ASSUME NEW k \in DOMAIN a, a[k].of \notin Pids
        PROVE  k > 1 /\ Process(a[k].of) = Process(a[k - 1].of)
    <2>1. CASE k \in 1 .. n
      <3>1. k > 1 /\ Process(all[k].of) = Process(all[k - 1].of)
        BY <1>2, <1>3, <1>5, <2>1 DEF LiveOK
      <3>2. k - 1 \in 1 .. n
        BY <1>2, <2>1, <3>1
      <3>3. QED
        BY <1>3, <2>1, <3>1, <3>2
    <2>2. CASE k = n + 1
      <3>1. t \notin Pids
        BY <1>1, <1>3, <1>5, <2>2
      <3>2. n > 0 /\ Process(t) = Process(all[n].of)
        BY <1>4, <3>1 DEF n
      <3>3. n \in 1 .. n /\ k - 1 = n /\ k > 1
        BY <1>2, <2>2, <3>2
      <3>4. QED
        BY <1>1, <1>3, <2>2, <3>2, <3>3
    <2>3. QED
      BY <1>2, <1>3, <2>1, <2>2
  <1>6. a # << >>
    BY <1>2, <1>3, EmptySeq
  <1>7. QED
    BY <1>1, <1>3, <1>5, <1>6 DEF a, e

\* The maps are those of the process whose stack is printed next, with each step of the tool
LEMMA LiveStep ==
  ASSUME StackTyping, LiveOK,
         ReadProcess \/ ReadThread \/ PassOver \/ ReadName \/ ReadMaps \/ PrintStack
  PROVE  LiveOK'
  <1>1. UNCHANGED <<given, alive>>
    BY DEF ReadProcess, ReadThread, PassOver, ReadName, ReadMaps, PrintStack, system
  <1>2. /\ Reads' = Reads
        /\ request.ask \in {"all", "one"} /\ Wanted \subseteq Pids
    BY <1>1, Rigid, AskFacts DEF ReadProcess, ReadThread, PassOver, ReadName, ReadMaps, PrintStack
  <1>3. /\ pid \in Pids \cup {0} /\ tid \in Nat /\ all \in Seq(Entries) /\ index \in 1 .. Len(all) + 1
        /\ Len(all) \in Nat /\ DOMAIN all = 1 .. Len(all)
        /\ \A i \in DOMAIN all : all[i] \in Entries /\ all[i].of \in Tasks
    <2>1. pid \in Pids \cup {0} /\ tid \in Nat /\ all \in Seq(Entries) /\ index \in 1 .. Len(all) + 1
      BY DEF StackTyping
    <2>2. Len(all) \in Nat /\ DOMAIN all = 1 .. Len(all) /\ \A i \in DOMAIN all : all[i] \in Entries
      BY <2>1, SeqFacts
    <2>3. \A e \in Entries : e.of \in Tasks
      BY DEF Entries
    <2>4. QED
      BY <2>1, <2>2, <2>3
  <1>4. \A k \in DOMAIN all :
          all[k].of \notin Pids => k > 1 /\ Process(all[k].of) = Process(all[k - 1].of)
    BY DEF LiveOK
  <1>5. CASE ReadProcess
    <2>1. UNCHANGED <<index, milist>> /\ index = 1
      BY <1>5 DEF ReadProcess, LiveOK
    <2> DEFINE next == {p \in Wanted \cap alive : p > pid}
    <2>2. CASE next = {}
      <3>1. phase' = "names" /\ UNCHANGED all
        BY <1>5, <2>2 DEF ReadProcess
      <3>2. QED
        BY <1>4, <2>1, <3>1 DEF LiveOK
    <2>5. CASE next # {} /\ ~ Room
      <3>1. phase' = "processes" /\ UNCHANGED all
        BY <1>5, <2>5 DEF ReadProcess, Record
      <3>2. QED
        BY <1>4, <2>1, <3>1 DEF LiveOK
    <2>3. CASE next # {} /\ Room
      <3>1. pid' = Least(next) /\ all' = Append(all, Entry(pid')) /\ phase' = "threads"
        BY <1>5, <2>3 DEF ReadProcess, Record
      <3>2. pid \in Nat
        BY <1>3, TasksAssumption
      <3>3. pid' \in Pids
        BY <1>2, <2>3, <3>1, <3>2, FoundFacts
      <3> DEFINE q == pid'
      <3>4. q \in Pids /\ q \in Tasks /\ Process(q) = q /\ all' = Append(all, Entry(q))
        BY <3>1, <3>3, TaskFacts
      <3> HIDE DEF q
      <3>5. /\ \A k \in DOMAIN all' :
                 all'[k].of \notin Pids => k > 1 /\ Process(all'[k].of) = Process(all'[k - 1].of)
            /\ all' # << >> /\ all'[Len(all')].of = q
        BY <3>4, MoreEntries
      <3>6. QED
        BY <2>1, <3>1, <3>4, <3>5 DEF LiveOK, q
    <2>4. QED
      BY <2>2, <2>3, <2>5
  <1>6. CASE ReadThread
    <2>1. UNCHANGED <<pid, index, milist>> /\ index = 1 /\ pid \in Pids /\ all # << >>
          /\ Process(all[Len(all)].of) = pid /\ phase = "threads"
      BY <1>6 DEF ReadThread, LiveOK
    <2> DEFINE next == {t \in Threads[pid] \cap alive : t > tid}
    <2>2. CASE next = {}
      <3>1. phase' = "processes" /\ UNCHANGED all
        BY <1>6, <2>2 DEF ReadThread
      <3>2. QED
        BY <1>4, <2>1, <3>1 DEF LiveOK
    <2>5. CASE next # {} /\ ~ Room
      <3>1. phase' = phase /\ UNCHANGED all
        BY <1>6, <2>5 DEF ReadThread, Record
      <3>2. QED
        BY <1>4, <2>1, <3>1 DEF LiveOK
    <2>3. CASE next # {} /\ Room
      <3>1. tid' = Least(next) /\ all' = Append(all, Entry(tid')) /\ phase' = phase
        BY <1>6, <2>3 DEF ReadThread, Record
      <3>2. tid' \in Threads[pid]
        BY <1>3, <2>3, <3>1, FoundFacts
      <3> DEFINE q == tid'
      <3>3. q \in Tasks /\ Process(q) = pid /\ all' = Append(all, Entry(q))
        BY <2>1, <3>1, <3>2, TaskFacts
      <3> HIDE DEF q
      <3>4. /\ \A k \in DOMAIN all' :
                 all'[k].of \notin Pids => k > 1 /\ Process(all'[k].of) = Process(all'[k - 1].of)
            /\ all' # << >> /\ all'[Len(all')].of = q
        BY <2>1, <3>3, MoreEntries
      <3>5. QED
        BY <2>1, <3>1, <3>3, <3>4 DEF LiveOK
    <2>4. QED
      BY <2>2, <2>3, <2>5
  <1>7. ASSUME UNCHANGED all
        PROVE  \A k \in DOMAIN all' :
                 all'[k].of \notin Pids => k > 1 /\ Process(all'[k].of) = Process(all'[k - 1].of)
    BY <1>4, <1>7
  <1>8. CASE PassOver
    <2>1. /\ UNCHANGED <<phase, all, milist>> /\ phase = "names" /\ index <= Len(all)
          /\ index' = index + 1 /\ Subject \notin alive
      BY <1>8 DEF PassOver
    <2> DEFINE p == Process(Subject)
    <2>2. index \in DOMAIN all /\ Subject \in Tasks /\ index' - 1 = index
      BY <1>3, <2>1 DEF Subject
    <2>3. p \in alive => milist = Own(p)
      <3>1. CASE Subject \in Pids
        BY <2>1, <3>1, TaskFacts
      <3>2. CASE Subject \notin Pids
        <4>1. index > 1 /\ p = Process(all[index - 1].of)
          BY <1>4, <2>2, <3>2 DEF Subject
        <4>2. QED
          BY <2>1, <4>1 DEF LiveOK
      <3>3. QED
        BY <3>1, <3>2
    <2>4. LET r == Process(all'[index' - 1].of) IN r \in alive' => milist' = Own(r)
      BY <1>1, <2>1, <2>2, <2>3 DEF Subject
    <2>5. QED
      BY <1>2, <1>7, <2>1, <2>4 DEF LiveOK, Own
  <1>9. CASE ReadName
    <2>1. UNCHANGED <<all, index>> /\ phase = "names"
      BY <1>9 DEF ReadName, live
    <2>2. CASE phase' = "done"
      BY <1>7, <2>1, <2>2 DEF LiveOK
    <2>3. CASE /\ index <= Len(all) /\ Subject \in alive
               /\ phase' = IF Subject \in Pids THEN "maps" ELSE "unwind"
               /\ UNCHANGED milist
      <3>1. index \in DOMAIN all /\ Subject \in Tasks /\ Subject' = Subject
        BY <1>3, <2>1, <2>3 DEF Subject
      <3>2. Subject \notin Pids => milist = Own(Process(Subject))
        <4> SUFFICES ASSUME Subject \notin Pids PROVE milist = Own(Process(Subject))
          OBVIOUS
        <4>1. index > 1 /\ Process(Subject) = Process(all[index - 1].of)
          BY <1>4, <3>1 DEF Subject
        <4>2. Process(Subject) \in Pids /\ Subject \in Threads[Process(Subject)]
          BY <3>1, TaskFacts
        <4>3. Process(Subject) \in alive
          BY <2>3, <4>2 DEF StackTyping
        <4>4. QED
          BY <2>1, <4>1, <4>3 DEF LiveOK
      <3>3. phase' = "unwind" => milist' = Own(Process(Subject'))
        BY <2>3, <3>1, <3>2
      <3>4. phase' = "maps" => Subject' \in Pids
        BY <2>3, <3>1
      <3>5. QED
        BY <1>2, <1>7, <2>1, <2>3, <3>3, <3>4 DEF LiveOK, Own
    <2>4. QED
      BY <1>9, <2>2, <2>3 DEF ReadName
  <1>10. CASE ReadMaps
    <2>1. UNCHANGED all /\ phase = "maps"
      BY <1>10 DEF ReadMaps
    <2>2. index <= Len(all) /\ Subject \in Pids /\ Process(Subject) = Subject /\ index \in DOMAIN all
      <3>1. index <= Len(all) /\ Subject \in Pids
        BY <2>1 DEF LiveOK
      <3>2. QED
        BY <1>3, <3>1, TaskFacts
    <2>3. Subject \in alive => milist' = Own(Subject)
      <3>1. milist' = IF Subject \in alive THEN ParseElf(MapList(MapsOf[Subject]), Parser) ELSE << >>
        BY <1>10 DEF ReadMaps
      <3>2. Reads = Parser
        BY <1>2 DEF Reads
      <3>3. QED
        BY <3>1, <3>2 DEF Own
    <2>4. CASE milist' = << >>
      <3>1. index' = index + 1 /\ phase' = "names"
        BY <1>10, <2>4 DEF ReadMaps
      <3>2. all'[index' - 1].of = Subject
        BY <1>3, <2>1, <2>2, <3>1 DEF Subject
      <3>3. LET r == Process(all'[index' - 1].of) IN r \in alive' => milist' = Own(r)
        BY <1>1, <2>2, <2>3, <3>2
      <3>4. QED
        BY <1>2, <1>7, <2>1, <3>1, <3>3 DEF LiveOK, Own
    <2>5. CASE milist' # << >>
      <3>1. phase' = "unwind" /\ index' = index /\ Subject \in alive
        BY <1>10, <2>5 DEF ReadMaps
      <3>2. Subject' = Subject
        BY <2>1, <3>1 DEF Subject
      <3>3. milist' = Own(Process(Subject'))
        BY <2>2, <2>3, <3>1, <3>2
      <3>4. QED
        BY <1>2, <1>7, <2>1, <2>2, <3>1, <3>3 DEF LiveOK, Own
    <2>6. QED
      BY <2>4, <2>5
  <1>11. CASE PrintStack
    <2>1. UNCHANGED <<all, milist>> /\ phase = "unwind" /\ phase' = "names" /\ index' = index + 1
      BY <1>11 DEF PrintStack
    <2>2. index <= Len(all) /\ milist = Own(Process(Subject))
      BY <2>1 DEF LiveOK
    <2>3. all'[index' - 1].of = Subject
      BY <1>3, <2>1, <2>2 DEF Subject
    <2>4. LET r == Process(all'[index' - 1].of) IN milist' = Own(r)
      BY <2>1, <2>2, <2>3
    <2>5. QED
      BY <1>2, <1>7, <2>1, <2>4 DEF LiveOK, Own
  <1>12. QED
    BY <1>5, <1>6, <1>8, <1>9, <1>10, <1>11

\* and with those of the others.
LEMMA LiveKept ==
  ASSUME StackTyping, LiveOK, UNCHANGED <<given, all, index>>, alive' \subseteq alive,
         UNCHANGED <<phase, pid, milist>>
           \/ phase' \notin {"processes", "threads", "names", "maps", "unwind"}
  PROVE  LiveOK'
  <1>1. Reads' = Reads
    BY Rigid
  <1>2. CASE UNCHANGED <<phase, pid, milist>>
    <2>1. Subject' = Subject
      BY DEF Subject
    <2>2. QED
      BY <1>1, <1>2, <2>1 DEF LiveOK, Own
  <1>3. CASE phase' \notin {"processes", "threads", "names", "maps", "unwind"}
    BY <1>3 DEF LiveOK
  <1>4. QED
    BY <1>2, <1>3
-----------------------------------------------------------------------------
(* The trace is written process by process.                                *)

\* A trace goes on with a piece that may follow its last line,
LEMMA TraceJoin ==
  ASSUME NEW f \in Seq(FileLines), Trace(f), NEW g \in Seq(FileLines), Piece(g), g # << >>,
         IF f = << >> THEN g[1].kind = "pid_start" ELSE Follows(f[Len(f)], g[1])
  PROVE  /\ Trace(f \o g) /\ f \o g # << >>
         /\ (f \o g)[Len(f \o g)] = g[Len(g)]
  <1>1. CASE f = << >>
    <2>1. f \o g = g
      BY <1>1, ConcatEmptySeq
    <2>2. QED
      BY <1>1, <2>1 DEF Trace
  <1>2. CASE f # << >>
    <2>1. Piece(f \o g)
      BY <1>2, PieceJoin DEF Trace
    <2>2. /\ f \o g # << >> /\ (f \o g)[1] = f[1] /\ (f \o g)[Len(f \o g)] = g[Len(g)]
      BY <1>2, EndsJoin
    <2>3. QED
      BY <1>2, <2>1, <2>2 DEF Trace
  <1>3. QED
    BY <1>1, <1>2

\* or with one such line.
LEMMA TraceLine ==
  ASSUME NEW f \in Seq(FileLines), Trace(f), NEW l \in FileLines, l.kind # "maps_start",
         IF f = << >> THEN l.kind = "pid_start" ELSE Follows(f[Len(f)], l)
  PROVE  LET a == Append(f, l) IN Trace(a) /\ a # << >> /\ a[Len(a)] = l
  <1> DEFINE g == <<l>>
  <1>1. g \in Seq(FileLines) /\ Piece(g) /\ g # << >> /\ Len(g) = 1 /\ g[1] = l
    BY OnePiece
  <1>2. Append(f, l) = f \o g
    BY AppendIsConcat
  <1> HIDE DEF g
  <1>3. /\ Trace(f \o g) /\ f \o g # << >> /\ (f \o g)[Len(f \o g)] = g[Len(g)]
    BY <1>1, TraceJoin
  <1>4. QED
    BY <1>1, <1>2, <1>3

\* The last line of the trace fits the phase: the steps that do not write,
LEMMA WriteKept ==
  ASSUME WriteOK, UNCHANGED file, alive' \subseteq alive,
         UNCHANGED <<phase, pid, pos, out>> \/ phase' \notin Writing
  PROVE  WriteOK'
  <1>1. Trace(file)' <=> Trace(file)
    OBVIOUS
  <1>2. Last1' = Last1
    BY DEF Last1
  <1>3. QED
    BY <1>1, <1>2 DEF WriteOK, Writing

\* and those that do.
LEMMA WriteStep ==
  ASSUME StackTyping, WriteOK, WriteProcess \/ WriteMaps \/ WriteStack \/ WriteThread
  PROVE  WriteOK'
  <1>1. UNCHANGED <<given, pos, out>>
    BY DEF WriteProcess, WriteMaps, WriteStack, WriteThread
  <1>2. /\ file \in Seq(FileLines) /\ Trace(file) /\ pid \in Pids \cup {0} /\ tid \in Nat
        /\ out' = << >> /\ pos' = 0
    BY <1>1 DEF StackTyping, WriteOK, Writing, WriteProcess, WriteMaps, WriteStack, WriteThread
  <1>3. ASSUME NEW f, f = file', NEW l, Trace(f), f # << >>, f[Len(f)] = l
        PROVE  Trace(file)' /\ file' # << >> /\ Last1' = l
    BY <1>3 DEF Last1
  <1>4. CASE WriteProcess
    <2>1. UNCHANGED system /\ phase = "write_processes"
      BY <1>4 DEF WriteProcess
    <2> DEFINE next == {p \in Pids \cap alive : p > pid}
    <2>2. CASE next = {}
      <3>1. phase' = "find_pid" /\ UNCHANGED file
        BY <1>4, <2>2 DEF WriteProcess
      <3>2. QED
        BY <2>1, <3>1, WriteKept DEF Writing, system
    <2>3. CASE next # {}
      <3>1. pid' = Least(next) /\ file' = Append(file, Line("pid_start", pid')) /\ phase' = "write_maps"
        BY <1>4, <2>3 DEF WriteProcess
      <3>2. pid \in Nat
        BY <1>2, TasksAssumption
      <3> DEFINE q == pid'
      <3>3. q \in Pids /\ q \in Tasks /\ Process(q) = q
        <4>1. q \in Pids
          BY <2>3, <3>1, <3>2, FoundFacts
        <4>2. QED
          BY <4>1, TaskFacts
      <3>4. file' = Append(file, Line("pid_start", q))
        BY <3>1
      <3> HIDE DEF q
      <3> DEFINE l == Line("pid_start", q)
      <3>5. l \in FileLines /\ l.kind = "pid_start" /\ l.of = q
        BY <3>3, LineFacts DEF Kinds
      <3> HIDE DEF l
      <3>6. file # << >> => Follows(file[Len(file)], l)
        BY <2>1, <3>5 DEF WriteOK, Follows, Last1
      <3>7. Trace(Append(file, l)) /\ Append(file, l) # << >> /\ Append(file, l)[Len(Append(file, l))] = l
        BY <1>2, <3>5, <3>6, TraceLine
      <3>8. Trace(file)' /\ file' # << >> /\ Last1' = l
        BY <1>3, <3>4, <3>7 DEF l
      <3>9. pid' \in Pids /\ Process(l.of) = pid'
        BY <3>3, <3>5 DEF q
      <3>10. QED
        BY <1>2, <3>1, <3>5, <3>8, <3>9 DEF WriteOK
    <2>4. QED
      BY <2>2, <2>3
  <1>5. CASE WriteMaps
    <2>1. UNCHANGED <<system, pid>> /\ phase = "write_maps" /\ phase' = "write_stack"
      BY <1>5 DEF WriteMaps
    <2>2. /\ pid \in Pids /\ file # << >> /\ Process(Last1.of) = pid /\ Last1.kind = "pid_start"
          /\ Process(pid) = pid
      BY <2>1, TaskFacts DEF WriteOK
    <2>3. CASE pid \in alive
      <3> DEFINE g == MapLines(pid)
      <3>1. file' = file \o g
        BY <1>5, <2>3 DEF WriteMaps
      <3>2. /\ g \in Seq(FileLines) /\ g[1] = Line("maps_start", pid) /\ g[Len(g)] = Line("maps_end", pid)
            /\ Piece(g) /\ g # << >>
        <4>1. /\ g \in Seq(FileLines) /\ g[1] = Line("maps_start", pid) /\ g[Len(g)] = Line("maps_end", pid)
              /\ Len(g) = Len(MapsOf[pid]) + 2 /\ Len(MapsOf[pid]) \in Nat
          BY <2>2, MapLinesFacts
        <4>2. Len(g) # 0
          BY <4>1
        <4> HIDE DEF g
        <4>3. g # << >>
          BY <4>1, <4>2, EmptySeq
        <4>4. QED
          BY <2>2, <4>1, <4>3, MapsPiece DEF g
      <3> HIDE DEF g
      <3>3. Follows(file[Len(file)], g[1])
        BY <2>2, <3>2 DEF Follows, Successors, Line, Last1
      <3>4. /\ Trace(file \o g) /\ file \o g # << >>
            /\ (file \o g)[Len(file \o g)] = Line("maps_end", pid)
        BY <1>2, <2>2, <3>2, <3>3, TraceJoin
      <3>5. Trace(file)' /\ file' # << >> /\ Last1' = Line("maps_end", pid)
        BY <1>3, <3>1, <3>4
      <3>6. QED
        BY <1>2, <2>1, <2>2, <3>5 DEF WriteOK, Line
    <2>4. CASE pid \notin alive
      <3>1. file' = file /\ Last1' = Last1 /\ alive' = alive
        BY <1>5, <2>1, <2>4 DEF WriteMaps, Last1, system
      <3>2. Trace(file)'
        BY <1>2, <3>1
      <3>3. QED
        BY <1>2, <2>1, <2>2, <2>4, <3>1, <3>2 DEF WriteOK
    <2>5. QED
      BY <2>3, <2>4
  <1>6. ASSUME NEW t \in Tasks, StackOrEnd(t), file # << >>, Process(Last1.of) = Process(t),
               Last1.kind \in {"maps_end", "stack_end"}
        PROVE  Trace(file)' /\ file' # << >> /\ Last1' = Line("stack_end", t)
    <2>1. PICK g \in {StackLines(t), EmptyStack(t)} : file' = file \o g
      BY <1>6, StackOrEndFacts
    <2>2. /\ g \in Seq(FileLines) /\ Piece(g) /\ g # << >>
          /\ g[1] = Line("stack_start", t) /\ g[Len(g)] = Line("stack_end", t)
      BY StackPiece
    <2>3. Follows(file[Len(file)], g[1])
      BY <1>6, <2>2 DEF Follows, Successors, Line, Last1
    <2>4. /\ Trace(file \o g) /\ file \o g # << >>
          /\ (file \o g)[Len(file \o g)] = Line("stack_end", t)
      BY <1>2, <1>6, <2>2, <2>3, TraceJoin
    <2>5. QED
      BY <1>3, <2>1, <2>4
  <1>7. CASE WriteStack
    <2>1. UNCHANGED pid /\ phase = "write_stack" /\ phase' = "write_threads"
      BY <1>7 DEF WriteStack
    <2>2. /\ pid \in Pids /\ pid \in Tasks /\ file # << >> /\ Process(Last1.of) = pid /\ Process(pid) = pid
          /\ Last1.kind = "maps_end" \/ (Last1.kind = "pid_start" /\ pid \notin alive)
      BY <2>1, TaskFacts DEF WriteOK
    <2>3. CASE pid \in alive
      <3>1. StackOrEnd(pid)
        BY <1>7, <2>3 DEF WriteStack
      <3>2. Trace(file)' /\ file' # << >> /\ Last1' = Line("stack_end", pid)
        BY <1>6, <2>2, <2>3, <3>1
      <3>3. QED
        BY <1>2, <2>1, <2>2, <3>2 DEF WriteOK, Line
    <2>4. CASE pid \notin alive
      <3>1. file' = file /\ Last1' = Last1 /\ alive' = alive
        BY <1>7, <2>4 DEF WriteStack, Last1, system
      <3>2. Trace(file)'
        BY <1>2, <3>1
      <3>3. QED
        BY <1>2, <2>1, <2>2, <2>4, <3>1, <3>2 DEF WriteOK
    <2>5. QED
      BY <2>3, <2>4
  <1>8. CASE WriteThread
    <2>1. UNCHANGED pid /\ phase = "write_threads"
      BY <1>8 DEF WriteThread
    <2>2. /\ pid \in Pids /\ pid \in Tasks /\ file # << >> /\ Process(Last1.of) = pid /\ Process(pid) = pid
          /\ Last1.kind \in {"maps_end", "stack_end"} \/ (Last1.kind = "pid_start" /\ pid \notin alive)
      BY <2>1, TaskFacts DEF WriteOK
    <2> DEFINE next == {t \in Threads[pid] \cap alive : t > tid}
    <2>3. CASE next = {}
      <3> DEFINE l == Line("pid_end", pid)
      <3>1. file' = Append(file, l) /\ phase' = "write_processes"
        BY <1>8, <2>3 DEF WriteThread
      <3>2. l \in FileLines /\ l.kind = "pid_end" /\ l.of = pid
        BY <2>2, LineFacts DEF Kinds
      <3> HIDE DEF l
      <3>3. Follows(file[Len(file)], l)
        BY <2>2, <3>2 DEF Follows, Successors, Last1
      <3>4. Trace(Append(file, l)) /\ Append(file, l) # << >> /\ Append(file, l)[Len(Append(file, l))] = l
        BY <1>2, <2>2, <3>2, <3>3, TraceLine
      <3>5. Trace(file)' /\ file' # << >> /\ Last1' = l
        BY <1>3, <3>1, <3>4
      <3>6. QED
        BY <1>2, <3>1, <3>2, <3>5 DEF WriteOK
    <2>4. CASE next # {}
      <3>1. tid' = Least(next) /\ phase' = phase
        BY <1>8, <2>4 DEF WriteThread
      <3> DEFINE q == tid'
      <3>2. StackOrEnd(q)
        BY <1>8, <2>4 DEF WriteThread
      <3>3. q \in Threads[pid] /\ q \in alive /\ q \in Tasks
        BY <1>2, <2>4, <3>1, FoundFacts
      <3> HIDE DEF q
      <3>4. Process(q) = pid /\ pid \in alive
        BY <2>2, <3>3, TaskFacts DEF StackTyping
      <3>5. Trace(file)' /\ file' # << >> /\ Last1' = Line("stack_end", q)
        BY <1>6, <2>2, <3>2, <3>3, <3>4
      <3>6. QED
        BY <1>2, <2>1, <2>2, <3>1, <3>4, <3>5 DEF WriteOK, Line
    <2>5. QED
      BY <2>3, <2>4
  <1>9. QED
    BY <1>4, <1>5, <1>7, <1>8

\* The maps are those of the process whose lines are read: the steps that do not read,
LEMMA ReadKept ==
  ASSUME StackTyping, ReadOK, UNCHANGED given,
         \/ UNCHANGED <<phase, pos, file, milist, pending>>
         \/ UNCHANGED <<pending, milist>> /\ phase \in Writing /\ phase' \in Writing \cup {"find_pid"}
         \/ phase' \notin Writing \cup Reading
  PROVE  ReadOK'
  <1>1. Reads' = Reads
    BY Rigid
  <1>2. CASE UNCHANGED <<phase, pos, file, milist, pending>>
    <2>1. (Overrun' <=> Overrun) /\ \A p : Clear(p)' <=> Clear(p)
      BY <1>2 DEF Overrun, Clear, UserBefore
    <2>2. QED
      BY <1>1, <1>2, <2>1 DEF ReadOK, Own, Writing, Reading
  <1>3. CASE UNCHANGED <<pending, milist>> /\ phase \in Writing /\ phase' \in Writing \cup {"find_pid"}
    <2>1. pending = << >> /\ milist = << >>
      BY <1>3 DEF ReadOK
    <2>2. QED
      BY <1>3, <2>1 DEF ReadOK, Writing, Reading
  <1>4. CASE phase' \notin Writing \cup Reading
    BY <1>4 DEF ReadOK, Writing, Reading
  <1>5. QED
    BY <1>2, <1>3, <1>4

\* The line that was read before this one.
LEMMA BeforeFacts ==
  ASSUME StackTyping, Piece(file), pos < Len(file), pos > 0
  PROVE  /\ pos \in DOMAIN file /\ file[pos] \in FileLines /\ Follows(file[pos], Now)
         /\ Now.kind = "pid_start" /\ Clear(Process(Now.of)) => UserBefore(pos + 1)
         /\ Now.kind = "stack_end" /\ file[pos].kind \notin {"pc", "userspace"} => ~ UserBefore(pos + 2)
         /\ Now.kind # "stack_end" /\ UserBefore(pos + 2) => UserBefore(pos + 1)
  <1>1. pos \in DOMAIN file /\ file[pos] \in FileLines
    <2>1. pos \in 0 .. Len(file) /\ file \in Seq(FileLines)
      BY DEF StackTyping
    <2>2. Len(file) \in Nat /\ DOMAIN file = 1 .. Len(file) /\ \A i \in DOMAIN file : file[i] \in FileLines
      BY <2>1, SeqFacts
    <2>3. pos \in 1 .. Len(file)
      BY <2>1, <2>2
    <2>4. QED
      BY <2>2, <2>3
  <1>2. pos + 1 \in DOMAIN file /\ Now = file[pos + 1] /\ (pos + 1) - 1 = pos
    <2>1. pos \in Nat
      BY DEF StackTyping
    <2>2. QED
      BY <2>1, NowFacts
  <1>3. Follows(file[pos], Now)
    BY <1>1, <1>2 DEF Piece
  <1>4. Now.kind = "pid_start" /\ Clear(Process(Now.of)) => UserBefore(pos + 1)
    BY <1>2 DEF Clear
  <1>5. /\ pos \in Nat /\ 1 .. (pos + 1) - 1 = 1 .. pos /\ 1 .. (pos + 2) - 1 = 1 .. pos + 1
        /\ pos + 1 \in 1 .. pos + 1 /\ (pos + 1) + 1 .. (pos + 2) - 1 = {}
    BY DEF StackTyping
  <1>6. ASSUME Now.kind = "stack_end", file[pos].kind \notin {"pc", "userspace"}
        PROVE  ~ UserBefore(pos + 2)
    BY <1>2, <1>5, <1>6 DEF UserBefore
  <1>7. ASSUME Now.kind # "stack_end", UserBefore(pos + 2)
        PROVE  UserBefore(pos + 1)
    <2> SUFFICES ASSUME NEW i \in 1 .. pos, file[i].kind = "stack_end",
                        \A k \in i + 1 .. pos : file[k].kind # "stack_end"
                 PROVE  file[i - 1].kind \in {"pc", "userspace"}
      BY <1>5 DEF UserBefore
    <2>1. i \in 1 .. (pos + 2) - 1 /\ \A k \in i + 1 .. (pos + 2) - 1 : k \in i + 1 .. pos \/ k = pos + 1
      BY <1>5
    <2>2. \A k \in i + 1 .. (pos + 2) - 1 : file[k].kind # "stack_end"
      BY <1>2, <1>7, <2>1
    <2>3. QED
      BY <1>7, <2>1, <2>2 DEF UserBefore
  <1>8. QED
    BY <1>1, <1>3, <1>4, <1>6, <1>7

\* and those that do.
LEMMA ReadStep ==
  ASSUME StackTyping, ReadOK, Piece(file), FindStep
  PROVE  ReadOK'
  <1>1. UNCHANGED <<given, file>>
    BY DEF FindStep, FindPid, FindMaps, MapsLine, FindStack, Kernel, UserLine, EndOfFile, trace
  <1>2. /\ Reads' = Reads /\ (\A p : Clear(p)' <=> Clear(p)) /\ Reads = 32
        /\ phase \in Reading /\ Phases = Writing \cup Reading
    <2>1. phase \in Reading
      BY DEF FindStep, FindPid, FindMaps, MapsLine, FindStack, Kernel, UserLine, EndOfFile, Next1, Reading
    <2>2. QED
      BY <1>1, <2>1, Rigid, AskFacts DEF Reads
  <1>3. CASE EndOfFile
    <2>1. phase' = "done"
      BY <1>3 DEF EndOfFile
    <2>2. QED
      BY <1>1, <2>1, ReadKept DEF Writing, Reading
  <1>4. pos \in Nat
    BY DEF StackTyping
  <1> DEFINE Line1 == FindPid \/ FindMaps \/ MapsLine \/ FindStack \/ Kernel \/ UserLine
  <1>5. ASSUME Line1
        PROVE  pos < Len(file) /\ pos' = pos + 1 /\ pos' > 0 /\ file'[pos'] = Now /\ Now \in FileLines
    <2>1. pos < Len(file) /\ pos' = pos + 1
      BY <1>5 DEF FindPid, FindMaps, MapsLine, FindStack, Kernel, UserLine, Next1
    <2>2. QED
      BY <1>1, <1>4, <2>1, NowFacts
  <1> HIDE DEF Line1
  <1>6. CASE FindPid
    <2>1. /\ UNCHANGED <<pending, milist>> /\ phase' \in {"find_pid", "find_maps"} /\ phase = "find_pid"
      BY <1>6 DEF FindPid, Next1
    <2>2. pending' = << >> /\ milist' = << >>
      BY <2>1 DEF ReadOK, Reading
    <2>3. pos' > 0
      BY <1>5, <1>6 DEF Line1
    <2>4. QED
      BY <2>1, <2>2, <2>3 DEF ReadOK, Writing
  <1>7. CASE FindMaps
    <2>1. /\ UNCHANGED <<pending, milist>> /\ phase = "find_maps"
          /\ phase' = IF Now.kind = "maps_start" THEN "maps_lines" ELSE phase
      BY <1>7 DEF FindMaps, Next1
    <2>2. pending' = << >> /\ milist' = << >>
      BY <2>1 DEF ReadOK, Reading
    <2>3. pos' > 0 /\ pos' = pos + 1 /\ file'[pos'] = Now /\ pos < Len(file)
      BY <1>5, <1>7 DEF Line1
    <2>4. ASSUME phase' = "maps_lines"
          PROVE  \E i \in 1 .. pos' : /\ file'[i].kind = "maps_start" /\ pos' - i <= Len(MapsOf[file'[i].of])
                                      /\ milist' = Listed(MapsOf[file'[i].of])[pos' - i]
      <3>1. Now.kind = "maps_start"
        BY <2>1, <2>4
      <3>2. pos' \in 1 .. pos' /\ pos' - pos' = 0
        BY <1>4, <2>3
      <3>3. WholeAt(file, pos + 1)
        BY <2>3, <3>1, NowFacts DEF Piece
      <3>4. file'[pos'].of \in Pids
        BY <1>1, <2>3, <3>3 DEF WholeAt
      <3>5. Len(MapsOf[file'[pos'].of]) \in Nat /\ Listed(MapsOf[file'[pos'].of])[0] = << >>
        BY <3>4, RowFacts, ListedFacts
      <3>6. QED
        BY <2>2, <2>3, <3>1, <3>2, <3>5
    <2>5. QED
      BY <2>1, <2>2, <2>3, <2>4 DEF ReadOK, Writing
  <1>8. CASE MapsLine
    <2>1. phase = "maps_lines" /\ UNCHANGED pending
      BY <1>8 DEF MapsLine, Next1
    <2>2. pending' = << >>
      BY <2>1 DEF ReadOK, Reading
    <2>3. pos' > 0 /\ pos' = pos + 1 /\ file'[pos'] = Now /\ pos < Len(file)
      BY <1>5, <1>8 DEF Line1
    <2>9. PICK p \in Pids : \E k \in 0 .. Len(MapsOf[p]) :
            /\ milist = Listed(MapsOf[p])[k]
            /\ Now = IF k = Len(MapsOf[p]) THEN Line("maps_end", p) ELSE MapLine(p, MapsOf[p][k + 1])
            /\ pos + 1 - (k + 1) \in 1 .. pos /\ file[pos + 1 - (k + 1)].kind = "maps_start"
            /\ file[pos + 1 - (k + 1)].of = p
      BY <2>1, <2>3, MapsNow
    <2>4. PICK k \in 0 .. Len(MapsOf[p]) :
            /\ milist = Listed(MapsOf[p])[k]
            /\ Now = IF k = Len(MapsOf[p]) THEN Line("maps_end", p) ELSE MapLine(p, MapsOf[p][k + 1])
            /\ pos + 1 - (k + 1) \in 1 .. pos /\ file[pos + 1 - (k + 1)].kind = "maps_start"
            /\ file[pos + 1 - (k + 1)].of = p
      BY <2>9
    <2>5. /\ Len(MapsOf[p]) \in Nat /\ Process(p) = p
          /\ \A n \in 1 .. Len(MapsOf[p]) :
               Listed(MapsOf[p])[n] = AddLine(Listed(MapsOf[p])[n - 1], MapsOf[p][n])
          /\ MapList(MapsOf[p]) = Listed(MapsOf[p])[Len(MapsOf[p])]
      BY RowFacts, TaskFacts, ListedFacts
    <2>6. CASE k = Len(MapsOf[p])
      <3>1. Now = Line("maps_end", p) /\ Now.kind = "maps_end" /\ Process(Now.of) = p
        BY <2>4, <2>5, <2>6 DEF Line
      <3>2. milist' = ParseElf(MapList(MapsOf[p]), Reads) /\ phase' = "find_stack"
        BY <1>2, <1>8, <2>4, <2>5, <2>6, <3>1 DEF MapsLine
      <3>3. QED
        BY <1>2, <2>2, <2>3, <3>1, <3>2 DEF ReadOK, Own, Writing, Reading
    <2>7. CASE k # Len(MapsOf[p])
      <3>1. Now = MapLine(p, MapsOf[p][k + 1]) /\ Now.kind # "maps_end" /\ Now.line = MapsOf[p][k + 1]
        BY <2>4, <2>7 DEF MapLine
      <3>2. milist' = AddLine(milist, Now.line) /\ phase' = "maps_lines"
        BY <1>8, <2>1, <3>1 DEF MapsLine
      <3>3. k + 1 \in 1 .. Len(MapsOf[p]) /\ (k + 1) - 1 = k
        BY <2>5, <2>7
      <3>4. milist' = Listed(MapsOf[p])[k + 1]
        BY <2>4, <2>5, <3>1, <3>2, <3>3
      <3> DEFINE i == pos + 1 - (k + 1)
      <3>5. i \in 1 .. pos' /\ pos' - i = k + 1
        BY <1>4, <2>3, <2>4, <2>5
      <3>6. file'[i].kind = "maps_start" /\ file'[i].of = p
        BY <1>1, <2>4
      <3>7. k + 1 <= Len(MapsOf[p])
        BY <2>5, <3>3
      <3> HIDE DEF i
      <3>8. \E j \in 1 .. pos' : /\ file'[j].kind = "maps_start" /\ pos' - j <= Len(MapsOf[file'[j].of])
                                 /\ milist' = Listed(MapsOf[file'[j].of])[pos' - j]
        BY <3>4, <3>5, <3>6, <3>7
      <3>9. QED
        BY <2>2, <3>2, <3>8 DEF ReadOK, Writing
    <2>8. QED
      BY <2>6, <2>7
  <1>9. CASE FindStack
    <2>1. /\ phase = "find_stack" /\ UNCHANGED pending
          /\ phase' = CASE Now.kind = "stack_start" -> "kernel"
                        [] Now.kind = "pid_end"     -> "find_pid"
                        [] OTHER                    -> phase
          /\ milist' = IF Now.kind = "pid_end" THEN << >> ELSE milist
      BY <1>9 DEF FindStack, Next1
    <2>2. pending' = << >> /\ pos > 0
      BY <2>1 DEF ReadOK, Reading
    <2>3. pos' > 0 /\ file'[pos'] = Now /\ pos < Len(file)
      BY <1>5, <1>9 DEF Line1
    <2>4. Follows(file[pos], Now)
      BY <2>2, <2>3, BeforeFacts
    <2>5. /\ file[pos].kind \in {"maps_end", "stack_end", "pc"} /\ Process(file[pos].of) = Process(Now.of)
          /\ Now.kind \in {"stack_start", "pid_end", "pc", "stack_end"}
          /\ Clear(Process(Now.of)) => milist = Own(Process(Now.of))
      BY <2>1, <2>4 DEF ReadOK, Follows, Successors
    <2>6. CASE Now.kind = "stack_start"
      BY <1>2, <2>1, <2>2, <2>3, <2>5, <2>6 DEF ReadOK, InHead, Own, Writing, Reading
    <2>7. CASE Now.kind = "pid_end"
      BY <1>2, <2>1, <2>2, <2>3, <2>7 DEF ReadOK, Writing
    <2>8. CASE Now.kind \notin {"stack_start", "pid_end"}
      <3>1. phase' = "find_stack" /\ milist' = milist
        BY <2>1, <2>8
      <3>2. QED
        BY <1>2, <2>2, <2>3, <2>5, <2>8, <3>1 DEF ReadOK, Own, Writing, Reading
    <2>9. QED
      BY <2>6, <2>7, <2>8
  <1>10. CASE Kernel
    <2>1. /\ phase = "kernel" /\ UNCHANGED <<pending, milist>>
          /\ phase' = IF Now.kind = "userspace" THEN "user" ELSE phase
      BY <1>10 DEF Kernel, Next1
    <2>2. pending' = << >> /\ pos > 0 /\ \A i \in DOMAIN pending' : FALSE
      <3>1. pending' = << >> /\ pos > 0
        BY <2>1 DEF ReadOK, Reading
      <3>2. QED
        BY <3>1
    <2>3. pos' > 0 /\ file'[pos'] = Now /\ pos < Len(file) /\ pos' = pos + 1
      BY <1>5, <1>10 DEF Line1
    <2>4. /\ Follows(file[pos], Now)
          /\ Now.kind = "pid_start" /\ Clear(Process(Now.of)) => UserBefore(pos + 1)
          /\ Now.kind = "stack_end" /\ file[pos].kind \notin {"pc", "userspace"} => ~ UserBefore(pos + 2)
          /\ Now.kind # "stack_end" /\ UserBefore(pos + 2) => UserBefore(pos + 1)
      BY <2>2, <2>3, BeforeFacts
    <2>5. /\ InHead(file[pos].kind) \/ Overrun
          /\ Clear(Process(file[pos].of)) => milist = Own(Process(file[pos].of))
      BY <2>1 DEF ReadOK
    <2>6. Clear(Process(Now.of)) => milist = Own(Process(Now.of))
      <3>1. CASE file[pos].kind = "pid_end"
        BY <2>4, <2>5, <3>1 DEF Follows, InHead, Overrun
      <3>2. CASE file[pos].kind # "pid_end"
        BY <2>4, <2>5, <3>2 DEF Follows
      <3>3. QED
        BY <3>1, <3>2
    <2>7. CASE Now.kind = "userspace"
      BY <1>2, <2>1, <2>2, <2>3, <2>6, <2>7 DEF ReadOK, Own, Writing, Reading
    <2>8. CASE Now.kind # "userspace"
      <3>1. InHead(Now.kind) \/ (Now.kind \notin {"userspace", "pc"} /\ ~ UserBefore(pos + 2))
        <4>1. CASE InHead(file[pos].kind)
          <5>1. Now.kind \in {"kernel", "stack_end"} /\ file[pos].kind \notin {"pc", "userspace"}
            BY <2>4, <2>8, <4>1 DEF Follows, Successors, InHead
          <5>2. QED
            BY <2>4, <5>1 DEF InHead
        <4>2. CASE Overrun
          <5>1. file[pos].kind \in Kinds \cup {"pc", "map"} /\ file[pos].kind \notin {"userspace", "pc"}
            BY <2>2, <2>3, <4>2, BeforeFacts, KindFacts DEF Overrun
          <5>2. Now.kind # "pc"
            BY <2>4, <5>1 DEF Follows, Successors, Kinds
          <5>3. QED
            BY <2>4, <2>8, <4>2, <5>2 DEF Overrun
        <4>3. QED
          BY <2>5, <4>1, <4>2
      <3>2. InHead(file[pos].kind)' \/ Overrun'
        <4>1. pos' + 1 = pos + 2 /\ file' = file
          BY <1>1, <1>4, <2>3
        <4>2. UserBefore(pos + 1)' <=> UserBefore(pos + 2)
          BY <4>1 DEF UserBefore
        <4>3. QED
          BY <2>3, <3>1, <4>2 DEF InHead, Overrun
      <3>3. phase' = "kernel" /\ milist' = milist
        BY <2>1, <2>8
      <3>4. QED
        BY <1>2, <2>2, <2>3, <2>6, <3>2, <3>3 DEF ReadOK, Own, Writing, Reading
    <2>9. QED
      BY <2>7, <2>8
  <1>11. CASE UserLine
    <2>1. phase = "user" /\ UNCHANGED milist
      BY <1>11 DEF UserLine, Next1
    <2>2. /\ pos > 0 /\ file[pos].kind \in {"userspace", "pc"}
          /\ \A i \in DOMAIN pending : Process(pending[i].of) = Process(file[pos].of)
          /\ Clear(Process(file[pos].of)) => milist = Own(Process(file[pos].of))
      BY <2>1 DEF ReadOK, Writing
    <2>3. pos' > 0 /\ file'[pos'] = Now /\ pos < Len(file)
      BY <1>5, <1>11 DEF Line1
    <2>4. Now.kind \in {"pc", "stack_end"} /\ Process(file[pos].of) = Process(Now.of)
      <3>1. Follows(file[pos], Now)
        BY <2>2, <2>3, BeforeFacts
      <3>2. QED
        BY <2>2, <3>1 DEF Follows, Successors
    <2>5. CASE ~ Full(pending) /\ Now.kind # "stack_end"
      <3>1. pending' = Append(pending, Now) /\ phase' = "user"
        BY <1>11, <2>1, <2>5 DEF UserLine
      <3>2. pending \in Seq(PcSet) /\ Now \in PcSet
        BY <2>3, <2>4, <2>5, NowFacts DEF StackTyping
      <3>3. \A i \in DOMAIN pending' : Process(pending'[i].of) = Process(file'[pos'].of)
        <4>1. /\ DOMAIN pending' = 1 .. Len(pending) + 1 /\ DOMAIN pending = 1 .. Len(pending)
              /\ Len(pending) \in Nat
              /\ \A i \in DOMAIN pending : pending'[i] = pending[i]
              /\ pending'[Len(pending) + 1] = Now
          BY <3>1, <3>2, AppendFacts, SeqFacts
        <4>2. \A i \in DOMAIN pending' : i \in DOMAIN pending \/ i = Len(pending) + 1
          BY <4>1
        <4>3. QED
          BY <2>2, <2>3, <2>4, <4>1, <4>2
      <3>4. QED
        BY <1>2, <2>1, <2>2, <2>3, <2>4, <2>5, <3>1, <3>3 DEF ReadOK, Own, Writing, Reading
    <2>6. CASE Full(pending) \/ Now.kind = "stack_end"
      <3>1. pending' = << >> /\ phase' = "find_stack"
        BY <1>11, <2>6 DEF UserLine
      <3>2. QED
        BY <1>2, <2>1, <2>2, <2>3, <2>4, <3>1 DEF ReadOK, Own, Writing, Reading
    <2>7. QED
      BY <2>5, <2>6
  <1>12. QED
    BY <1>3, <1>6, <1>7, <1>8, <1>9, <1>10, <1>11 DEF FindStep

\* What is printed with the maps of the task's own process is right.
LEMMA NamedRight ==
  ASSUME StackTyping, Loaded(milist, Reads), NEW ls \in Seq(PcSet), NEW wide \in BOOLEAN,
         \A i \in DOMAIN ls : Clear(Process(ls[i].of)) => milist = Own(Process(ls[i].of))
  PROVE  LET n == Named(table, milist, ls, wide)
         IN  n \in Seq(OutLines) /\ \A i \in DOMAIN n : Right(n[i])
  <1> DEFINE n == Named(table, milist, ls, wide)
  <1>1. /\ n \in Seq(OutLines) /\ DOMAIN n = DOMAIN ls
        /\ \A i \in DOMAIN ls :
             /\ n[i].of = ls[i].of /\ n[i].pc = ls[i].pc /\ n[i].kind = "frame"
             /\ n[i].file = PcToMapsinfo(milist, ls[i].pc).file
             /\ NameIn(n[i])
    BY NamedOut
  <1> HIDE DEF n
  <1>2. ASSUME NEW i \in DOMAIN ls
        PROVE  Right(n[i])
    <2>1. ls[i].of \in Tasks /\ ls[i].pc \in Nat
      <3>1. ls[i] \in PcSet
        BY SeqFacts
      <3>2. QED
        BY <3>1 DEF PcSet
    <2>2. Process(ls[i].of) \in Pids
      BY <2>1, TaskFacts
    <2>3. PcToMapsinfo(Own(Process(ls[i].of)), ls[i].pc).file
            = PcToMapsinfo(MapList(MapsOf[Process(ls[i].of)]), ls[i].pc).file
      BY <2>1, <2>2, RowFacts
    <2>4. Clear(Process(n[i].of)) => n[i].file = OwnMap(n[i].of, n[i].pc).file
      <3>1. OwnMap(n[i].of, n[i].pc) = PcToMapsinfo(MapList(MapsOf[Process(ls[i].of)]), ls[i].pc)
        BY <1>1 DEF OwnMap
      <3>2. Clear(Process(n[i].of)) => milist = Own(Process(ls[i].of))
        BY <1>1
      <3>3. n[i].file = PcToMapsinfo(milist, ls[i].pc).file
        BY <1>1
      <3>4. QED
        BY <2>3, <3>1, <3>2, <3>3
    <2>5. QED
      BY <1>1, <2>4 DEF Right
  <1>3. QED
    BY <1>1, <1>2 DEF n

\* A line of the trace is no frame.
LEMMA NoFrames ==
  ASSUME NEW g \in Seq(FileLines)
  PROVE  g \in Seq(OutLines) /\ \A i \in DOMAIN g : Right(g[i])
  <1>1. Len(g) \in Nat /\ DOMAIN g = 1 .. Len(g) /\ \A i \in DOMAIN g : g[i] \in FileLines
    BY SeqFacts
  <1>2. \A i \in DOMAIN g : g[i].kind # "frame" /\ g[i] \in OutLines
    BY <1>1, KindFacts
  <1>3. g \in [1 .. Len(g) -> OutLines]
    BY <1>1, <1>2, LenProperties
  <1>4. g \in Seq(OutLines)
    BY <1>1, <1>3, SeqDef
  <1>5. QED
    BY <1>2, <1>4 DEF Right

\* Right frames added to right frames.
LEMMA RightJoin ==
  ASSUME NEW f \in Seq(OutLines), NEW g \in Seq(OutLines),
         \A i \in DOMAIN f : Right(f[i]), \A i \in DOMAIN g : Right(g[i])
  PROVE  f \o g \in Seq(OutLines) /\ \A i \in DOMAIN (f \o g) : Right((f \o g)[i])
  <1> DEFINE h == f \o g
  <1>1. /\ h \in Seq(OutLines)
        /\ \A i \in DOMAIN h : \/ i \in DOMAIN f /\ h[i] = f[i]
                               \/ i - Len(f) \in DOMAIN g /\ h[i] = g[i - Len(f)]
    BY JoinFacts
  <1> HIDE DEF h
  <1>2. \A i \in DOMAIN h : Right(h[i])
    BY <1>1
  <1>3. QED
    BY <1>1, <1>2 DEF h

\* A step of the tools that adds right lines.
LEMMA OutNew ==
  ASSUME StackTyping, OutOK, UNCHANGED <<given, file>>,
         NEW g \in Seq(OutLines), \A i \in DOMAIN g : Right(g[i]), out' = out \o g,
         phase' # "maps_lines" => Loaded(milist', Reads),
         phase' = "anr_stack" => milist' = Own(request.pid)
  PROVE  OutOK'
  <1>1. /\ Reads' = Reads /\ request' = request
        /\ \A l : Right(l)' <=> Right(l)
    BY Rigid
  <1>2. \A i \in DOMAIN (out \o g) : Right((out \o g)[i])
    BY RightJoin DEF StackTyping, OutOK
  <1>3. \A i \in DOMAIN out' : Right(out'[i])
    BY <1>2
  <1>4. phase' # "maps_lines" => Loaded(milist, Reads)'
    BY <1>1 DEF Loaded
  <1>5. phase' = "anr_stack" => milist' = Own(request.pid)'
    BY <1>1 DEF Own
  <1>6. \A i \in DOMAIN out' : Right(out[i])'
    <2> SUFFICES ASSUME NEW i \in DOMAIN out' PROVE Right(out[i])'
      OBVIOUS
    <2>1. Right(out'[i])
      BY <1>3
    <2>2. NameIn(out[i])' <=> NameIn(out'[i])
      BY <1>1, Rigid DEF NameIn, given
    <2>3. \A p : Clear(p)' <=> Clear(p)
      BY Rigid
    <2>4. QED
      BY <2>1, <2>2, <2>3 DEF Right
  <1>7. QED
    BY <1>4, <1>5, <1>6 DEF OutOK

\* The frames that are printed are right: steps that print nothing,
LEMMA OutKept ==
  ASSUME StackTyping, OutOK, UNCHANGED <<given, file, out>>,
         phase' # "maps_lines" => Loaded(milist', Reads),
         phase' = "anr_stack" => milist' = Own(request.pid)
  PROVE  OutOK'
  <1>1. << >> \in Seq(OutLines) /\ \A i \in DOMAIN << >> : Right(<< >>[i])
    BY EmptySeq
  <1>2. out \o << >> = out
    BY ConcatEmptySeq DEF StackTyping
  <1>3. QED
    BY <1>1, <1>2, OutNew

\* that print a line,
LEMMA OutLine ==
  ASSUME StackTyping, OutOK, UNCHANGED <<given, file>>,
         NEW l \in FileLines, out' = Append(out, l),
         phase' # "maps_lines" => Loaded(milist', Reads),
         phase' = "anr_stack" => milist' = Own(request.pid)
  PROVE  OutOK'
  <1> DEFINE g == <<l>>
  <1>1. g \in Seq(FileLines)
    BY OneFacts
  <1>2. out' = out \o g
    BY AppendIsConcat DEF StackTyping
  <1> HIDE DEF g
  <1>3. g \in Seq(OutLines) /\ \A i \in DOMAIN g : Right(g[i])
    BY <1>1, NoFrames
  <1>4. QED
    BY <1>2, <1>3, OutNew

\* the reading of a live system,
LEMMA OutReadStep ==
  ASSUME StackTyping, LiveOK, OutOK,
         ReadProcess \/ ReadThread \/ PassOver \/ ReadName \/ ReadMaps \/ PrintStack
  PROVE  OutOK'
  <1>1. UNCHANGED <<given, file>> /\ phase' \notin {"maps_lines", "anr_stack"}
    <2>1. UNCHANGED <<given, file>>
      BY DEF ReadProcess, ReadThread, PassOver, ReadName, ReadMaps, PrintStack, trace
    <2>2. phase' \notin {"maps_lines", "anr_stack"}
      BY DEF ReadProcess, ReadThread, PassOver, ReadName, ReadMaps, PrintStack
    <2>3. QED
      BY <2>1, <2>2
  <1>2. Loaded(milist, Reads) /\ request.ask \in {"all", "one"}
    BY AskFacts DEF OutOK, ReadProcess, ReadThread, PassOver, ReadName, ReadMaps, PrintStack
  <1>3. Loaded(<< >>, Reads)
    BY DEF Loaded
  <1>4. CASE ReadProcess \/ ReadThread \/ PassOver
    <2>1. UNCHANGED <<milist, out>>
      BY <1>4 DEF ReadProcess, ReadThread, PassOver
    <2>2. QED
      BY <1>1, <1>2, <2>1, OutKept
  <1>5. CASE ReadName
    <2>1. CASE milist' = << >> /\ UNCHANGED out
      BY <1>1, <1>3, <2>1, OutKept
    <2>2. CASE /\ index <= Len(all) /\ out' = Append(out, Line("kernel", Subject)) /\ UNCHANGED milist
      <3>1. Subject \in Tasks
        <4>1. index \in 1 .. Len(all) + 1 /\ all \in Seq(Entries)
          BY DEF StackTyping
        <4>2. index \in DOMAIN all
          BY <2>2, <4>1, SeqFacts
        <4>3. all[index] \in Entries
          BY <4>1, <4>2, SeqFacts
        <4>4. QED
          BY <4>3 DEF Subject, Entries
      <3>2. Line("kernel", Subject) \in FileLines
        BY <3>1, LineFacts DEF Kinds
      <3>3. QED
        BY <1>1, <1>2, <2>2, <3>2, OutLine
    <2>3. QED
      BY <1>5, <2>1, <2>2 DEF ReadName
  <1>6. CASE ReadMaps
    <2>1. out' = out /\ phase = "maps"
          /\ milist' = IF Subject \in alive THEN ParseElf(MapList(MapsOf[Subject]), Parser) ELSE << >>
      BY <1>6 DEF ReadMaps
    <2>2. Subject \in Pids
      BY <2>1 DEF LiveOK
    <2>3. MapList(MapsOf[Subject]) \in Seq(Maps) /\ Reads = Parser
      BY <1>2, <2>2, RowFacts DEF Reads
    <2>4. Loaded(milist', Reads)
      <3>1. Loaded(ParseElf(MapList(MapsOf[Subject]), Parser), Parser)
        BY <2>3, ParseElfFacts
      <3>2. QED
        BY <1>3, <2>1, <2>3, <3>1
    <2>5. QED
      BY <1>1, <2>1, <2>4, OutKept
  <1>7. CASE PrintStack
    <2> DEFINE ls == FirstOf(all[index].pcs, StackDepth)
    <2>1. out' = out \o Named(table, milist, ls, Wide) /\ UNCHANGED milist /\ phase = "unwind"
      BY <1>7 DEF PrintStack
    <2>2. index <= Len(all) /\ milist = Own(Process(Subject))
      BY <2>1 DEF LiveOK
    <2>3. all[index] \in Entries
      <3>1. index \in 1 .. Len(all) + 1 /\ all \in Seq(Entries)
        BY DEF StackTyping
      <3>2. index \in DOMAIN all
        BY <2>2, <3>1, SeqFacts
      <3>3. QED
        BY <3>1, <3>2, SeqFacts
    <2>4. all[index].pcs \in Seq(PcSet) /\ \A i \in DOMAIN all[index].pcs : all[index].pcs[i].of = Subject
      BY <2>3 DEF Entries, Subject
    <2>5. /\ ls \in Seq(PcSet)
          /\ \A i \in DOMAIN ls : i \in DOMAIN all[index].pcs /\ ls[i] = all[index].pcs[i]
      BY <2>4, FirstOfFacts, LimitsAssumption
    <2> HIDE DEF ls
    <2>6. \A i \in DOMAIN ls : milist = Own(Process(ls[i].of))
      BY <2>2, <2>4, <2>5
    <2> DEFINE n == Named(table, milist, ls, Wide)
    <2>7. n \in Seq(OutLines) /\ \A i \in DOMAIN n : Right(n[i])
      BY <1>2, <2>5, <2>6, NamedRight, ObjectAssumption
    <2> HIDE DEF n
    <2>8. out' = out \o n
      BY <2>1 DEF n
    <2>9. QED
      BY <1>1, <1>2, <2>1, <2>7, <2>8, OutNew
  <1>8. QED
    BY <1>4, <1>5, <1>6, <1>7

\* the writing of a trace,
LEMMA OutWriteStep ==
  ASSUME StackTyping, WriteOK, ReadOK, WriteProcess \/ WriteMaps \/ WriteStack \/ WriteThread
  PROVE  OutOK'
  <1>1. UNCHANGED <<milist, out>> /\ phase \in Writing /\ phase' # "anr_stack"
    BY DEF WriteProcess, WriteMaps, WriteStack, WriteThread, Writing
  <1>2. milist' = << >> /\ out' = << >>
    BY <1>1 DEF ReadOK, WriteOK
  <1>3. QED
    BY <1>1, <1>2 DEF OutOK, Loaded

\* the reading of it,
LEMMA OutFindStep ==
  ASSUME StackTyping, ReadOK, Piece(file), OutOK, FindStep
  PROVE  OutOK'
  <1>1. UNCHANGED <<given, file>> /\ phase' # "anr_stack" /\ phase \in Reading
    <2>1. UNCHANGED <<given, file>>
      BY DEF FindStep, FindPid, FindMaps, MapsLine, FindStack, Kernel, UserLine, EndOfFile, trace
    <2>2. phase' # "anr_stack" /\ phase \in Reading
      BY DEF FindStep, FindPid, FindMaps, MapsLine, FindStack, Kernel, UserLine, EndOfFile, Next1, Reading
    <2>3. QED
      BY <2>1, <2>2
  <1>2. Loaded(<< >>, Reads)
    BY DEF Loaded
  <1>3. phase # "maps_lines" => Loaded(milist, Reads)
    BY DEF OutOK
  <1>4. Reads = 32
    BY <1>1, AskFacts DEF Reads
  <1>5. CASE EndOfFile
    <2>1. milist' = << >> /\ out' = out
      BY <1>5 DEF EndOfFile
    <2>2. QED
      BY <1>1, <1>2, <2>1, OutKept
  <1>6. CASE FindPid \/ FindMaps \/ FindStack \/ Kernel
    <2>1. pos < Len(file) /\ phase # "maps_lines"
      BY <1>6 DEF FindPid, FindMaps, FindStack, Kernel, Next1
    <2>2. Now \in FileLines
      BY <2>1, NowFacts
    <2>3. out' = Append(out, Now) \/ out' = out
      BY <1>6 DEF FindPid, FindMaps, FindStack, Kernel, Copy
    <2>4. milist' \in {milist, << >>}
      BY <1>6 DEF FindPid, FindMaps, FindStack, Kernel
    <2>5. Loaded(milist', Reads)
      BY <1>2, <1>3, <2>1, <2>4
    <2>6. QED
      BY <1>1, <2>2, <2>3, <2>5, OutLine, OutKept
  <1>7. CASE MapsLine
    <2>1. out' = out
      BY <1>7 DEF MapsLine
    <2>2. phase' # "maps_lines" => Loaded(milist', Reads)
      <3>1. CASE Now.kind = "maps_end"
        <4>1. milist' = ParseElf(milist, 32)
          BY <1>7, <3>1 DEF MapsLine
        <4>2. QED
          BY <1>4, <4>1, ParseElfFacts DEF StackTyping
      <3>2. CASE Now.kind # "maps_end"
        BY <1>7, <3>2 DEF MapsLine, Next1
      <3>3. QED
        BY <3>1, <3>2
    <2>3. QED
      BY <1>1, <2>1, <2>2, OutKept
  <1>8. CASE UserLine
    <2>1. UNCHANGED milist /\ phase = "user" /\ pos < Len(file)
      BY <1>8 DEF UserLine, Next1
    <2>2. CASE ~ Full(pending) /\ Now.kind # "stack_end"
      <3>1. out' = out
        BY <1>8, <2>2 DEF UserLine
      <3>2. QED
        BY <1>1, <1>3, <2>1, <3>1, OutKept
    <2>3. CASE Full(pending) \/ Now.kind = "stack_end"
      <3>1. /\ title' = (IF Full(pending) THEN title ELSE <<Now>>)
            /\ out' = out \o Named(table, milist, pending, FALSE) \o title'
        BY <1>8, <2>3 DEF UserLine
      <3>2. \A i \in DOMAIN pending : Clear(Process(pending[i].of)) => milist = Own(Process(pending[i].of))
        BY <2>1 DEF ReadOK
      <3>3. Loaded(milist, Reads) /\ pending \in Seq(PcSet) /\ title \in Seq(FileLines) /\ out \in Seq(OutLines)
        BY <1>3, <2>1 DEF StackTyping
      <3> DEFINE n == Named(table, milist, pending, FALSE)
                 t == title'
      <3>4. n \in Seq(OutLines) /\ \A i \in DOMAIN n : Right(n[i])
        BY <3>2, <3>3, NamedRight
      <3>5. t \in Seq(FileLines)
        <4>1. <<Now>> \in Seq(FileLines)
          BY <2>1, NowFacts, OneFacts
        <4>2. QED
          BY <3>1, <3>3, <4>1
      <3>6. out' = (out \o n) \o t
        BY <3>1
      <3> HIDE DEF n, t
      <3>7. t \in Seq(OutLines) /\ \A i \in DOMAIN t : Right(t[i])
        BY <3>5, NoFrames
      <3>8. n \o t \in Seq(OutLines) /\ \A i \in DOMAIN (n \o t) : Right((n \o t)[i])
        BY <3>4, <3>7, RightJoin
      <3>9. out' = out \o (n \o t)
        <4>1. out \in Seq(OutLines) /\ n \in Seq(OutLines) /\ t \in Seq(OutLines)
          BY <3>3, <3>4, <3>7
        <4>2. (out \o n) \o t = out \o (n \o t)
          BY <4>1, ConcatAssociative
        <4>3. QED
          BY <3>6, <4>2
      <3> DEFINE g == n \o t
      <3>10. g \in Seq(OutLines) /\ (\A i \in DOMAIN g : Right(g[i])) /\ out' = out \o g
        BY <3>8, <3>9
      <3> HIDE DEF g
      <3>11. QED
        BY <1>1, <2>1, <3>3, <3>10, OutNew
    <2>4. QED
      BY <2>2, <2>3
  <1>9. QED
    BY <1>5, <1>6, <1>7, <1>8 DEF FindStep

\* and the stack of one process.
LEMMA OutAnrStep ==
  ASSUME StackTyping, OutOK, ParseAnrMaps \/ ParseAnrStack
  PROVE  OutOK'
  <1>1. UNCHANGED <<given, file>>
    BY DEF ParseAnrMaps, ParseAnrStack, trace
  <1>2. request.pid \in Pids /\ request.pid \in Tasks /\ Process(request.pid) = request.pid
        /\ Reads = Parser
    BY AskFacts, TaskFacts DEF ParseAnrMaps, ParseAnrStack, Reads
  <1>3. CASE ParseAnrMaps
    <2> DEFINE l == Line("kernel", request.pid)
               o == <<l>>
    <2>1. out' = o /\ milist' = Own(request.pid)
      BY <1>2, <1>3 DEF ParseAnrMaps, Own
    <2>2. Loaded(milist', Reads)
      BY <1>2, <2>1, RowFacts
    <2>3. l \in FileLines
      BY <1>2, LineFacts DEF Kinds
    <2> HIDE DEF l
    <2>4. o \in Seq(FileLines)
      BY <2>3, OneFacts
    <2> HIDE DEF o
    <2>5. \A i \in DOMAIN out' : out'[i].kind # "frame"
      <3>1. \A i \in DOMAIN o : o[i] \in FileLines
        BY <2>4, SeqFacts
      <3>2. \A i \in DOMAIN o : o[i].kind # "frame"
        BY <3>1, KindFacts
      <3>3. QED
        BY <2>1, <3>2
    <2>6. Reads' = Reads /\ request' = request
      BY <1>1, Rigid
    <2>7. \A i \in DOMAIN out' : Right(out[i])'
      BY <2>5 DEF Right
    <2>8. phase' = "anr_stack" => milist' = Own(request.pid)'
      BY <2>1, <2>6 DEF Own
    <2>9. Loaded(milist, Reads)'
      BY <2>2, <2>6 DEF Loaded
    <2>10. QED
      BY <2>7, <2>8, <2>9 DEF OutOK
  <1>4. CASE ParseAnrStack
    <2> DEFINE ls == PcLines(request.pid, FirstOf(UserPcs(request.pid), StackDepth - 1))
    <2>1. /\ out' = out \o Named(table, milist, ls, FALSE) /\ milist' = milist /\ phase' = "done"
          /\ phase = "anr_stack"
      BY <1>4 DEF ParseAnrStack
    <2>2. ls \in Seq(PcSet) /\ \A i \in DOMAIN ls : ls[i].of = request.pid
      <3>1. UserPcs(request.pid) \in Seq(Nat) /\ StackDepth - 1 \in Nat
        BY <1>2, UserPcsFacts, LimitsAssumption
      <3>2. FirstOf(UserPcs(request.pid), StackDepth - 1) \in Seq(Nat)
        BY <3>1, FirstOfFacts
      <3>3. QED
        BY <1>2, <3>2, PcLinesFacts
    <2> HIDE DEF ls
    <2>3. Loaded(milist, Reads) /\ milist = Own(request.pid)
      BY <2>1 DEF OutOK
    <2>4. \A i \in DOMAIN ls : milist = Own(Process(ls[i].of))
      BY <1>2, <2>2, <2>3
    <2> DEFINE n == Named(table, milist, ls, FALSE)
    <2>5. n \in Seq(OutLines) /\ \A i \in DOMAIN n : Right(n[i])
      BY <2>2, <2>3, <2>4, NamedRight
    <2> HIDE DEF n
    <2>6. out' = out \o n
      BY <2>1 DEF n
    <2>7. QED
      BY <1>1, <2>1, <2>3, <2>5, <2>6, OutNew
  <1>5. QED
    BY <1>3, <1>4
-----------------------------------------------------------------------------
(* The theorems.                                                           *)

\* The invariant holds at first,
LEMMA StackInitInv ==
  ASSUME StackInit
  PROVE  StackInv
  <1>1. /\ alive = Tasks /\ pid = 0 /\ tid = 0 /\ all = << >> /\ index = 1
        /\ file = << >> /\ pos = 0 /\ pending = << >> /\ title = << >> /\ milist = << >> /\ out = << >>
    BY DEF StackInit
  <1>2. stack \in [Tasks -> [user : BOOLEAN, pcs : Seq(Nat)]]
    BY StacksAssumption DEF StackInit
  <1>3. TablesOK
    <2>1. DOMAIN table = Files /\ table = [f \in Files |-> table[f]] /\ \A f \in Files : table[f] \in Tables(f)
      BY DEF StackInit
    <2>2. \A f \in Files : table[f] \in Seq(Symbol) /\ Ordered(table[f])
      BY <2>1, TablesFacts
    <2>3. QED
      BY <2>1, <2>2 DEF TablesOK
  <1>4. request \in Requests /\ request.ask \in {"all", "one", "trace", "anr"}
    BY DEF StackInit, Requests
  <1>5. phase \in {"processes", "write_processes", "anr"} /\ phase \in Phases
    <2>1. phase = CASE request.ask \in {"all", "one"} -> "processes"
                    [] request.ask = "trace"          -> "write_processes"
                    [] request.ask = "anr"            -> "anr"
      BY DEF StackInit
    <2>2. QED
      BY <1>4, <2>1 DEF Phases, Writing
  <1>6. Len(<< >>) = 0 /\ \A S : << >> \in Seq(S)
    BY EmptySeq
  <1>7. StackTyping
    <2>1. /\ alive \in SUBSET Tasks /\ \A p \in Pids : \A t \in Threads[p] : t \in alive => p \in alive
      BY <1>1, TaskFacts
    <2>2. /\ all \in Seq(Entries) /\ index \in 1 .. Len(all) + 1
          /\ file \in Seq(FileLines) /\ pos \in 0 .. Len(file) /\ pending \in Seq(PcSet)
          /\ title \in Seq(FileLines) /\ milist \in Seq(Maps) /\ out \in Seq(OutLines)
      BY <1>1, <1>6
    <2>3. QED
      BY <1>1, <1>2, <1>3, <1>4, <1>5, <2>1, <2>2 DEF StackTyping
  <1>8. LiveOK
    BY <1>1, <1>5 DEF LiveOK
  <1>9. WriteOK
    <2>1. Trace(file)
      BY <1>1 DEF Trace, Piece
    <2>2. QED
      BY <1>1, <1>5, <2>1 DEF WriteOK
  <1>10. ReadOK
    BY <1>1, <1>5 DEF ReadOK
  <1>11. OutOK
    BY <1>1, <1>5 DEF OutOK, Loaded
  <1>12. QED
    BY <1>7, <1>8, <1>9, <1>10, <1>11 DEF StackInv

\* and every step keeps it.
LEMMA StackStep ==
  ASSUME StackInv, [StackNext]_stackVars
  PROVE  StackInv'
  <1>1. StackTyping /\ LiveOK /\ WriteOK /\ ReadOK /\ OutOK /\ Piece(file)
    BY DEF StackInv, WriteOK, Trace
  <1>2. CASE ReadProcess \/ ReadThread \/ PassOver \/ ReadName \/ ReadMaps \/ PrintStack
    <2>1. StackTyping' /\ alive' = alive
      BY <1>1, <1>2, ReadTyping
    <2>2. UNCHANGED <<given, file>> /\ phase' \notin Writing \cup Reading
      <3>1. UNCHANGED <<given, file>>
        BY <1>2 DEF ReadProcess, ReadThread, PassOver, ReadName, ReadMaps, PrintStack, trace
      <3>2. phase' \notin Writing \cup Reading
        BY <1>2 DEF ReadProcess, ReadThread, PassOver, ReadName, ReadMaps, PrintStack, Writing, Reading
      <3>3. QED
        BY <3>1, <3>2
    <2>3. LiveOK' /\ OutOK'
      BY <1>1, <1>2, LiveStep, OutReadStep
    <2>4. WriteOK' /\ ReadOK'
      BY <1>1, <2>1, <2>2, WriteKept, ReadKept
    <2>5. QED
      BY <2>1, <2>3, <2>4 DEF StackInv
  <1>3. CASE WriteProcess \/ WriteMaps \/ WriteStack \/ WriteThread
    <2>1. StackTyping' /\ alive' \subseteq alive
      BY <1>1, <1>3, WriteTyping
    <2>2. /\ UNCHANGED <<given, all, index, pending, milist>>
          /\ phase \in Writing /\ phase' \in Writing \cup {"find_pid"}
      <3>1. UNCHANGED <<given, all, index, pending, milist>>
        BY <1>3 DEF WriteProcess, WriteMaps, WriteStack, WriteThread, live
      <3>2. phase \in Writing /\ phase' \in Writing \cup {"find_pid"}
        BY <1>3 DEF WriteProcess, WriteMaps, WriteStack, WriteThread, Writing
      <3>3. QED
        BY <3>1, <3>2
    <2>3. phase' \notin {"processes", "threads", "names", "maps", "unwind"}
      BY <2>2 DEF Writing
    <2>4. LiveOK' /\ ReadOK'
      BY <1>1, <2>1, <2>2, <2>3, LiveKept, ReadKept
    <2>5. WriteOK' /\ OutOK'
      BY <1>1, <1>3, WriteStep, OutWriteStep
    <2>6. QED
      BY <2>1, <2>4, <2>5 DEF StackInv
  <1>4. CASE FindStep
    <2>1. StackTyping' /\ UNCHANGED <<alive, file>>
      BY <1>1, <1>4, FindTyping
    <2>2. UNCHANGED <<given, all, index>> /\ phase' \notin Writing
          /\ phase' \notin {"processes", "threads", "names", "maps", "unwind"}
      <3>1. UNCHANGED <<given, all, index>>
        BY <1>4 DEF FindStep, FindPid, FindMaps, MapsLine, FindStack, Kernel, UserLine, EndOfFile, live
      <3>2. phase' \in Reading \cup {"done"}
        BY <1>4 DEF FindStep, FindPid, FindMaps, MapsLine, FindStack, Kernel, UserLine, EndOfFile, Next1, Reading
      <3>3. QED
        BY <3>1, <3>2 DEF Writing, Reading
    <2>3. LiveOK' /\ WriteOK'
      BY <1>1, <2>1, <2>2, LiveKept, WriteKept
    <2>4. ReadOK' /\ OutOK'
      BY <1>1, <1>4, ReadStep, OutFindStep
    <2>5. QED
      BY <2>1, <2>3, <2>4 DEF StackInv
  <1>5. CASE ParseAnrMaps \/ ParseAnrStack
    <2>1. StackTyping' /\ alive' = alive
      BY <1>1, <1>5, AnrTyping
    <2>2. UNCHANGED <<given, all, index, file>> /\ phase' \in {"anr_stack", "done"}
      BY <1>5 DEF ParseAnrMaps, ParseAnrStack, live, trace
    <2>3. LiveOK' /\ WriteOK' /\ ReadOK'
      <3>1. phase' \notin Writing \cup Reading
            /\ phase' \notin {"processes", "threads", "names", "maps", "unwind"}
        BY <2>2 DEF Writing, Reading
      <3>2. QED
        BY <1>1, <2>1, <2>2, <3>1, LiveKept, WriteKept, ReadKept
    <2>4. OutOK'
      BY <1>1, <1>5, OutAnrStep
    <2>5. QED
      BY <2>1, <2>3, <2>4 DEF StackInv
  <1>6. CASE Exit
    <2>1. StackTyping' /\ alive' \subseteq alive
      BY <1>1, <1>6, ExitTyping
    <2>2. UNCHANGED <<given, phase, pid, tid, all, index, file, pos, pending, title, milist, out>>
      BY <1>6 DEF Exit, live, trace
    <2>3. LiveOK' /\ WriteOK' /\ ReadOK'
      BY <1>1, <2>1, <2>2, LiveKept, WriteKept, ReadKept
    <2>4. OutOK'
      BY <1>1, <2>2, OutKept DEF OutOK
    <2>5. QED
      BY <2>1, <2>3, <2>4 DEF StackInv
  <1>7. CASE UNCHANGED stackVars
    <2>1. UNCHANGED <<given, alive, phase, pid, tid, all, index, file, pos, pending, title, milist, out>>
      BY <1>7 DEF stackVars, system, live, trace
    <2>2. StackTyping'
      <3>1. /\ alive' \in SUBSET Tasks /\ \A p \in Pids : \A t \in Threads[p] : t \in alive' => p \in alive'
            /\ phase' \in Phases \cup {"done"} /\ pid' \in Pids \cup {0} /\ tid' \in Nat
            /\ all' \in Seq(Entries) /\ index' \in 1 .. Len(all') + 1
            /\ file' \in Seq(FileLines) /\ pos' \in 0 .. Len(file') /\ pending' \in Seq(PcSet)
            /\ title' \in Seq(FileLines) /\ milist' \in Seq(Maps) /\ out' \in Seq(OutLines)
        BY <1>1, <2>1 DEF StackTyping
      <3>2. QED
        BY <1>1, <2>1, <3>1, NewTyping
    <2>3. LiveOK' /\ WriteOK' /\ ReadOK'
      BY <1>1, <2>1, LiveKept, WriteKept, ReadKept
    <2>4. OutOK'
      BY <1>1, <2>1, OutKept DEF OutOK
    <2>5. QED
      BY <2>2, <2>3, <2>4 DEF StackInv
  <1>8. QED
    BY <1>2, <1>3, <1>4, <1>5, <1>6, <1>7 DEF StackNext, Step, FindStep

\* The invariant of the tools holds whatever tasks end under them.
THEOREM StackInvariance == StackSpec => []StackInv
  <1>1. StackInit => StackInv
    BY StackInitInv
  <1>2. StackInv /\ [StackNext]_stackVars => StackInv'
    BY StackStep
  <1>3. QED
    BY <1>1, <1>2, PTL DEF StackSpec

\* Whatever ends between two reads, an address is looked up in the maps of its own process, in a
\* trace unless the last stack before that process has no user part.
THEOREM MapsAreOwn == StackSpec => []OwnMaps
  <1>1. StackInv => OwnMaps
    BY DEF StackInv, OutOK, Right, OwnMaps, Frames
  <1>2. QED
    BY <1>1, StackInvariance, PTL

\* An address of a file with symbols gets one that contains it, if there is one and none overlap.
THEOREM NamesContain == StackSpec => []NameContains
  <1>1. StackInv => NameContains
    BY DEF StackInv, OutOK, Right, NameIn, NameContains, Frames, Reads
  <1>2. QED
    BY <1>1, StackInvariance, PTL

Console == request.ask \in {"all", "one"}

\* The lines of a task in a sequence of lines.
AddrsIn(f, t)   == {i \in DOMAIN f : f[i].of = t /\ f[i].kind \in {"frame", "pc"}}
KindIn(f, t, c) == {i \in DOMAIN f : f[i].of = t /\ f[i].kind = c}
Once(f, t, c)   == \E i \in DOMAIN f : KindIn(f, t, c) = {i}
Quiet(f, t)     == KindIn(f, t, "kernel") = {} /\ AddrsIn(f, t) = {}
PrintedIn(f, t, pcs) ==
  \E k \in 0 .. Len(f) : /\ AddrsIn(f, t) = {k + i : i \in DOMAIN pcs}
                         /\ \A i \in DOMAIN pcs : f[k + i].pc = pcs[i]

\* StackAll has one entry of each task that was passed and lives, as long as it has room.
Passed(t) ==
  CASE phase = "processes" -> Process(t) <= pid
    [] phase = "threads"   -> Process(t) < pid \/ (Process(t) = pid /\ (t = pid \/ t <= tid))
    [] OTHER               -> TRUE
EntriesOK ==
  Console =>
    /\ Len(all) <= TaskNum
    /\ \A k \in DOMAIN all : all[k] = Entry(all[k].of) /\ Passed(all[k].of)
    /\ \A k \in DOMAIN all : Asked(all[k].of)
    /\ \A j, k \in DOMAIN all : all[j].of = all[k].of => j = k
    /\ \A t \in alive : Asked(t) /\ Passed(t) => (\E k \in DOMAIN all : all[k].of = t) \/ Len(all) = TaskNum

\* The output has the entries before index, and nothing else.
Recorded(t) == \E k \in DOMAIN all : all[k].of = t
Kept(t) == FirstOf(FirstOf(UserPcs(t), MaxStack), StackDepth)
ShownOK ==
  Console =>
    /\ phase \in {"processes", "threads"} => out = << >>
    /\ phase = "done" => index > Len(all)
    /\ \A i \in DOMAIN out : Recorded(out[i].of)
    /\ \A k \in DOMAIN all :
         LET t == all[k].of
         IN  /\ k < index /\ t \in alive =>
                  /\ Once(out, t, "kernel")
                  /\ MapList(MapsOf[Process(t)]) # << >> => PrintedIn(out, t, Kept(t))
             /\ k = index /\ phase \in {"maps", "unwind"} =>
                  Once(out, t, "kernel") /\ AddrsIn(out, t) = {}
             /\ k > index \/ (k = index /\ phase = "names") => Quiet(out, t)

AnrOK ==
  request.ask = "anr" =>
    /\ phase = "anr_stack" => out = <<Line("kernel", request.pid)>>
    /\ phase = "done" => /\ \A i \in DOMAIN out : out[i].of = request.pid
                         /\ Once(out, request.pid, "kernel")
                         /\ PrintedIn(out, request.pid, FirstOf(UserPcs(request.pid), StackDepth - 1))

\* The stack of a task in the trace, behind its first b lines.
Parts == {"kernel", "userspace", "pc", "stack_end"}
Depth(t) == Len(UserPcs(t))
Ahead(t) == IF stack[t].user THEN 3 ELSE 2
BlockAt(f, t, b) ==
  /\ b + Ahead(t) + Depth(t) + 1 \in DOMAIN f
  /\ f[b + 2] = Line("kernel", t)
  /\ stack[t].user => f[b + 3] = Line("userspace", t)
  /\ \A i \in 1 .. Depth(t) : f[b + Ahead(t) + i] = PcLine(t, UserPcs(t)[i])
  /\ f[b + Ahead(t) + Depth(t) + 1] = Line("stack_end", t)
  /\ \A i \in DOMAIN f : f[i].of = t /\ f[i].kind \in Parts =>
                           b + 2 <= i /\ i <= b + Ahead(t) + Depth(t) + 1

\* The trace has the whole stack of each task that was passed and lives.
Written(t) ==
  CASE phase = "write_processes" -> Process(t) <= pid
    [] phase \in {"write_maps", "write_stack"} -> Process(t) < pid
    [] phase = "write_threads"   -> Process(t) < pid \/ (Process(t) = pid /\ (t = pid \/ t <= tid))
    [] OTHER                     -> TRUE
HasUser(t) == \E i \in DOMAIN file : file[i].of = t /\ file[i].kind \in {"userspace", "pc"}
FileOK ==
  request.ask = "trace" =>
    /\ \A i \in DOMAIN file : file[i].kind \in Parts => Written(file[i].of)
    /\ \A t \in Tasks : Written(t) /\ (t \in alive \/ HasUser(t)) => \E b \in 0 .. Len(file) : BlockAt(file, t, b)
    /\ phase \in Reading => file = << >> \/ Last1.kind = "pid_end"

\* What was read of it is in the output, or will be: the addresses that wait are the last ones read.
Shown == out \o pending
Short(t) == Depth(t) <= StackDepth - 2
Seen(n, t, b) ==
  IF n < b + Ahead(t) THEN 0 ELSE IF n > b + Ahead(t) + Depth(t) THEN Depth(t) ELSE n - (b + Ahead(t))
ReadUp(v, n, t, b) ==
  /\ IF n < b + 2 THEN KindIn(v, t, "kernel") = {} ELSE Once(v, t, "kernel")
  /\ (\A u \in Tasks : Short(u)) =>
       IF n < b + Ahead(t) + Depth(t) + 1 THEN KindIn(v, t, "stack_end") = {}
       ELSE Once(v, t, "stack_end")
  /\ Short(t) =>
       LET m == Seen(n, t, b)
       IN  \E k \in 0 .. Len(v) :
             /\ AddrsIn(v, t) = {k + i : i \in 1 .. m}
             /\ \A i \in 1 .. m : v[k + i].pc = UserPcs(t)[i]
             /\ 0 < m /\ m < Depth(t) => k + m = Len(v)
WaitOK ==
  /\ \A i \in DOMAIN title : title[i].kind = "stack_end"
  /\ phase = "user" => \A i \in 1 .. Len(pending) : pos + 1 - i \in DOMAIN file /\ file[pos + 1 - i].kind = "pc"
  /\ request.ask = "trace" /\ phase = "done" => pos = Len(file) /\ pending = << >>
TraceOK ==
  request.ask = "trace" => \A t \in Tasks : \A b \in 0 .. Len(file) : BlockAt(file, t, b) => ReadUp(Shown, pos, t, b)

ReportInv == StackInv /\ EntriesOK /\ ShownOK /\ AnrOK /\ FileOK /\ WaitOK /\ TraceOK
-----------------------------------------------------------------------------
(* The lines of a task, when lines are added.                              *)

\* The lines of a task in two sequences, one after the other:
LEMMA PartJoin ==
  ASSUME NEW S, NEW f \in Seq(S), NEW g \in Seq(S), NEW t, NEW c
  PROVE  /\ KindIn(f \o g, t, c) = KindIn(f, t, c) \cup {Len(f) + i : i \in KindIn(g, t, c)}
         /\ AddrsIn(f \o g, t) = AddrsIn(f, t) \cup {Len(f) + i : i \in AddrsIn(g, t)}
  <1> DEFINE h == f \o g
             n == Len(f)
             m == Len(g)
  <1>1. /\ n \in Nat /\ m \in Nat /\ DOMAIN f = 1 .. n /\ DOMAIN g = 1 .. m /\ DOMAIN h = 1 .. n + m
        /\ \A i \in 1 .. n : h[i] = f[i]
        /\ \A i \in 1 .. m : h[n + i] = g[i]
    BY JoinFacts, SeqFacts
  <1> HIDE DEF h, n, m
  <1>2. ASSUME NEW i \in 1 .. n + m
        PROVE  (i \in 1 .. n /\ h[i] = f[i]) \/ (i - n \in 1 .. m /\ i = n + (i - n) /\ h[i] = g[i - n])
    <2>1. i \in 1 .. n \/ (i - n \in 1 .. m /\ i = n + (i - n))
      BY <1>1
    <2>2. i - n \in 1 .. m => h[n + (i - n)] = g[i - n]
      BY <1>1
    <2>3. QED
      BY <1>1, <2>1, <2>2
  <1>3. 1 .. n \subseteq 1 .. n + m /\ \A i \in 1 .. m : n + i \in 1 .. n + m
    BY <1>1
  <1>4. KindIn(h, t, c) = KindIn(f, t, c) \cup {n + i : i \in KindIn(g, t, c)}
    <2>1. ASSUME NEW i \in KindIn(h, t, c)
          PROVE  i \in KindIn(f, t, c) \cup {n + j : j \in KindIn(g, t, c)}
      <3>1. i \in 1 .. n + m /\ h[i].of = t /\ h[i].kind = c
        BY <1>1 DEF KindIn
      <3>2. CASE i \in 1 .. n /\ h[i] = f[i]
        BY <1>1, <3>1, <3>2 DEF KindIn
      <3>3. CASE i - n \in 1 .. m /\ i = n + (i - n) /\ h[i] = g[i - n]
        <4>1. i - n \in KindIn(g, t, c)
          BY <1>1, <3>1, <3>3 DEF KindIn
        <4>2. QED
          BY <3>3, <4>1
      <3>4. QED
        BY <1>2, <3>1, <3>2, <3>3
    <2>2. KindIn(f, t, c) \subseteq KindIn(h, t, c)
      BY <1>1, <1>3 DEF KindIn
    <2>3. ASSUME NEW j \in KindIn(g, t, c)
          PROVE  n + j \in KindIn(h, t, c)
      BY <1>1, <1>3 DEF KindIn
    <2>4. QED
      BY <2>1, <2>2, <2>3
  <1>5. AddrsIn(h, t) = AddrsIn(f, t) \cup {n + i : i \in AddrsIn(g, t)}
    <2>1. ASSUME NEW i \in AddrsIn(h, t)
          PROVE  i \in AddrsIn(f, t) \cup {n + j : j \in AddrsIn(g, t)}
      <3>1. i \in 1 .. n + m /\ h[i].of = t /\ h[i].kind \in {"frame", "pc"}
        BY <1>1 DEF AddrsIn
      <3>2. CASE i \in 1 .. n /\ h[i] = f[i]
        BY <1>1, <3>1, <3>2 DEF AddrsIn
      <3>3. CASE i - n \in 1 .. m /\ i = n + (i - n) /\ h[i] = g[i - n]
        <4>1. i - n \in AddrsIn(g, t)
          BY <1>1, <3>1, <3>3 DEF AddrsIn
        <4>2. QED
          BY <3>3, <4>1
      <3>4. QED
        BY <1>2, <3>1, <3>2, <3>3
    <2>2. AddrsIn(f, t) \subseteq AddrsIn(h, t)
      BY <1>1, <1>3 DEF AddrsIn
    <2>3. ASSUME NEW j \in AddrsIn(g, t)
          PROVE  n + j \in AddrsIn(h, t)
      BY <1>1, <1>3 DEF AddrsIn
    <2>4. QED
      BY <2>1, <2>2, <2>3
  <1>6. QED
    BY <1>4, <1>5 DEF h, n

\* a line that is there once,
LEMMA OnceJoin ==
  ASSUME NEW S, NEW f \in Seq(S), NEW g \in Seq(S), NEW t, NEW c
  PROVE  /\ KindIn(g, t, c) = {} =>
              KindIn(f \o g, t, c) = KindIn(f, t, c) /\ (Once(f, t, c) => Once(f \o g, t, c))
         /\ KindIn(f, t, c) = {} /\ Once(g, t, c) => Once(f \o g, t, c)
  <1>1. KindIn(f \o g, t, c) = KindIn(f, t, c) \cup {Len(f) + i : i \in KindIn(g, t, c)}
    BY PartJoin
  <1>2. \A i \in KindIn(f \o g, t, c) : i \in DOMAIN (f \o g)
    BY DEF KindIn
  <1>3. ASSUME KindIn(g, t, c) = {}
        PROVE  KindIn(f \o g, t, c) = KindIn(f, t, c)
    BY <1>1, <1>3
  <1>4. ASSUME KindIn(f, t, c) = {}, Once(g, t, c)
        PROVE  Once(f \o g, t, c)
    <2>1. PICK i \in DOMAIN g : KindIn(g, t, c) = {i}
      BY <1>4 DEF Once
    <2>2. KindIn(f \o g, t, c) = {Len(f) + i}
      BY <1>1, <1>4, <2>1
    <2>3. QED
      BY <1>2, <2>2 DEF Once
  <1>5. QED
    BY <1>2, <1>3, <1>4 DEF Once

\* and the addresses of a stack.
LEMMA PrintedJoin ==
  ASSUME NEW S, NEW f \in Seq(S), NEW g \in Seq(S), NEW t, NEW pcs \in Seq(Nat)
  PROVE  /\ AddrsIn(g, t) = {} =>
              AddrsIn(f \o g, t) = AddrsIn(f, t) /\ (PrintedIn(f, t, pcs) => PrintedIn(f \o g, t, pcs))
         /\ AddrsIn(f, t) = {} /\ PrintedIn(g, t, pcs) => PrintedIn(f \o g, t, pcs)
  <1>0. /\ KindIn(f \o g, t, t) = KindIn(f, t, t) \cup {Len(f) + i : i \in KindIn(g, t, t)}
        /\ AddrsIn(f \o g, t) = AddrsIn(f, t) \cup {Len(f) + i : i \in AddrsIn(g, t)}
    BY PartJoin
  <1>1. AddrsIn(f \o g, t) = AddrsIn(f, t) \cup {Len(f) + i : i \in AddrsIn(g, t)}
    BY <1>0
  <1> DEFINE h == f \o g
             n == Len(f)
             m == Len(g)
             d == Len(pcs)
  <1>2. /\ n \in Nat /\ m \in Nat /\ Len(h) = n + m /\ DOMAIN f = 1 .. n /\ DOMAIN g = 1 .. m
        /\ \A i \in 1 .. n : h[i] = f[i]
        /\ \A i \in 1 .. m : h[n + i] = g[i]
        /\ d \in Nat /\ DOMAIN pcs = 1 .. d
    <2>1. /\ n \in Nat /\ m \in Nat /\ DOMAIN f = 1 .. n /\ DOMAIN g = 1 .. m
          /\ d \in Nat /\ DOMAIN pcs = 1 .. d
      BY SeqFacts
    <2>2. Len(h) = n + m /\ (\A i \in 1 .. n : h[i] = f[i]) /\ \A i \in 1 .. m : h[n + i] = g[i]
      BY JoinFacts
    <2>3. QED
      BY <2>1, <2>2
  <1>3. AddrsIn(h, t) = AddrsIn(f, t) \cup {n + i : i \in AddrsIn(g, t)}
    BY <1>1
  <1> HIDE DEF h, n, m, d
  <1>4. ASSUME AddrsIn(g, t) = {}
        PROVE  AddrsIn(h, t) = AddrsIn(f, t)
    BY <1>3, <1>4
  <1>5. ASSUME AddrsIn(g, t) = {}, PrintedIn(f, t, pcs)
        PROVE  PrintedIn(h, t, pcs)
    <2>1. PICK k \in 0 .. n : /\ AddrsIn(f, t) = {k + i : i \in 1 .. d}
                              /\ \A i \in 1 .. d : f[k + i].pc = pcs[i]
      BY <1>2, <1>5 DEF PrintedIn, n
    <2>2. \A i \in 1 .. d : k + i \in 1 .. n
      <3>1. AddrsIn(f, t) \subseteq 1 .. n
        BY <1>2 DEF AddrsIn
      <3>2. QED
        BY <2>1, <3>1
    <2>3. \A i \in 1 .. d : h[k + i].pc = pcs[i]
      BY <1>2, <2>1, <2>2
    <2>4. AddrsIn(h, t) = {k + i : i \in 1 .. d}
      BY <1>4, <1>5, <2>1
    <2>5. k \in 0 .. Len(h)
      BY <1>2
    <2>6. QED
      BY <1>2, <2>3, <2>4, <2>5 DEF PrintedIn
  <1>6. ASSUME AddrsIn(f, t) = {}, PrintedIn(g, t, pcs)
        PROVE  PrintedIn(h, t, pcs)
    <2>1. PICK k \in 0 .. m : /\ AddrsIn(g, t) = {k + i : i \in 1 .. d}
                              /\ \A i \in 1 .. d : g[k + i].pc = pcs[i]
      BY <1>2, <1>6 DEF PrintedIn, m
    <2>2. \A i \in 1 .. d : k + i \in 1 .. m /\ (n + k) + i = n + (k + i)
      <3>1. AddrsIn(g, t) \subseteq 1 .. m
        BY <1>2 DEF AddrsIn
      <3>2. \A i \in 1 .. d : (n + k) + i = n + (k + i)
        BY <1>2
      <3>3. QED
        BY <2>1, <3>1, <3>2
    <2>3. \A i \in 1 .. d : h[(n + k) + i].pc = pcs[i]
      BY <1>2, <2>1, <2>2
    <2>4. AddrsIn(h, t) = {(n + k) + i : i \in 1 .. d}
      BY <1>3, <1>6, <2>1, <2>2
    <2>5. n + k \in 0 .. Len(h)
      BY <1>2
    <2>6. QED
      BY <1>2, <2>3, <2>4, <2>5 DEF PrintedIn
  <1>7. QED
    BY <1>4, <1>5, <1>6 DEF h
-----------------------------------------------------------------------------
(* StackAll has the tasks that were passed.                                *)

\* The tasks asked for are those of the processes that are wanted.
LEMMA WantedFacts ==
  ASSUME StackTyping, Console, NEW t \in Tasks
  PROVE  Asked(t) <=> Process(t) \in Wanted
  <1>1. request.ask = "all" \/ request.ask = "one"
    BY DEF Console
  <1>2. Process(t) \in Pids
    BY TaskFacts
  <1>3. CASE request.ask = "all"
    BY <1>2, <1>3 DEF Asked, Wanted
  <1>4. CASE request.ask = "one"
    BY <1>4 DEF Asked, Wanted
  <1>5. QED
    BY <1>1, <1>3, <1>4

\* The task of a number of /proc that was looked for.
LEMMA NextFacts ==
  ASSUME StackTyping, NEW S, NEW n \in Nat
  PROVE  LET next == {u \in S \cap alive : u > n}
         IN  next # {} => /\ Least(next) \in S \cap alive /\ Least(next) \in Tasks
                          /\ Least(next) \in Nat /\ n < Least(next)
                          /\ \A u \in S \cap alive : n < u => Least(next) <= u
  <1> DEFINE next == {u \in S \cap alive : u > n}
  <1>1. alive \subseteq Tasks /\ Tasks \subseteq Nat
    BY TaskFacts DEF StackTyping
  <1>2. next \in SUBSET Nat
    BY <1>1
  <1>3. next # {} => Least(next) \in next /\ \A u \in next : Least(next) <= u
    BY <1>2, LeastIs
  <1>4. ASSUME NEW u \in S \cap alive, n < u
        PROVE  u \in next
    BY <1>1, <1>4
  <1>5. QED
    BY <1>1, <1>3, <1>4

\* A process whose tasks are alive is alive.
LEMMA AliveFacts ==
  ASSUME StackTyping, NEW t \in alive
  PROVE  t \in Tasks /\ t \in Nat /\ 0 < t /\ Process(t) \in Pids /\ Process(t) \in alive
  <1>1. t \in Tasks /\ t \in Nat /\ 0 < t /\ Process(t) \in Pids
    BY TaskFacts DEF StackTyping
  <1>2. t \in Pids \/ t \in Threads[Process(t)]
    BY <1>1, TaskFacts
  <1>3. CASE t \in Pids
    BY <1>3, TaskFacts
  <1>4. CASE t \in Threads[Process(t)]
    BY <1>1, <1>4 DEF StackTyping
  <1>5. QED
    BY <1>1, <1>2, <1>3, <1>4

\* StackAll has what was passed: steps of the others,
LEMMA EntriesKept ==
  ASSUME StackTyping, EntriesOK, UNCHANGED <<given, all>>, alive' \subseteq alive,
         UNCHANGED <<phase, pid, tid>> \/ (Console => phase \notin {"processes", "threads"} /\ phase' \notin {"processes", "threads"})
  PROVE  EntriesOK'
  <1>1. request' = request /\ stack' = stack /\ all' = all
    BY DEF given
  <1>2. Console' <=> Console
    BY <1>1 DEF Console
  <1>3. \A t : Entry(t)' = Entry(t)
    BY <1>1 DEF Entry, UserPcs
  <1>4. \A t : Asked(t)' <=> Asked(t)
    BY <1>1 DEF Asked
  <1>5. Console => \A t : Passed(t)' <=> Passed(t)
    BY DEF Passed
  <1>6. QED
    BY <1>1, <1>2, <1>3, <1>4, <1>5 DEF EntriesOK

\* One more entry.
LEMMA EntriesMore ==
  ASSUME StackTyping, EntriesOK, Console, UNCHANGED given, UNCHANGED alive, NEW t \in Tasks, Asked(t),
         Record(t), Room, Passed(t)', ~ Passed(t),
         \A u \in Tasks : Passed(u) => Passed(u)',
         \A u \in alive : Asked(u) /\ Passed(u)' => u = t \/ Passed(u)
  PROVE  EntriesOK'
  <1>1. request' = request /\ stack' = stack /\ alive' = alive
    BY DEF given
  <1>2. \A u : Entry(u)' = Entry(u)
    BY <1>1 DEF Entry, UserPcs
  <1>3. \A u : Asked(u)' <=> Asked(u)
    BY <1>1 DEF Asked
  <1>4. Entry(t) \in Entries /\ Entry(t).of = t /\ all \in Seq(Entries)
    BY EntryFacts DEF StackTyping
  <1>5. /\ Len(all) \in Nat /\ DOMAIN all = 1 .. Len(all)
        /\ \A k \in DOMAIN all : all[k] \in Entries
    BY <1>4, SeqFacts
  <1>6. /\ DOMAIN all' = 1 .. Len(all) + 1 /\ Len(all') = Len(all) + 1
        /\ \A k \in DOMAIN all : all'[k] = all[k]
        /\ all'[Len(all) + 1] = Entry(t)
    BY <1>4, AppendFacts DEF Record
  <1>7. \A k \in DOMAIN all' : (k \in DOMAIN all /\ all'[k] = all[k])
                                 \/ (k = Len(all) + 1 /\ all'[k] = Entry(t))
    BY <1>5, <1>6
  <1>8. alive \subseteq Tasks /\ \A k \in DOMAIN all : all[k].of \in Tasks
    BY <1>5 DEF StackTyping, Entries
  <1>17. Len(all) # TaskNum /\ Len(all') <= TaskNum
    <2>1. TaskNum \in Nat
      BY LimitsAssumption
    <2>2. Len(all) < TaskNum
      BY DEF Room
    <2>3. Len(all) \in Nat /\ Len(all') = Len(all) + 1
      BY <1>5, <1>6
    <2>4. QED
      BY <2>1, <2>2, <2>3
  <1>9. /\ \A k \in DOMAIN all : all[k] = Entry(all[k].of) /\ Passed(all[k].of) /\ Asked(all[k].of)
        /\ \A j, k \in DOMAIN all : all[j].of = all[k].of => j = k
        /\ \A u \in alive : Asked(u) /\ Passed(u) => \E k \in DOMAIN all : all[k].of = u
    BY <1>17 DEF EntriesOK
  <1>10. (\A k \in DOMAIN all : all[k] = Entry(all[k].of))'
    <2>1. \A k \in DOMAIN all' : all'[k] = Entry(all'[k].of)
      BY <1>4, <1>7, <1>9
    <2>2. QED
      BY <1>1, <2>1 DEF Entry, UserPcs
  <1>14. (\A k \in DOMAIN all : Passed(all[k].of))'
    <2>1. \A k \in DOMAIN all' : all'[k].of \in Tasks /\ (Passed(all'[k].of) \/ all'[k].of = t)
      BY <1>4, <1>7, <1>8, <1>9
    <2>2. QED
      BY <2>1 DEF Passed
  <1>11. \A j, k \in DOMAIN all' : all'[j].of = all'[k].of => j = k
    BY <1>4, <1>7, <1>9
  <1>12. ASSUME NEW u \in alive', Asked(u)', Passed(u)'
         PROVE  \E k \in DOMAIN all' : all'[k].of = u
    <2>1. CASE u = t
      BY <1>4, <1>5, <1>6, <2>1
    <2>2. CASE Passed(u)
      <3>1. PICK k \in DOMAIN all : all[k].of = u
        BY <1>1, <1>3, <1>9, <1>12, <2>2
      <3>2. k \in DOMAIN all' /\ all'[k].of = u
        BY <1>5, <1>6, <3>1
      <3>3. QED
        BY <3>2
    <2>3. QED
      BY <1>1, <1>3, <1>12, <2>1, <2>2
  <1>16. (\A k \in DOMAIN all : Asked(all[k].of))'
    <2>1. \A k \in DOMAIN all' : Asked(all'[k].of)
      BY <1>4, <1>7, <1>9
    <2>2. QED
      BY <1>1, <2>1 DEF Asked
  <1>13. QED
    BY <1>10, <1>11, <1>12, <1>14, <1>16, <1>17 DEF EntriesOK

\* No room for one.
LEMMA EntriesFull ==
  ASSUME StackTyping, EntriesOK, Console, UNCHANGED given, NEW t \in Tasks, Record(t), ~ Room,
         \A u \in Tasks : Passed(u) => Passed(u)'
  PROVE  EntriesOK'
  <1>1. request' = request /\ stack' = stack
    BY DEF given
  <1>2. Len(all) \in Nat /\ \A k \in DOMAIN all : all[k].of \in Tasks
    <2>1. Len(all) \in Nat /\ \A k \in DOMAIN all : all[k] \in Entries
      BY SeqFacts DEF StackTyping
    <2>2. QED
      BY <2>1 DEF Entries
  <1>3. all' = all /\ Len(all) = TaskNum
    <2>1. TaskNum \in Nat
      BY LimitsAssumption
    <2>2. Len(all) \in Nat /\ Len(all) <= TaskNum
      BY <1>2 DEF EntriesOK
    <2>3. ~ (Len(all) < TaskNum) /\ all' = all
      BY DEF Record, Room
    <2>4. QED
      BY <2>1, <2>2, <2>3
  <1>4. Len(all') <= TaskNum /\ Len(all') = TaskNum
    BY <1>2, <1>3
  <1>5. /\ (\A k \in DOMAIN all : all[k] = Entry(all[k].of))'
        /\ (\A k \in DOMAIN all : Asked(all[k].of))'
        /\ \A j, k \in DOMAIN all' : all'[j].of = all'[k].of => j = k
    BY <1>1, <1>3 DEF EntriesOK, Entry, UserPcs, Asked
  <1>6. (\A k \in DOMAIN all : Passed(all[k].of))'
    <2>1. \A k \in DOMAIN all : Passed(all[k].of)
      BY DEF EntriesOK
    <2>2. \A k \in DOMAIN all' : all'[k].of \in Tasks /\ Passed(all'[k].of)
      BY <1>2, <1>3, <2>1
    <2>3. QED
      BY <2>2 DEF Passed
  <1>7. QED
    BY <1>4, <1>5, <1>6, LimitsAssumption DEF EntriesOK

\* No more entry.
LEMMA EntriesSame ==
  ASSUME StackTyping, EntriesOK, UNCHANGED <<given, all, alive>>,
         \A u \in Tasks : Passed(u) => Passed(u)',
         \A u \in alive : Asked(u) /\ Passed(u)' => Passed(u)
  PROVE  EntriesOK'
  <1>1. request' = request /\ stack' = stack /\ alive' = alive /\ all' = all
    BY DEF given
  <1>2. (Console' <=> Console) /\ \A u : Asked(u)' <=> Asked(u)
    BY <1>1 DEF Asked, Console
  <1>3. \A k \in DOMAIN all : all[k].of \in Tasks
    <2>1. \A k \in DOMAIN all : all[k] \in Entries
      BY SeqFacts DEF StackTyping
    <2>2. QED
      BY <2>1 DEF Entries
  <1>4. ASSUME Console
        PROVE  /\ \A k \in DOMAIN all : all[k] = Entry(all[k].of) /\ Passed(all[k].of) /\ Asked(all[k].of)
               /\ \A j, k \in DOMAIN all : all[j].of = all[k].of => j = k
               /\ \A u \in alive : Asked(u) /\ Passed(u) => Recorded(u) \/ Len(all) = TaskNum
               /\ Len(all) <= TaskNum
    BY <1>4 DEF EntriesOK, Recorded
  <1>5. Console => (\A k \in DOMAIN all : all[k] = Entry(all[k].of))'
    BY <1>1, <1>4 DEF Entry, UserPcs
  <1>6. Console => (\A k \in DOMAIN all : Passed(all[k].of))'
    <2>1. Console => \A k \in DOMAIN all : Passed(all[k].of)'
      BY <1>3, <1>4
    <2>2. QED
      BY <1>1, <2>1 DEF Passed
  <1>7. Console => \A u \in alive' : Asked(u)' /\ Passed(u)' => (\E k \in DOMAIN all' : all'[k].of = u) \/ Len(all') = TaskNum
    BY <1>1, <1>2, <1>4 DEF Recorded
  <1>9. Console => (\A k \in DOMAIN all : Asked(all[k].of))'
    BY <1>1, <1>4 DEF Asked
  <1>8. QED
    BY <1>1, <1>2, <1>4, <1>5, <1>6, <1>7, <1>9 DEF EntriesOK

\* StackAll has one entry of a task.
LEMMA AllFacts ==
  ASSUME StackTyping, EntriesOK, Console
  PROVE  /\ DOMAIN all = 1 .. Len(all) /\ Len(all) \in Nat /\ index \in Nat /\ index <= Len(all) + 1
         /\ \A k \in DOMAIN all : all[k].of \in Tasks /\ all[k] = Entry(all[k].of)
         /\ \A j, k \in DOMAIN all : all[j].of = all[k].of => j = k
  <1>1. all \in Seq(Entries)
    BY DEF StackTyping
  <1>2. /\ DOMAIN all = 1 .. Len(all) /\ Len(all) \in Nat /\ \A k \in DOMAIN all : all[k] \in Entries
    BY <1>1, SeqFacts
  <1>3. index \in Nat /\ index <= Len(all) + 1
    BY <1>2 DEF StackTyping
  <1>4. QED
    BY <1>2, <1>3 DEF EntriesOK, Entries

\* One more entry, or none: the next process,
LEMMA EntriesProcess ==
  ASSUME StackTyping, EntriesOK, ReadProcess
  PROVE  EntriesOK'
  <1> DEFINE next == {p \in Wanted \cap alive : p > pid}
  <1>1. phase = "processes" /\ UNCHANGED <<given, alive>>
    BY DEF ReadProcess, system
  <1>2. Console
    BY <1>1, AskFacts DEF Console
  <1>3. pid \in Nat /\ \A t \in Tasks : Process(t) \in Nat /\ t \in Nat /\ 0 < t
    <2>1. \A t \in Tasks : t \in Nat /\ 0 < t
      BY TaskFacts
    <2>2. \A t \in Tasks : Process(t) \in Tasks
      BY TaskFacts
    <2>3. pid \in Tasks \cup {0}
      BY TaskFacts DEF StackTyping
    <2>4. QED
      BY <2>1, <2>2, <2>3
  <1>4. \A t \in Tasks : Passed(t) <=> Process(t) <= pid
    BY <1>1 DEF Passed
  <1>5. \A t \in alive : Asked(t) => t \in Tasks /\ Process(t) \in Wanted \cap alive
    BY <1>2, AliveFacts, WantedFacts
  <1>6. CASE next = {}
    <2>1. phase' = "names" /\ UNCHANGED all
      BY <1>6 DEF ReadProcess
    <2>2. \A t : Passed(t)'
      BY <2>1 DEF Passed
    <2>3. \A t \in alive : Asked(t) => Passed(t)
      BY <1>3, <1>4, <1>5, <1>6
    <2>4. QED
      BY <1>1, <2>1, <2>2, <2>3, EntriesSame
  <1>7. CASE next # {}
    <2>1. phase' = (IF Room THEN "threads" ELSE phase) /\ pid' = Least(next) /\ tid' = 0 /\ Record(pid')
      BY <1>7 DEF ReadProcess
    <2>2. /\ Least(next) \in Wanted \cap alive /\ Least(next) \in Tasks /\ Least(next) \in Nat
          /\ pid < Least(next) /\ \A u \in Wanted \cap alive : pid < u => Least(next) <= u
      BY <1>3, <1>7, NextFacts
    <2> PICK p \in Tasks : p = Least(next)
      BY <2>2
    <2>3. p \in Pids /\ Process(p) = p
      BY <2>2, AskFacts, <1>1, TaskFacts
    <2>4. pid' = p /\ Record(p)
      BY <2>1
    <2>5. /\ p \in Wanted \cap alive /\ p \in Tasks /\ p \in Nat /\ pid < p
          /\ \A u \in Wanted \cap alive : pid < u => p <= u
      BY <2>2
    <2> HIDE DEF next
    <2>11. CASE ~ Room
      <3>1. \A t : Passed(t)' <=> Process(t) <= p
        BY <1>1, <2>1, <2>4, <2>11 DEF Passed
      <3>2. \A t \in Tasks : Passed(t) => Passed(t)'
        BY <1>3, <1>4, <2>5, <3>1
      <3>3. QED
        BY <1>1, <1>2, <2>4, <2>11, <3>2, EntriesFull
    <2> SUFFICES ASSUME Room PROVE EntriesOK'
      BY <2>11
    <2>6. \A t : Passed(t)' <=> Process(t) < p \/ (Process(t) = p /\ (t = p \/ t <= 0))
      BY <2>1, <2>4 DEF Passed
    <2>7. Passed(p)' /\ ~ Passed(p)
      BY <1>3, <1>4, <2>3, <2>5, <2>6
    <2>8. \A t \in Tasks : Passed(t) => Passed(t)'
      BY <1>3, <1>4, <2>5, <2>6
    <2>9. ASSUME NEW t \in alive, Asked(t), Passed(t)'
          PROVE  t = p \/ Passed(t)
      <3>1. t \in Tasks /\ t \in Nat /\ 0 < t /\ Process(t) \in Nat /\ Process(t) \in Wanted \cap alive
        BY <1>3, <1>5, <2>9
      <3>2. Process(t) < p \/ t = p
        BY <2>5, <2>6, <2>9, <3>1
      <3>3. pid < Process(t) => p <= Process(t)
        BY <2>5, <3>1
      <3>4. QED
        BY <1>3, <1>4, <2>5, <3>1, <3>2, <3>3
    <2>12. Asked(p)
      BY <1>2, <2>3, <2>5, WantedFacts
    <2>10. QED
      BY <1>1, <1>2, <2>4, <2>5, <2>7, <2>8, <2>9, <2>12, EntriesMore
  <1>8. QED
    BY <1>6, <1>7

\* and the next thread.
LEMMA EntriesThread ==
  ASSUME StackTyping, LiveOK, EntriesOK, ReadThread
  PROVE  EntriesOK'
  <1> DEFINE next == {t \in Threads[pid] \cap alive : t > tid}
  <1>1. phase = "threads" /\ UNCHANGED <<given, alive, pid>>
    BY DEF ReadThread, system
  <1>2. Console
    BY <1>1, AskFacts DEF Console
  <1>3. pid \in Pids /\ tid \in Nat /\ pid \in Nat
    BY <1>1, TaskFacts DEF LiveOK, StackTyping
  <1>4. \A t \in Tasks : /\ Process(t) \in Nat /\ t \in Nat
                         /\ Process(t) = pid => t = pid \/ t \in Threads[pid]
    BY TaskFacts
  <1>5. \A t : Passed(t) <=> Process(t) < pid \/ (Process(t) = pid /\ (t = pid \/ t <= tid))
    BY <1>1 DEF Passed
  <1>6. alive \subseteq Tasks
    BY DEF StackTyping
  <1>10. Asked(pid) /\ pid \in Tasks /\ Process(pid) = pid
    <2>1. all # << >> /\ Process(all[Len(all)].of) = pid
      BY <1>1 DEF LiveOK
    <2>2. Len(all) \in DOMAIN all
      BY <2>1, SeqFacts, EmptySeq DEF StackTyping
    <2>3. Asked(all[Len(all)].of) /\ all[Len(all)].of \in Tasks
      BY <1>2, <2>2, AllFacts DEF EntriesOK
    <2>4. pid \in Wanted
      BY <1>2, <2>1, <2>3, WantedFacts
    <2>5. pid \in Tasks /\ Process(pid) = pid
      BY <1>3, TaskFacts
    <2>6. QED
      BY <1>2, <2>4, <2>5, WantedFacts
  <1>7. CASE next = {}
    <2>1. phase' = "processes" /\ UNCHANGED <<all, tid>>
      BY <1>7 DEF ReadThread
    <2>2. \A t : Passed(t)' <=> Process(t) <= pid
      BY <1>1, <2>1 DEF Passed
    <2>3. \A t \in Tasks : Passed(t) => Passed(t)'
      BY <1>3, <1>4, <1>5, <2>2
    <2>4. ASSUME NEW t \in alive, Passed(t)'
          PROVE  Passed(t)
      <3>1. t \in Tasks /\ t \in Nat /\ Process(t) \in Nat /\ Process(t) <= pid
        BY <1>4, <1>6, <2>2, <2>4
      <3>2. t \in Threads[pid] => t <= tid
        BY <1>3, <1>7, <3>1
      <3>3. QED
        BY <1>3, <1>4, <1>5, <3>1, <3>2
    <2>5. QED
      BY <1>1, <2>1, <2>3, <2>4, EntriesSame
  <1>8. CASE next # {}
    <2>0. /\ Least(next) \in Threads[pid] \cap alive /\ Least(next) \in Tasks /\ Least(next) \in Nat
          /\ tid < Least(next) /\ \A t \in Threads[pid] \cap alive : tid < t => Least(next) <= t
      BY <1>3, <1>8, NextFacts
    <2> PICK u \in Tasks : u = Least(next)
      BY <2>0
    <2>1. tid' = u /\ Record(u) /\ phase' = "threads"
      BY <1>1, <1>8 DEF ReadThread
    <2>2. /\ u \in Threads[pid] \cap alive /\ u \in Tasks /\ u \in Nat /\ tid < u
          /\ \A t \in Threads[pid] \cap alive : tid < t => u <= t
      BY <2>0
    <2> HIDE DEF next
    <2>3. u \notin Pids /\ Process(u) = pid /\ u # pid
      BY <1>3, <2>2, TaskFacts
    <2>4. \A t : Passed(t)' <=> Process(t) < pid \/ (Process(t) = pid /\ (t = pid \/ t <= u))
      BY <1>1, <2>1 DEF Passed
    <2>5. Passed(u)' /\ ~ Passed(u)
      BY <1>3, <1>5, <2>2, <2>3, <2>4
    <2>6. \A t \in Tasks : Passed(t) => Passed(t)'
      BY <1>3, <1>4, <1>5, <2>2, <2>4
    <2>7. ASSUME NEW t \in alive, Passed(t)'
          PROVE  t = u \/ Passed(t)
      <3>1. t \in Tasks /\ t \in Nat /\ Process(t) \in Nat
        BY <1>4, <1>6, <2>7
      <3>2. t \in Threads[pid] /\ tid < t => u <= t
        BY <2>2, <2>7
      <3>3. QED
        BY <1>3, <1>4, <1>5, <2>2, <2>4, <2>7, <3>1, <3>2
    <2>9. Asked(u)
      BY <1>2, <1>10, <2>2, <2>3, WantedFacts
    <2>8. QED
      BY <1>1, <1>2, <2>1, <2>2, <2>5, <2>6, <2>7, <2>9, EntriesMore, EntriesFull
  <1>9. QED
    BY <1>7, <1>8
-----------------------------------------------------------------------------
(* The output has the entries before index.                                *)

\* No lines, no lines of a task.
LEMMA NoLines ==
  ASSUME NEW t, NEW c
  PROVE  KindIn(<< >>, t, c) = {} /\ AddrsIn(<< >>, t) = {}
  <1>1. DOMAIN << >> = {}
    OBVIOUS
  <1>2. QED
    BY <1>1 DEF KindIn, AddrsIn

\* The lines of one task change nothing for another.
LEMMA OthersJoin ==
  ASSUME NEW S, NEW f \in Seq(S), NEW g \in Seq(S), NEW u, \A i \in DOMAIN g : g[i].of = u,
         NEW t, t # u, NEW pcs \in Seq(Nat)
  PROVE  /\ Once(f, t, "kernel") => Once(f \o g, t, "kernel")
         /\ PrintedIn(f, t, pcs) => PrintedIn(f \o g, t, pcs)
         /\ Quiet(f, t) => Quiet(f \o g, t)
  <1>1. KindIn(g, t, "kernel") = {} /\ AddrsIn(g, t) = {}
    BY DEF KindIn, AddrsIn
  <1>2. /\ Once(f, t, "kernel") => Once(f \o g, t, "kernel")
        /\ KindIn(f \o g, t, "kernel") = KindIn(f, t, "kernel")
    BY <1>1, OnceJoin
  <1>3. /\ PrintedIn(f, t, pcs) => PrintedIn(f \o g, t, pcs)
        /\ AddrsIn(f \o g, t) = AddrsIn(f, t)
    BY <1>1, PrintedJoin
  <1>4. QED
    BY <1>2, <1>3 DEF Quiet

\* The addresses that are printed.
LEMMA KeptFacts ==
  ASSUME StackTyping, NEW t \in Tasks
  PROVE  Kept(t) \in Seq(Nat)
  <1>1. UserPcs(t) \in Seq(Nat) /\ MaxStack \in Nat /\ StackDepth \in Nat
    BY UserPcsFacts, LimitsAssumption
  <1>2. FirstOf(UserPcs(t), MaxStack) \in Seq(Nat)
    BY <1>1, FirstOfFacts
  <1>3. QED
    BY <1>1, <1>2, FirstOfFacts DEF Kept

\* The lines of an entry change nothing for the others.
LEMMA ShownOthers ==
  ASSUME StackTyping, EntriesOK, Console, index \in DOMAIN all, NEW g \in Seq(OutLines),
         \A i \in DOMAIN g : g[i].of = Subject, NEW k \in DOMAIN all, k # index
  PROVE  LET t == all[k].of
         IN  /\ Once(out, t, "kernel") => Once(out \o g, t, "kernel")
             /\ PrintedIn(out, t, Kept(t)) => PrintedIn(out \o g, t, Kept(t))
             /\ Quiet(out, t) => Quiet(out \o g, t)
  <1>1. all[k].of \in Tasks /\ all[k].of # Subject
    BY AllFacts DEF Subject
  <1>2. Kept(all[k].of) \in Seq(Nat)
    BY <1>1, KeptFacts
  <1>3. out \in Seq(OutLines)
    BY DEF StackTyping
  <1>4. QED
    BY <1>1, <1>2, <1>3, OthersJoin

\* The output has the entries before index, when it has all of them.
LEMMA ShownNew ==
  ASSUME UNCHANGED <<given, all>>,
         \A i \in DOMAIN out' : Recorded(out'[i].of),
         phase' \in {"processes", "threads"} => out' = << >>,
         phase' = "done" => index' > Len(all),
         \A k \in DOMAIN all :
           LET t == all[k].of
           IN  /\ k < index' /\ t \in alive' =>
                    /\ Once(out', t, "kernel")
                    /\ MapList(MapsOf[Process(t)]) # << >> => PrintedIn(out', t, Kept(t))
               /\ k = index' /\ phase' \in {"maps", "unwind"} =>
                    Once(out', t, "kernel") /\ AddrsIn(out', t) = {}
               /\ k > index' \/ (k = index' /\ phase' = "names") => Quiet(out', t)
  PROVE  ShownOK'
  BY DEF ShownOK, Recorded, Kept, UserPcs, given

\* The lines of an entry are added to those of others.
LEMMA RecordedJoin ==
  ASSUME StackTyping, ShownOK, Console, index \in DOMAIN all, NEW g \in Seq(OutLines),
         \A i \in DOMAIN g : g[i].of = Subject, out' = out \o g
  PROVE  \A i \in DOMAIN out' : Recorded(out'[i].of)
  <1> DEFINE h == out \o g
  <1>1. \A i \in DOMAIN h : \/ i \in DOMAIN out /\ h[i] = out[i]
                            \/ i - Len(out) \in DOMAIN g /\ h[i] = g[i - Len(out)]
    BY JoinFacts DEF StackTyping
  <1>2. Recorded(Subject) /\ \A i \in DOMAIN out : Recorded(out[i].of)
    BY DEF Recorded, Subject, ShownOK
  <1> HIDE DEF h
  <1>3. \A i \in DOMAIN h : Recorded(h[i].of)
    BY <1>1, <1>2
  <1>4. QED
    BY <1>3 DEF h

\* Before the first entry nothing is printed.
LEMMA ShownStart ==
  ASSUME StackTyping', UNCHANGED given, index' = 1, phase' \in {"processes", "threads", "names"}, out' = << >>
  PROVE  ShownOK'
  <1>1. \A t : Quiet(<< >>, t)
    BY NoLines DEF Quiet
  <1>2. DOMAIN all' \subseteq Nat \ {0}
    <2>1. DOMAIN all' = 1 .. Len(all') /\ Len(all') \in Nat
      BY SeqFacts DEF StackTyping
    <2>2. QED
      BY <2>1
  <1>3. \A k \in DOMAIN all' : ~ (k < index')
    BY <1>2
  <1>4. QED
    BY <1>1, <1>3 DEF ShownOK

\* The lines of the addresses that are printed.
LEMMA KeptLines ==
  ASSUME StackTyping, NEW t \in Tasks
  PROVE  LET ls == FirstOf(Entry(t).pcs, StackDepth)
         IN  /\ ls \in Seq(PcSet) /\ Len(ls) = Len(Kept(t))
             /\ \A i \in 1 .. Len(ls) : ls[i].of = t /\ ls[i].pc = Kept(t)[i]
  <1> DEFINE pcs == FirstOf(UserPcs(t), MaxStack)
             l   == PcLines(t, pcs)
             ls  == FirstOf(l, StackDepth)
  <1>1. pcs \in Seq(Nat) /\ StackDepth \in Nat
    BY UserPcsFacts, FirstOfFacts, LimitsAssumption
  <1>2. Entry(t).pcs = l /\ Kept(t) = FirstOf(pcs, StackDepth)
    BY DEF Entry, Kept
  <1> HIDE DEF pcs
  <1>3. /\ l \in Seq(PcSet) /\ Len(l) = Len(pcs) /\ DOMAIN l = DOMAIN pcs
        /\ \A i \in DOMAIN pcs : l[i].of = t /\ l[i].pc = pcs[i]
    BY <1>1, PcLinesFacts
  <1> HIDE DEF l
  <1>4. /\ ls \in Seq(PcSet) /\ Len(ls) = (IF Len(l) < StackDepth THEN Len(l) ELSE StackDepth)
        /\ \A i \in DOMAIN ls : i \in DOMAIN l /\ ls[i] = l[i]
    BY <1>1, <1>3, FirstOfFacts
  <1>5. /\ Kept(t) \in Seq(Nat) /\ Len(Kept(t)) = (IF Len(pcs) < StackDepth THEN Len(pcs) ELSE StackDepth)
        /\ \A i \in DOMAIN Kept(t) : i \in DOMAIN pcs /\ Kept(t)[i] = pcs[i]
    BY <1>1, <1>2, FirstOfFacts
  <1> HIDE DEF ls
  <1>6. DOMAIN ls = 1 .. Len(ls)
    BY <1>4, SeqFacts
  <1>7. DOMAIN Kept(t) = 1 .. Len(Kept(t))
    BY <1>5, SeqFacts
  <1>8. Len(ls) = Len(Kept(t))
    BY <1>3, <1>4, <1>5
  <1>9. \A i \in 1 .. Len(ls) : ls[i].of = t /\ ls[i].pc = Kept(t)[i]
    BY <1>3, <1>4, <1>5, <1>6, <1>7, <1>8
  <1>10. QED
    BY <1>2, <1>4, <1>8, <1>9 DEF ls

\* The names for the addresses of one task.
LEMMA NamedLines ==
  ASSUME StackTyping, Loaded(milist, Reads), NEW ls \in Seq(PcSet), NEW wide \in BOOLEAN,
         NEW t, NEW pcs \in Seq(Nat), Len(ls) = Len(pcs),
         \A i \in 1 .. Len(ls) : ls[i].of = t /\ ls[i].pc = pcs[i]
  PROVE  LET n == Named(table, milist, ls, wide)
         IN  /\ n \in Seq(OutLines) /\ \A i \in DOMAIN n : n[i].of = t
             /\ KindIn(n, t, "kernel") = {} /\ PrintedIn(n, t, pcs)
  <1> DEFINE n == Named(table, milist, ls, wide)
  <1>1. /\ n \in Seq(OutLines) /\ Len(n) = Len(ls) /\ DOMAIN n = DOMAIN ls
        /\ \A i \in DOMAIN ls : n[i].of = ls[i].of /\ n[i].pc = ls[i].pc /\ n[i].kind = "frame"
    BY NamedOut
  <1>2. Len(pcs) \in Nat /\ DOMAIN pcs = 1 .. Len(pcs) /\ DOMAIN ls = 1 .. Len(pcs)
    BY SeqFacts
  <1> HIDE DEF n
  <1>3. \A i \in 1 .. Len(pcs) : n[i].of = t /\ n[i].pc = pcs[i] /\ n[i].kind = "frame"
    BY <1>1, <1>2
  <1>4. KindIn(n, t, "kernel") = {}
    BY <1>1, <1>2, <1>3 DEF KindIn
  <1>5. AddrsIn(n, t) = 1 .. Len(pcs)
    BY <1>1, <1>2, <1>3 DEF AddrsIn
  <1>6. AddrsIn(n, t) = {0 + i : i \in 1 .. Len(pcs)}
    BY <1>2, <1>5
  <1>7. \A i \in 1 .. Len(pcs) : n[0 + i].pc = pcs[i]
    BY <1>2, <1>3
  <1>8. 0 \in 0 .. Len(n)
    BY <1>1, <1>2
  <1>9. PrintedIn(n, t, pcs)
    BY <1>2, <1>6, <1>7, <1>8 DEF PrintedIn
  <1>10. QED
    BY <1>1, <1>2, <1>3, <1>4, <1>9 DEF n

\* The output has the entries before index: one is passed over,
LEMMA ShownPassOver ==
  ASSUME StackTyping, EntriesOK, ShownOK, Console, PassOver
  PROVE  ShownOK'
  <1>1. /\ UNCHANGED <<given, all, alive, out>> /\ phase = "names" /\ phase' = "names"
        /\ index \in DOMAIN all /\ Subject \notin alive /\ index' = index + 1
    BY AllFacts DEF PassOver, system, StackTyping
  <1>2. /\ DOMAIN all \subseteq Nat /\ index \in Nat
    BY AllFacts
  <1>3. ASSUME NEW k \in DOMAIN all
        PROVE  LET t == all[k].of
               IN  /\ k < index' /\ t \in alive' =>
                        /\ Once(out', t, "kernel")
                        /\ MapList(MapsOf[Process(t)]) # << >> => PrintedIn(out', t, Kept(t))
                   /\ ~ (phase' \in {"maps", "unwind"})
                   /\ k > index' \/ (k = index' /\ phase' = "names") => Quiet(out', t)
    <2>1. k < index' => k < index \/ all[k].of \notin alive'
      BY <1>1, <1>2 DEF Subject
    <2>2. k > index' \/ k = index' => k > index
      BY <1>1, <1>2
    <2>3. QED
      BY <1>1, <2>1, <2>2 DEF ShownOK
  <1>4. phase' \notin {"processes", "threads", "done"}
    BY <1>1
  <1>6. \A i \in DOMAIN out' : Recorded(out'[i].of)
    BY <1>1 DEF ShownOK
  <1>5. QED
    BY <1>1, <1>3, <1>4, <1>6, ShownNew

\* the name of one is printed,
LEMMA ShownName ==
  ASSUME StackTyping, EntriesOK, ShownOK, Console, ReadName
  PROVE  ShownOK'
  <1>1. UNCHANGED <<given, all, alive, index>> /\ phase = "names"
    BY DEF ReadName, system, live
  <1>2. /\ DOMAIN all = 1 .. Len(all) /\ Len(all) \in Nat /\ index \in Nat
    BY AllFacts
  <1>3. \A k \in DOMAIN all :
          LET t == all[k].of
          IN  /\ k < index /\ t \in alive =>
                   /\ Once(out, t, "kernel")
                   /\ MapList(MapsOf[Process(t)]) # << >> => PrintedIn(out, t, Kept(t))
              /\ k > index \/ k = index => Quiet(out, t)
    BY <1>1 DEF ShownOK
  <1>4. CASE index > Len(all) /\ phase' = "done" /\ UNCHANGED out
    <2>1. \A k \in DOMAIN all : k < index /\ ~ (k > index) /\ k # index
      BY <1>2, <1>4
    <2>3. \A i \in DOMAIN out' : Recorded(out'[i].of)
      BY <1>4 DEF ShownOK
    <2>2. QED
      BY <1>1, <1>3, <1>4, <2>1, <2>3, ShownNew
  <1>5. CASE /\ index <= Len(all) /\ Subject \in alive /\ out' = Append(out, Line("kernel", Subject))
             /\ phase' = IF Subject \in Pids THEN "maps" ELSE "unwind"
    <2> DEFINE g == <<Line("kernel", Subject)>>
    <2>1. index \in DOMAIN all /\ Subject \in Tasks /\ "kernel" \in Kinds
      BY <1>2, <1>5, AllFacts DEF Subject, StackTyping, Kinds
    <2>2. Line("kernel", Subject) \in OutLines /\ Line("kernel", Subject).kind = "kernel"
          /\ Line("kernel", Subject).of = Subject
      BY <2>1, LineFacts, KindFacts
    <2>3. /\ g \in Seq(OutLines) /\ DOMAIN g = 1 .. 1 /\ g[1] = Line("kernel", Subject)
      BY <2>2, OneFacts
    <2>4. out' = out \o g
      BY <1>5, <2>2, AppendIsConcat DEF StackTyping
    <2> HIDE DEF g
    <2>5. \A i \in DOMAIN g : g[i].of = Subject
      BY <2>2, <2>3
    <2>6. Once(g, Subject, "kernel") /\ AddrsIn(g, Subject) = {}
      <3>1. KindIn(g, Subject, "kernel") = {1} /\ 1 \in DOMAIN g
        BY <2>2, <2>3 DEF KindIn
      <3>2. AddrsIn(g, Subject) = {}
        BY <2>2, <2>3 DEF AddrsIn
      <3>3. QED
        BY <3>1, <3>2 DEF Once
    <2>7. ASSUME NEW k \in DOMAIN all, k # index
          PROVE  LET t == all[k].of
                 IN  /\ Once(out, t, "kernel") => Once(out', t, "kernel")
                     /\ PrintedIn(out, t, Kept(t)) => PrintedIn(out', t, Kept(t))
                     /\ Quiet(out, t) => Quiet(out', t)
      BY <2>1, <2>3, <2>4, <2>5, <2>7, ShownOthers
    <2>8. Once(out', Subject, "kernel") /\ AddrsIn(out', Subject) = {}
      <3>1. Quiet(out, Subject)
        BY <1>3, <2>1 DEF Subject
      <3>2. KindIn(out, Subject, "kernel") = {} /\ AddrsIn(out, Subject) = {} /\ out \in Seq(OutLines)
        BY <3>1 DEF Quiet, StackTyping
      <3>3. Once(out \o g, Subject, "kernel")
        BY <2>3, <2>6, <3>2, OnceJoin
      <3>4. AddrsIn(out \o g, Subject) = AddrsIn(out, Subject)
        <4>1. << >> \in Seq(Nat) /\ g \in Seq(OutLines) /\ out \in Seq(OutLines)
          BY <2>3, <3>2, EmptySeq
        <4>2. AddrsIn(g, Subject) = {}
          BY <2>6
        <4>3. QED
          BY <4>1, <4>2, PrintedJoin
      <3>5. QED
        BY <2>4, <3>2, <3>3, <3>4
    <2>9. phase' \in {"maps", "unwind"}
      BY <1>5
    <2>10. ASSUME NEW k \in DOMAIN all
           PROVE  LET t == all[k].of
                  IN  /\ k < index' /\ t \in alive' =>
                           /\ Once(out', t, "kernel")
                           /\ MapList(MapsOf[Process(t)]) # << >> => PrintedIn(out', t, Kept(t))
                      /\ k = index' /\ phase' \in {"maps", "unwind"} =>
                           Once(out', t, "kernel") /\ AddrsIn(out', t) = {}
                      /\ k > index' \/ (k = index' /\ phase' = "names") => Quiet(out', t)
      <3>1. CASE k = index
        <4>1. ~ (k < index') /\ ~ (k > index') /\ phase' # "names" /\ all[k].of = Subject
          BY <1>1, <1>2, <2>9, <3>1 DEF Subject
        <4>2. QED
          BY <2>8, <4>1
      <3>2. CASE k # index
        BY <1>1, <1>3, <2>7, <3>2
      <3>3. QED
        BY <3>1, <3>2
    <2>12. \A i \in DOMAIN out' : Recorded(out'[i].of)
      BY <2>1, <2>3, <2>4, <2>5, RecordedJoin
    <2>11. QED
      BY <1>1, <2>9, <2>10, <2>12, ShownNew
  <1>6. QED
    BY <1>1, <1>4, <1>5 DEF ReadName

\* its maps are read,
LEMMA ShownMaps ==
  ASSUME StackTyping, LiveOK, EntriesOK, ShownOK, Console, ReadMaps
  PROVE  ShownOK'
  <1>1. UNCHANGED <<given, all, alive, out>> /\ phase = "maps"
    BY DEF ReadMaps, system
  <1>2. index \in DOMAIN all /\ index \in Nat /\ DOMAIN all \subseteq Nat /\ Subject \in Pids
        /\ Process(Subject) = Subject
    <2>1. index <= Len(all) /\ Subject \in Pids
      BY <1>1 DEF LiveOK
    <2>2. DOMAIN all = 1 .. Len(all) /\ Len(all) \in Nat /\ index \in 1 .. Len(all) + 1
      BY AllFacts DEF StackTyping
    <2>3. QED
      BY <2>1, <2>2, TaskFacts
  <1>3. \A k \in DOMAIN all :
          LET t == all[k].of
          IN  /\ k < index /\ t \in alive =>
                   /\ Once(out, t, "kernel")
                   /\ MapList(MapsOf[Process(t)]) # << >> => PrintedIn(out, t, Kept(t))
              /\ k = index => Once(out, t, "kernel") /\ AddrsIn(out, t) = {}
              /\ k > index => Quiet(out, t)
    BY <1>1 DEF ShownOK
  <1>7. \A i \in DOMAIN out' : Recorded(out'[i].of)
    BY <1>1 DEF ShownOK
  <1>4. CASE milist' # << >>
    <2>1. UNCHANGED index /\ phase' = "unwind"
      BY <1>4 DEF ReadMaps
    <2>2. \A k \in DOMAIN all : k = index => ~ (k < index) /\ ~ (k > index)
      BY <1>2
    <2>3. QED
      BY <1>1, <1>3, <1>7, <2>1, <2>2, ShownNew
  <1>5. CASE milist' = << >>
    <2>1. index' = index + 1 /\ phase' = "names"
      BY <1>5 DEF ReadMaps
    <2>2. Subject \in alive => MapList(MapsOf[Process(Subject)]) = << >>
      <3> DEFINE l == MapList(MapsOf[Subject])
      <3>1. Subject \in alive => ParseElf(l, Parser) = << >>
        BY <1>5 DEF ReadMaps
      <3>2. l \in Seq(Maps)
        BY <1>2, RowFacts
      <3> HIDE DEF l
      <3>3. DOMAIN ParseElf(l, Parser) = DOMAIN l
        BY DEF ParseElf
      <3>4. DOMAIN l = {} => l = << >>
        BY <3>2, SeqFacts, EmptySeq
      <3>5. DOMAIN << >> = {}
        OBVIOUS
      <3>6. QED
        BY <1>2, <3>1, <3>3, <3>4, <3>5 DEF l
    <2>3. ASSUME NEW k \in DOMAIN all
          PROVE  LET t == all[k].of
                 IN  /\ k < index' /\ t \in alive' =>
                          /\ Once(out', t, "kernel")
                          /\ MapList(MapsOf[Process(t)]) # << >> => PrintedIn(out', t, Kept(t))
                     /\ ~ (phase' \in {"maps", "unwind"})
                     /\ k > index' \/ (k = index' /\ phase' = "names") => Quiet(out', t)
      <3>1. k < index' => k < index \/ (k = index /\ all[k].of = Subject)
        BY <1>2, <2>1 DEF Subject
      <3>2. k > index' \/ k = index' => k > index
        BY <1>2, <2>1
      <3>3. QED
        BY <1>1, <1>3, <2>1, <2>2, <3>1, <3>2
    <2>4. phase' \notin {"processes", "threads", "done"}
      BY <2>1
    <2>5. QED
      BY <1>1, <1>7, <2>3, <2>4, ShownNew
  <1>6. QED
    BY <1>4, <1>5

\* its stack is printed.
LEMMA ShownStack ==
  ASSUME StackTyping, LiveOK, OutOK, EntriesOK, ShownOK, Console, PrintStack
  PROVE  ShownOK'
  <1> DEFINE ls == FirstOf(Entry(Subject).pcs, StackDepth)
             g  == Named(table, milist, ls, Wide)
  <1>1. UNCHANGED <<given, all, alive>> /\ phase = "unwind" /\ phase' = "names" /\ index' = index + 1
        /\ out' = out \o Named(table, milist, FirstOf(all[index].pcs, StackDepth), Wide)
    BY DEF PrintStack, system
  <1>2. index \in DOMAIN all /\ index \in Nat /\ DOMAIN all \subseteq Nat /\ Subject \in Tasks
        /\ all[index] = Entry(Subject) /\ Wide \in BOOLEAN
    <2>1. index <= Len(all)
      BY <1>1 DEF LiveOK
    <2>2. DOMAIN all = 1 .. Len(all) /\ Len(all) \in Nat /\ index \in 1 .. Len(all) + 1
      BY AllFacts DEF StackTyping
    <2>3. index \in DOMAIN all
      BY <2>1, <2>2
    <2>4. QED
      BY <2>2, <2>3, AllFacts, ObjectAssumption DEF Subject
  <1>3. out' = out \o g
    BY <1>1, <1>2
  <1>4. /\ ls \in Seq(PcSet) /\ Len(ls) = Len(Kept(Subject))
        /\ \A i \in 1 .. Len(ls) : ls[i].of = Subject /\ ls[i].pc = Kept(Subject)[i]
    BY <1>2, KeptLines
  <1>5. Kept(Subject) \in Seq(Nat) /\ Loaded(milist, Reads)
    BY <1>1, <1>2, KeptFacts DEF OutOK
  <1> HIDE DEF ls
  <1>6. /\ g \in Seq(OutLines) /\ \A i \in DOMAIN g : g[i].of = Subject
        /\ KindIn(g, Subject, "kernel") = {} /\ PrintedIn(g, Subject, Kept(Subject))
    BY <1>2, <1>4, <1>5, NamedLines
  <1> HIDE DEF g
  <1>7. \A k \in DOMAIN all :
          LET t == all[k].of
          IN  /\ k < index /\ t \in alive =>
                   /\ Once(out, t, "kernel")
                   /\ MapList(MapsOf[Process(t)]) # << >> => PrintedIn(out, t, Kept(t))
              /\ k = index => Once(out, t, "kernel") /\ AddrsIn(out, t) = {}
              /\ k > index => Quiet(out, t)
    BY <1>1 DEF ShownOK
  <1>8. ASSUME NEW k \in DOMAIN all, k # index
        PROVE  LET t == all[k].of
               IN  /\ Once(out, t, "kernel") => Once(out', t, "kernel")
                   /\ PrintedIn(out, t, Kept(t)) => PrintedIn(out', t, Kept(t))
                   /\ Quiet(out, t) => Quiet(out', t)
    BY <1>2, <1>3, <1>6, <1>8, ShownOthers
  <1>9. Once(out', Subject, "kernel") /\ PrintedIn(out', Subject, Kept(Subject))
    <2>1. Once(out, Subject, "kernel") /\ AddrsIn(out, Subject) = {} /\ out \in Seq(OutLines)
      BY <1>2, <1>7 DEF Subject, StackTyping
    <2>2. Once(out \o g, Subject, "kernel")
      BY <1>6, <2>1, OnceJoin
    <2>3. PrintedIn(out \o g, Subject, Kept(Subject))
      BY <1>5, <1>6, <2>1, PrintedJoin
    <2>4. QED
      BY <1>3, <2>2, <2>3
  <1>10. ASSUME NEW k \in DOMAIN all
         PROVE  LET t == all[k].of
                IN  /\ k < index' /\ t \in alive' =>
                         /\ Once(out', t, "kernel")
                         /\ MapList(MapsOf[Process(t)]) # << >> => PrintedIn(out', t, Kept(t))
                    /\ ~ (phase' \in {"maps", "unwind"})
                    /\ k > index' \/ (k = index' /\ phase' = "names") => Quiet(out', t)
    <2>1. phase' \notin {"maps", "unwind"}
      BY <1>1
    <2>2. CASE k = index
      <3>1. ~ (k > index') /\ k # index' /\ all[k].of = Subject
        BY <1>1, <1>2, <2>2 DEF Subject
      <3>2. QED
        BY <1>9, <2>1, <3>1
    <2>3. CASE k # index
      <3>1. (k < index' => k < index) /\ (k > index' \/ k = index' => k > index)
        BY <1>1, <1>2, <2>3
      <3>2. QED
        BY <1>1, <1>7, <1>8, <2>1, <2>3, <3>1
    <2>4. QED
      BY <2>2, <2>3
  <1>11. phase' \notin {"processes", "threads", "done"}
    BY <1>1
  <1>13. \A i \in DOMAIN out' : Recorded(out'[i].of)
    BY <1>2, <1>3, <1>6, RecordedJoin
  <1>12. QED
    BY <1>1, <1>10, <1>11, <1>13, ShownNew
-----------------------------------------------------------------------------
(* The file of one process.                                                *)

\* The stack of one process.
LEMMA AnrStep ==
  ASSUME StackTyping, OutOK, AnrOK, ParseAnrMaps \/ ParseAnrStack
  PROVE  AnrOK'
  <1>1. UNCHANGED given /\ request' = request /\ stack' = stack
    BY DEF ParseAnrMaps, ParseAnrStack, given
  <1>2. phase \in {"anr", "anr_stack"} /\ request.ask = "anr" /\ request.pid \in Pids
    BY AskFacts DEF ParseAnrMaps, ParseAnrStack
  <1>3. CASE ParseAnrMaps
    <2>1. out' = <<Line("kernel", request.pid)>> /\ phase' = "anr_stack"
      BY <1>3 DEF ParseAnrMaps
    <2>2. QED
      BY <1>1, <2>1 DEF AnrOK
  <1>4. CASE ParseAnrStack
    <2> DEFINE t   == request.pid
               pcs == FirstOf(UserPcs(t), StackDepth - 1)
               ls  == PcLines(t, pcs)
               g   == Named(table, milist, ls, FALSE)
               f   == <<Line("kernel", t)>>
    <2>1. out' = out \o g /\ phase' = "done" /\ phase = "anr_stack" /\ out = f
      BY <1>2, <1>4 DEF ParseAnrStack, AnrOK
    <2>2. t \in Tasks /\ StackDepth - 1 \in Nat /\ UserPcs(t) \in Seq(Nat)
      <3>1. t \in Tasks
        BY <1>2, TaskFacts
      <3>2. StackDepth - 1 \in Nat
        BY LimitsAssumption
      <3> HIDE DEF t
      <3>3. QED
        BY <3>1, <3>2, UserPcsFacts
    <2>3. pcs \in Seq(Nat)
      BY <2>2, FirstOfFacts
    <2>4. /\ ls \in Seq(PcSet) /\ Len(ls) = Len(pcs) /\ DOMAIN ls = DOMAIN pcs
          /\ \A i \in DOMAIN pcs : ls[i].of = t /\ ls[i].pc = pcs[i]
      <3> HIDE DEF pcs, t
      <3>1. QED
        BY <2>2, <2>3, PcLinesFacts
    <2>5. Loaded(milist, Reads)
      BY <2>1 DEF OutOK
    <2> HIDE DEF pcs, t, ls
    <2>6. DOMAIN pcs = 1 .. Len(ls)
      BY <2>3, <2>4, SeqFacts
    <2>7. /\ g \in Seq(OutLines) /\ KindIn(g, t, "kernel") = {} /\ PrintedIn(g, t, pcs)
          /\ \A i \in DOMAIN g : g[i].of = t
      BY <2>3, <2>4, <2>5, <2>6, NamedLines
    <2> HIDE DEF g
    <2>8. Line("kernel", t) \in OutLines /\ Line("kernel", t).kind = "kernel" /\ Line("kernel", t).of = t
      BY <2>2, LineFacts, KindFacts DEF Kinds
    <2>9. f \in Seq(OutLines) /\ DOMAIN f = 1 .. 1 /\ f[1] = Line("kernel", t)
      BY <2>8, OneFacts
    <2> HIDE DEF f
    <2>10. KindIn(f, t, "kernel") = {1} /\ 1 \in DOMAIN f
      BY <2>8, <2>9 DEF KindIn
    <2>11. AddrsIn(f, t) = {}
      BY <2>8, <2>9 DEF AddrsIn
    <2>12. Once(f \o g, t, "kernel")
      <3>1. Once(f, t, "kernel")
        BY <2>10 DEF Once
      <3>2. QED
        BY <2>7, <2>9, <3>1, OnceJoin
    <2>13. PrintedIn(f \o g, t, pcs)
      BY <2>3, <2>7, <2>9, <2>11, PrintedJoin
    <2>14. Once(out', t, "kernel") /\ PrintedIn(out', t, pcs)
      BY <2>1, <2>12, <2>13
    <2>16. \A i \in DOMAIN out' : out'[i].of = t
      <3>1. \A i \in DOMAIN (f \o g) : (f \o g)[i].of = t
        BY <2>7, <2>8, <2>9, JoinFacts
      <3>2. QED
        BY <2>1, <3>1
    <2>15. QED
      BY <1>1, <2>1, <2>14, <2>16 DEF AnrOK, t, pcs, UserPcs
  <1>5. QED
    BY <1>3, <1>4
-----------------------------------------------------------------------------
(* Whole stacks in the trace.                                              *)

\* The lines of a stack before its addresses.
LEMMA AheadFacts ==
  ASSUME StackTyping, NEW t \in Tasks
  PROVE  /\ Depth(t) \in Nat /\ Ahead(t) \in {2, 3} /\ UserPcs(t) \in Seq(Nat)
         /\ Ahead(t) = 2 => Depth(t) = 0 /\ UserPcs(t) = << >> /\ stack[t].user = FALSE
         /\ Ahead(t) = 3 => stack[t].user = TRUE
         /\ DOMAIN UserPcs(t) = 1 .. Depth(t)
  <1>1. UserPcs(t) \in Seq(Nat) /\ stack[t].user \in BOOLEAN
    BY UserPcsFacts
  <1>2. Depth(t) \in Nat /\ DOMAIN UserPcs(t) = 1 .. Depth(t)
    BY <1>1, SeqFacts DEF Depth
  <1>3. CASE stack[t].user = TRUE
    BY <1>1, <1>2, <1>3 DEF Ahead
  <1>4. CASE stack[t].user = FALSE
    <2>1. UserPcs(t) = << >> /\ Ahead(t) = 2
      BY <1>4 DEF UserPcs, Ahead
    <2>2. Depth(t) = 0
      BY <2>1 DEF Depth
    <2>3. QED
      BY <1>1, <1>2, <1>4, <2>1, <2>2
  <1>5. QED
    BY <1>1, <1>3, <1>4

\* The lines of a task that are parts of its stack.
LEMMA BlockLines ==
  ASSUME StackTyping, NEW t \in Tasks, NEW f \in Seq(FileLines), NEW b \in Nat, BlockAt(f, t, b),
         NEW i \in DOMAIN f, f[i].of = t
  PROVE  /\ f[i].kind = "kernel" <=> i = b + 2
         /\ f[i].kind = "pc" <=> b + Ahead(t) < i /\ i <= b + Ahead(t) + Depth(t)
         /\ f[i].kind = "pc" => f[i].pc = UserPcs(t)[i - (b + Ahead(t))]
         /\ f[i].kind = "stack_end" <=> i = b + Ahead(t) + Depth(t) + 1
         /\ f[i].kind = "userspace" => i = b + 3 /\ stack[t].user
  <1> DEFINE a == Ahead(t)
             d == Depth(t)
  <1>1. /\ d \in Nat /\ a \in {2, 3} /\ (a = 2 => d = 0 /\ stack[t].user = FALSE) /\ (a = 3 => stack[t].user = TRUE)
        /\ i \in Nat
    <2>1. i \in Nat
      BY SeqFacts
    <2>2. QED
      BY <2>1, AheadFacts
  <1>2. /\ f[b + 2] = Line("kernel", t)
        /\ stack[t].user => f[b + 3] = Line("userspace", t)
        /\ \A j \in 1 .. d : f[b + a + j] = PcLine(t, UserPcs(t)[j])
        /\ f[b + a + d + 1] = Line("stack_end", t)
        /\ f[i].kind \in Parts => b + 2 <= i /\ i <= b + a + d + 1
    BY DEF BlockAt
  <1> HIDE DEF a, d
  <1>3. b + 2 <= i /\ i <= b + a + d + 1 =>
          i = b + 2 \/ (i = b + 3 /\ a = 3) \/ (i - (b + a) \in 1 .. d /\ i = b + a + (i - (b + a)))
            \/ i = b + a + d + 1
    <2>1. CASE a = 2
      BY <1>1, <2>1
    <2>2. CASE a = 3
      BY <1>1, <2>2
    <2>3. QED
      BY <1>1, <2>1, <2>2
  <1>4. i = b + 2 => f[i].kind = "kernel" /\ ~ (b + a < i) /\ i # b + a + d + 1 /\ i # b + 3
    BY <1>1, <1>2 DEF Line
  <1>5. i = b + 3 /\ a = 3 => f[i].kind = "userspace" /\ ~ (b + a < i) /\ i # b + a + d + 1 /\ i # b + 2
    BY <1>1, <1>2 DEF Line
  <1>6. i - (b + a) \in 1 .. d /\ i = b + a + (i - (b + a)) =>
          /\ f[i].kind = "pc" /\ f[i].pc = UserPcs(t)[i - (b + a)]
          /\ b + a < i /\ i <= b + a + d /\ i # b + 2 /\ i # b + a + d + 1
    <2>1. i - (b + a) \in 1 .. d /\ i = b + a + (i - (b + a)) => f[i] = PcLine(t, UserPcs(t)[i - (b + a)])
      BY <1>2
    <2>2. i - (b + a) \in 1 .. d => b + a < i /\ i <= b + a + d /\ i # b + 2 /\ i # b + a + d + 1
      BY <1>1
    <2>3. QED
      BY <2>1, <2>2 DEF PcLine
  <1>7. i = b + a + d + 1 => f[i].kind = "stack_end" /\ ~ (i <= b + a + d) /\ i # b + 2
    BY <1>1, <1>2 DEF Line
  <1>8. ~ (b + 2 <= i /\ i <= b + a + d + 1) =>
          /\ f[i].kind \notin Parts /\ i # b + 2 /\ ~ (b + a < i /\ i <= b + a + d) /\ i # b + a + d + 1
    BY <1>1, <1>2
  <1>9. CASE ~ (b + 2 <= i /\ i <= b + a + d + 1)
    BY <1>8, <1>9 DEF Parts, a, d
  <1>10. CASE i = b + 2
    BY <1>4, <1>10 DEF a, d
  <1>11. CASE i = b + 3 /\ a = 3
    BY <1>1, <1>5, <1>11 DEF a, d
  <1>12. CASE i - (b + a) \in 1 .. d /\ i = b + a + (i - (b + a))
    BY <1>6, <1>12 DEF a, d
  <1>13. CASE i = b + a + d + 1
    BY <1>7, <1>13 DEF a, d
  <1>14. QED
    BY <1>3, <1>9, <1>10, <1>11, <1>12, <1>13

\* The lines of the stack of a task.
LEMMA StackAt ==
  ASSUME StackTyping, NEW t \in Tasks
  PROVE  LET g == StackLines(t)
         IN  /\ g \in Seq(FileLines) /\ Len(g) = Ahead(t) + Depth(t) + 1 /\ DOMAIN g = 1 .. Len(g)
             /\ \A i \in DOMAIN g : g[i].of = t
             /\ g[2] = Line("kernel", t)
             /\ stack[t].user => g[3] = Line("userspace", t)
             /\ \A i \in 1 .. Depth(t) : g[Ahead(t) + i] = PcLine(t, UserPcs(t)[i])
             /\ g[Ahead(t) + Depth(t) + 1] = Line("stack_end", t)
  <1> DEFINE s == Line("stack_start", t)
             k == Line("kernel", t)
             u == Line("userspace", t)
             e == Line("stack_end", t)
             b == IF stack[t].user THEN <<u>> ELSE << >>
             c == PcLines(t, UserPcs(t))
             x == <<s, k>> \o b
             y == x \o c
             a == Ahead(t)
             d == Depth(t)
  <1>1. /\ s \in FileLines /\ s.of = t /\ k \in FileLines /\ k.of = t
        /\ u \in FileLines /\ u.of = t /\ e \in FileLines /\ e.of = t
    BY LineFacts DEF Kinds
  <1>2. StackLines(t) = y \o <<e>>
    BY DEF StackLines
  <1>3. /\ c \in Seq(FileLines) /\ Len(c) = d /\ DOMAIN c = 1 .. d
        /\ \A i \in 1 .. d : c[i] = PcLine(t, UserPcs(t)[i]) /\ c[i].of = t
    <2>1. UserPcs(t) \in Seq(Nat) /\ DOMAIN UserPcs(t) = 1 .. d /\ d = Len(UserPcs(t))
      BY UserPcsFacts, AheadFacts DEF Depth
    <2>2. c \in Seq(FileLines)
      BY <2>1, PcPiece
    <2>3. Len(c) = d /\ DOMAIN c = 1 .. d /\ \A i \in 1 .. d : c[i].of = t
      <3>1. Len(c) = Len(UserPcs(t)) /\ DOMAIN c = DOMAIN UserPcs(t) /\ \A i \in DOMAIN UserPcs(t) : c[i].of = t
        BY <2>1, PcLinesFacts
      <3>2. QED
        BY <2>1, <3>1
    <2>4. \A i \in 1 .. d : c[i] = PcLine(t, UserPcs(t)[i])
      BY <2>1 DEF PcLines
    <2>5. QED
      BY <2>2, <2>3, <2>4
  <1>4. d \in Nat /\ a \in {2, 3} /\ (a = 3 <=> stack[t].user) /\ stack[t].user \in BOOLEAN
    BY AheadFacts, UserPcsFacts
  <1> HIDE DEF s, k, u, e, c, a, d
  <1>5. /\ b \in Seq(FileLines) /\ Len(b) = a - 2 /\ (stack[t].user => b[1] = u)
        /\ \A i \in 1 .. Len(b) : b[i].of = t
    <2>1. CASE stack[t].user
      <3>1. b = <<u>> /\ a = 3
        BY <1>4, <2>1
      <3>2. b \in Seq(FileLines) /\ Len(b) = 1 /\ b[1] = u
        BY <1>1, <3>1, OneFacts
      <3>3. QED
        BY <1>1, <3>1, <3>2
    <2>2. CASE ~ stack[t].user
      <3>1. b = << >> /\ a = 2
        BY <1>4, <2>2
      <3>2. b \in Seq(FileLines) /\ Len(b) = 0
        BY <3>1
      <3>3. QED
        BY <2>2, <3>1, <3>2
    <2>3. QED
      BY <2>1, <2>2
  <1> HIDE DEF b
  <1> DEFINE w == <<s, k>>
  <1>6. w \in Seq(FileLines) /\ Len(w) = 2 /\ w[1] = s /\ w[2] = k
    BY <1>1
  <1>7. x = w \o b
    OBVIOUS
  <1> HIDE DEF w, x
  <1>8. /\ x \in Seq(FileLines) /\ Len(x) = a
        /\ x[2] = k /\ (stack[t].user => x[3] = u) /\ \A i \in 1 .. Len(x) : x[i].of = t
    <2>0. /\ w \o b \in Seq(FileLines) /\ Len(w \o b) = Len(w) + Len(b)
          /\ DOMAIN (w \o b) = 1 .. Len(w) + Len(b)
          /\ \A i \in 1 .. Len(w) : (w \o b)[i] = w[i]
          /\ \A i \in 1 .. Len(b) : (w \o b)[Len(w) + i] = b[i]
      <3>1. w \in Seq(FileLines) /\ b \in Seq(FileLines)
        BY <1>5, <1>6
      <3>2. QED
        BY <3>1, JoinFacts
    <2>1. /\ x \in Seq(FileLines) /\ Len(x) = 2 + (a - 2)
          /\ \A i \in 1 .. 2 : x[i] = w[i]
          /\ \A i \in 1 .. a - 2 : x[2 + i] = b[i]
      BY <1>5, <1>6, <1>7, <2>0
    <2>2. Len(x) = a
      BY <1>4, <2>1
    <2>3. x[1] = s /\ x[2] = k
      BY <1>6, <2>1
    <2>4. a = 3 => x[3] = b[1] /\ b[1].of = t /\ b[1] = u
      <3>1. a = 3 => x[2 + 1] = b[1]
        BY <2>1
      <3>2. QED
        BY <1>4, <1>5, <3>1
    <2>5. \A i \in 1 .. a : i = 1 \/ i = 2 \/ (i = 3 /\ a = 3)
      BY <1>4
    <2>6. QED
      BY <1>1, <1>4, <2>1, <2>2, <2>3, <2>4, <2>5
  <1>9. y = x \o c
    OBVIOUS
  <1> HIDE DEF y
  <1>10. /\ y \in Seq(FileLines) /\ Len(y) = a + d
         /\ \A i \in 1 .. a : y[i] = x[i]
         /\ \A i \in 1 .. d : y[a + i] = c[i]
    <2>0. /\ x \o c \in Seq(FileLines) /\ Len(x \o c) = Len(x) + Len(c)
          /\ DOMAIN (x \o c) = 1 .. Len(x) + Len(c)
          /\ \A i \in 1 .. Len(x) : (x \o c)[i] = x[i]
          /\ \A i \in 1 .. Len(c) : (x \o c)[Len(x) + i] = c[i]
      <3>1. x \in Seq(FileLines) /\ c \in Seq(FileLines)
        BY <1>3, <1>8
      <3>2. QED
        BY <3>1, JoinFacts
    <2>1. QED
      BY <1>3, <1>8, <1>9, <2>0
  <1> DEFINE E == <<e>>
             z == y \o E
  <1>11. E \in Seq(FileLines) /\ Len(E) = 1 /\ E[1] = e
    BY <1>1, OneFacts
  <1> HIDE DEF E
  <1>12. /\ z \in Seq(FileLines) /\ Len(z) = a + d + 1 /\ DOMAIN z = 1 .. a + d + 1
         /\ \A i \in 1 .. a + d : z[i] = y[i]
         /\ z[a + d + 1] = e
    <2>0. /\ y \o E \in Seq(FileLines) /\ Len(y \o E) = Len(y) + Len(E)
          /\ DOMAIN (y \o E) = 1 .. Len(y) + Len(E)
          /\ \A i \in 1 .. Len(y) : (y \o E)[i] = y[i]
          /\ \A i \in 1 .. Len(E) : (y \o E)[Len(y) + i] = E[i]
      <3>1. y \in Seq(FileLines) /\ E \in Seq(FileLines)
        BY <1>10, <1>11
      <3>2. QED
        BY <3>1, JoinFacts
    <2>1. /\ z \in Seq(FileLines) /\ Len(z) = a + d + 1 /\ DOMAIN z = 1 .. a + d + 1
          /\ \A i \in 1 .. a + d : z[i] = y[i]
          /\ \A i \in 1 .. 1 : z[a + d + i] = E[i]
      <3>1. z = y \o E /\ Len(y) = a + d /\ Len(E) = 1
        BY <1>10, <1>11
      <3> HIDE DEF z
      <3>2. z \in Seq(FileLines) /\ Len(z) = a + d + 1 /\ DOMAIN z = 1 .. a + d + 1
        BY <2>0, <3>1
      <3>3. \A i \in 1 .. a + d : z[i] = y[i]
        BY <2>0, <3>1
      <3>4. \A i \in 1 .. 1 : z[a + d + i] = E[i]
        BY <2>0, <3>1
      <3>5. QED
        BY <3>2, <3>3, <3>4
    <2> HIDE DEF z
    <2>2. z[a + d + 1] = E[1]
      BY <2>1
    <2>3. QED
      BY <1>11, <2>1, <2>2
  <1> HIDE DEF z
  <1>13. \A i \in 1 .. a : z[i] = x[i]
    BY <1>4, <1>10, <1>12
  <1>14. \A i \in 1 .. d : z[a + i] = c[i]
    BY <1>4, <1>10, <1>12
  <1>15. \A i \in 1 .. a + d + 1 : i \in 1 .. a \/ (i - a \in 1 .. d /\ i = a + (i - a)) \/ i = a + d + 1
    BY <1>4
  <1>16. \A i \in 1 .. a + d + 1 : z[i].of = t
    <2>1. \A i \in 1 .. a : z[i].of = t
      BY <1>8, <1>13
    <2>2. \A i \in 1 .. d : z[a + i].of = t
      BY <1>3, <1>14
    <2>3. QED
      BY <1>1, <1>12, <1>15, <2>1, <2>2
  <1>17. z[2] = k /\ (stack[t].user => z[3] = u)
    BY <1>4, <1>8, <1>13
  <1>18. \A i \in 1 .. d : z[a + i] = PcLine(t, UserPcs(t)[i])
    BY <1>3, <1>14
  <1>19. StackLines(t) = z
    BY <1>2 DEF z, E
  <1>20. QED
    BY <1>12, <1>16, <1>17, <1>18, <1>19 DEF a, d, k, u, e

\* A stack in the trace stays where it is, whatever others add.
LEMMA BlockKept ==
  ASSUME StackTyping, NEW t \in Tasks, NEW f \in Seq(FileLines), NEW b \in Nat, BlockAt(f, t, b),
         NEW g \in Seq(FileLines), \A i \in DOMAIN g : g[i].of = t => g[i].kind \notin Parts
  PROVE  BlockAt(f \o g, t, b)
  <1> DEFINE a == Ahead(t)
             d == Depth(t)
             h == f \o g
             n == Len(f)
  <1>1. d \in Nat /\ a \in {2, 3} /\ (a = 3 <=> stack[t].user)
    BY AheadFacts, UserPcsFacts
  <1>2. /\ b + a + d + 1 \in DOMAIN f
        /\ f[b + 2] = Line("kernel", t)
        /\ stack[t].user => f[b + 3] = Line("userspace", t)
        /\ \A i \in 1 .. d : f[b + a + i] = PcLine(t, UserPcs(t)[i])
        /\ f[b + a + d + 1] = Line("stack_end", t)
        /\ \A i \in DOMAIN f : f[i].of = t /\ f[i].kind \in Parts => b + 2 <= i /\ i <= b + a + d + 1
    BY DEF BlockAt
  <1>3. n \in Nat /\ DOMAIN f = 1 .. n
    BY SeqFacts
  <1>4. /\ DOMAIN h = 1 .. n + Len(g) /\ Len(g) \in Nat
        /\ \A i \in 1 .. n : h[i] = f[i]
        /\ \A i \in DOMAIN h : \/ i \in DOMAIN f /\ h[i] = f[i]
                               \/ i - n \in DOMAIN g /\ h[i] = g[i - n]
    BY JoinFacts, SeqFacts
  <1> HIDE DEF a, d, h, n
  <1>5. /\ b + 2 \in 1 .. n /\ (a = 3 => b + 3 \in 1 .. n) /\ \A i \in 1 .. d : b + a + i \in 1 .. n
    BY <1>1, <1>2, <1>3
  <1>6. b + a + d + 1 \in 1 .. n /\ b + a + d + 1 \in DOMAIN h
    BY <1>2, <1>3, <1>4
  <1>7. /\ h[b + 2] = Line("kernel", t)
        /\ stack[t].user => h[b + 3] = Line("userspace", t)
        /\ \A i \in 1 .. d : h[b + a + i] = PcLine(t, UserPcs(t)[i])
        /\ h[b + a + d + 1] = Line("stack_end", t)
    BY <1>1, <1>2, <1>4, <1>5, <1>6
  <1>8. \A i \in DOMAIN h : h[i].of = t /\ h[i].kind \in Parts => b + 2 <= i /\ i <= b + a + d + 1
    BY <1>2, <1>4
  <1>9. QED
    BY <1>6, <1>7, <1>8 DEF BlockAt, a, d, h

\* A stack that is written.
LEMMA BlockNew ==
  ASSUME StackTyping, NEW t \in Tasks, NEW f \in Seq(FileLines),
         \A i \in DOMAIN f : f[i].of = t => f[i].kind \notin Parts
  PROVE  Len(f) \in 0 .. Len(f \o StackLines(t)) /\ BlockAt(f \o StackLines(t), t, Len(f))
  <1> DEFINE a == Ahead(t)
             d == Depth(t)
             g == StackLines(t)
             h == f \o g
             n == Len(f)
  <1>1. d \in Nat /\ a \in {2, 3} /\ (a = 3 <=> stack[t].user)
    BY AheadFacts, UserPcsFacts
  <1>2. /\ g \in Seq(FileLines) /\ Len(g) = a + d + 1 /\ DOMAIN g = 1 .. Len(g)
        /\ \A i \in DOMAIN g : g[i].of = t
        /\ g[2] = Line("kernel", t)
        /\ stack[t].user => g[3] = Line("userspace", t)
        /\ \A i \in 1 .. d : g[a + i] = PcLine(t, UserPcs(t)[i])
        /\ g[a + d + 1] = Line("stack_end", t)
    BY StackAt
  <1>3. g[1].kind = "stack_start"
    <2>1. g[1] = Line("stack_start", t)
      BY StackPiece
    <2>2. QED
      BY <2>1 DEF Line
  <1> HIDE DEF a, d, g
  <1>4. /\ n \in Nat /\ DOMAIN f = 1 .. n /\ Len(h) = n + (a + d + 1) /\ DOMAIN h = 1 .. n + (a + d + 1)
        /\ \A i \in 1 .. a + d + 1 : h[n + i] = g[i]
        /\ \A i \in DOMAIN h : \/ i \in DOMAIN f /\ h[i] = f[i]
                               \/ i - n \in DOMAIN g /\ h[i] = g[i - n]
    <2>1. DOMAIN f = 1 .. n
      BY SeqFacts
    <2>0. /\ f \o g \in Seq(FileLines) /\ Len(f \o g) = Len(f) + Len(g)
          /\ DOMAIN (f \o g) = 1 .. Len(f) + Len(g)
          /\ \A i \in 1 .. Len(f) : (f \o g)[i] = f[i]
          /\ \A i \in 1 .. Len(g) : (f \o g)[Len(f) + i] = g[i]
          /\ \A i \in DOMAIN (f \o g) : \/ i \in DOMAIN f /\ (f \o g)[i] = f[i]
                                        \/ i - Len(f) \in DOMAIN g /\ (f \o g)[i] = g[i - Len(f)]
      <3>1. f \in Seq(FileLines) /\ g \in Seq(FileLines)
        BY <1>2
      <3>2. QED
        BY <3>1, JoinFacts
    <2>4. Len(f) \in Nat
      BY SeqFacts
    <2> HIDE DEF h
    <2>2. /\ n \in Nat /\ Len(h) = n + (a + d + 1) /\ DOMAIN h = 1 .. n + (a + d + 1)
          /\ \A i \in 1 .. a + d + 1 : h[n + i] = g[i]
          /\ \A i \in DOMAIN h : \/ i \in 1 .. n /\ h[i] = f[i]
                                 \/ i - n \in 1 .. a + d + 1 /\ h[i] = g[i - n]
      BY <1>2, <2>0, <2>1, <2>4 DEF h
    <2>3. QED
      BY <1>2, <2>1, <2>2
  <1> HIDE DEF h, n
  <1>5. 2 \in 1 .. a + d + 1 /\ (a = 3 => 3 \in 1 .. a + d + 1) /\ a + d + 1 \in 1 .. a + d + 1
        /\ \A i \in 1 .. d : a + i \in 1 .. a + d + 1
    BY <1>1
  <1>6. h[n + 2] = Line("kernel", t) /\ (stack[t].user => h[n + 3] = Line("userspace", t))
    BY <1>1, <1>2, <1>4, <1>5
  <1>7. \A i \in 1 .. d : h[n + a + i] = PcLine(t, UserPcs(t)[i])
    <2>1. \A i \in 1 .. d : h[n + (a + i)] = g[a + i] /\ n + (a + i) = n + a + i
      BY <1>1, <1>4, <1>5
    <2>2. QED
      BY <1>2, <2>1
  <1>8. h[n + a + d + 1] = Line("stack_end", t) /\ n + a + d + 1 \in DOMAIN h
    <2>1. h[n + (a + d + 1)] = g[a + d + 1] /\ n + (a + d + 1) = n + a + d + 1
      BY <1>1, <1>4, <1>5
    <2>2. QED
      BY <1>1, <1>2, <1>4, <2>1
  <1>9. ASSUME NEW i \in DOMAIN h, h[i].of = t, h[i].kind \in Parts
        PROVE  n + 2 <= i /\ i <= n + a + d + 1
    <2>1. i - n \in DOMAIN g /\ h[i] = g[i - n]
      BY <1>4, <1>9
    <2>2. g[i - n].kind # "stack_start"
      BY <1>9, <2>1 DEF Parts
    <2>3. i - n # 1
      BY <1>3, <2>2
    <2>4. QED
      BY <1>1, <1>2, <1>4, <2>1, <2>3
  <1>10. BlockAt(h, t, n)
    BY <1>6, <1>7, <1>8, <1>9 DEF BlockAt, a, d
  <1>11. n \in 0 .. Len(h)
    BY <1>1, <1>4
  <1>12. QED
    BY <1>10, <1>11 DEF h, g, n

\* The trace grows by g.
LEMMA FileMore ==
  ASSUME StackTyping, FileOK, request.ask = "trace", UNCHANGED given, alive' \subseteq alive,
         NEW g \in Seq(FileLines), file' = file \o g,
         \A t \in Tasks : Written(t) => Written(t)',
         \A i \in DOMAIN g : g[i].kind \in Parts => Written(g[i].of)' /\ ~ Written(g[i].of),
         \A t \in Tasks : Written(t)' /\ ~ Written(t) =>
           \/ t \notin alive' /\ \A i \in DOMAIN g : g[i].of = t => g[i].kind \notin {"userspace", "pc"}
           \/ g = StackLines(t),
         phase' \in Reading => g = << >> /\ (file = << >> \/ Last1.kind = "pid_end")
  PROVE  FileOK'
  <1>1. request' = request /\ stack' = stack /\ file \in Seq(FileLines)
    BY DEF given, StackTyping
  <1>2. /\ \A i \in DOMAIN file : file[i].kind \in Parts => Written(file[i].of)
        /\ \A t \in Tasks : Written(t) /\ (t \in alive \/ HasUser(t)) =>
             \E b \in 0 .. Len(file) : BlockAt(file, t, b)
    BY DEF FileOK
  <1>3. /\ Len(file) \in Nat /\ DOMAIN file = 1 .. Len(file) /\ Len(g) \in Nat /\ DOMAIN g = 1 .. Len(g)
    BY <1>1, SeqFacts
  <1>4. /\ Len(file') = Len(file) + Len(g)
        /\ \A i \in DOMAIN file' : \/ i \in DOMAIN file /\ file'[i] = file[i]
                                   \/ i - Len(file) \in DOMAIN g /\ file'[i] = g[i - Len(file)]
    BY <1>1, JoinFacts
  <1>5. \A i \in DOMAIN file : file[i].of \in Tasks
    <2>1. \A i \in DOMAIN file : file[i] \in FileLines
      BY <1>1, SeqFacts
    <2>2. QED
      BY <2>1, KindFacts
  <1>6. (\A i \in DOMAIN file : file[i].kind \in Parts => Written(file[i].of))'
    <2>1. \A i \in DOMAIN file' : file'[i].kind \in Parts => \E u : u = file'[i].of /\ Written(u)'
      BY <1>2, <1>4, <1>5
    <2>2. QED
      BY <2>1 DEF Written
  <1>7. ASSUME NEW t \in Tasks, Written(t)', t \in alive' \/ HasUser(t)'
        PROVE  \E b \in 0 .. Len(file') : BlockAt(file', t, b)
    <2>1. CASE Written(t)
      <3>1. \A i \in DOMAIN g : g[i].of = t => g[i].kind \notin Parts
        BY <2>1
      <3>2. t \in alive \/ HasUser(t)
        <4>1. HasUser(t)' => \E i \in DOMAIN file' : file'[i].of = t /\ file'[i].kind \in {"userspace", "pc"}
          BY DEF HasUser
        <4>2. HasUser(t)' => HasUser(t)
          <5>1. ASSUME NEW i \in DOMAIN file', file'[i].of = t, file'[i].kind \in {"userspace", "pc"}
                PROVE  i \in DOMAIN file /\ file[i].of = t /\ file[i].kind \in {"userspace", "pc"}
            BY <1>4, <3>1, <5>1 DEF Parts
          <5>2. QED
            BY <4>1, <5>1 DEF HasUser
        <4>3. QED
          BY <1>7, <4>2
      <3>3. PICK b \in 0 .. Len(file) : BlockAt(file, t, b)
        BY <1>2, <2>1, <3>2
      <3>4. b \in Nat /\ b \in 0 .. Len(file')
        BY <1>3, <1>4
      <3>5. BlockAt(file \o g, t, b)
        BY <1>1, <3>1, <3>3, <3>4, BlockKept
      <3>6. QED
        BY <3>4, <3>5
    <2>2. CASE ~ Written(t)
      <3>1. \A i \in DOMAIN file : file[i].of = t => file[i].kind \notin Parts
        BY <1>2, <2>2
      <3>2. CASE g = StackLines(t)
        <4>1. Len(file) \in 0 .. Len(file \o StackLines(t)) /\ BlockAt(file \o StackLines(t), t, Len(file))
          BY <1>1, <3>1, BlockNew
        <4>2. QED
          BY <3>2, <4>1
      <3>3. CASE t \notin alive' /\ \A i \in DOMAIN g : g[i].of = t => g[i].kind \notin {"userspace", "pc"}
        <4>1. PICK i \in DOMAIN file' : file'[i].of = t /\ file'[i].kind \in {"userspace", "pc"}
          BY <1>7, <3>3 DEF HasUser
        <4>2. QED
          BY <1>4, <3>1, <3>3, <4>1 DEF Parts
      <3>4. QED
        BY <1>7, <2>2, <3>2, <3>3
    <2>3. QED
      BY <2>1, <2>2
  <1>8. (\A t \in Tasks : Written(t) /\ (t \in alive \/ HasUser(t)) => \E b \in 0 .. Len(file) : BlockAt(file, t, b))'
    <2>1. \A t \in Tasks : Written(t)' /\ (t \in alive' \/ HasUser(t)') => \E b \in 0 .. Len(file') : BlockAt(file', t, b)
      BY <1>7
    <2>2. ASSUME NEW t \in Tasks, Written(t)', t \in alive' \/ HasUser(t)'
          PROVE  (\E b \in 0 .. Len(file) : BlockAt(file, t, b))'
      <3>1. PICK b \in 0 .. Len(file') : BlockAt(file', t, b)
        BY <2>1, <2>2
      <3>2. BlockAt(file, t, b)'
        BY <1>1, <3>1 DEF BlockAt, Ahead, Depth, UserPcs
      <3>3. QED
        BY <3>2
    <2>3. QED
      BY <2>2
  <1>9. phase' \in Reading => file' = << >> \/ Last1'.kind = "pid_end"
    <2>1. phase' \in Reading => file' = file
      <3>1. phase' \in Reading => file' = file \o << >>
        OBVIOUS
      <3>2. file \o << >> = file
        BY <1>1, ConcatEmptySeq
      <3>3. QED
        BY <3>1, <3>2
    <2>2. phase' \in Reading => file = << >> \/ file[Len(file)].kind = "pid_end"
      BY DEF Last1
    <2>3. Last1' = file'[Len(file')]
      BY DEF Last1
    <2>4. QED
      BY <2>1, <2>2, <2>3
  <1>10. QED
    BY <1>6, <1>8, <1>9 DEF FileOK, Last1

\* The trace does not change, or is no longer written.
LEMMA FileKept ==
  ASSUME StackTyping, FileOK, UNCHANGED <<given, file>>, alive' \subseteq alive,
         \/ UNCHANGED <<phase, pid, tid>>
         \/ phase \in Reading /\ phase' \in Reading \cup {"done"}
         \/ request.ask # "trace"
  PROVE  FileOK'
  <1>1. request' = request /\ stack' = stack /\ file' = file
    BY DEF given
  <1>2. CASE request.ask # "trace"
    BY <1>1, <1>2 DEF FileOK
  <1>3. CASE request.ask = "trace"
    <2>1. \A t : Written(t)' <=> Written(t)
      <3>1. CASE UNCHANGED <<phase, pid, tid>>
        BY <3>1 DEF Written
      <3>2. CASE phase \in Reading /\ phase' \in Reading \cup {"done"}
        BY <3>2 DEF Written, Reading
      <3>3. QED
        BY <1>3, <3>1, <3>2
    <2>2. (\A i \in DOMAIN file : file[i].kind \in Parts => Written(file[i].of))'
      <3>1. \A i \in DOMAIN file' : file'[i].kind \in Parts => \E u : u = file'[i].of /\ Written(u)'
        BY <1>1, <1>3, <2>1 DEF FileOK
      <3>2. QED
        BY <3>1 DEF Written
    <2>3. \A t \in Tasks : HasUser(t)' <=> HasUser(t)
      BY <1>1 DEF HasUser
    <2>4. (\A t \in Tasks : Written(t) /\ (t \in alive \/ HasUser(t)) => \E b \in 0 .. Len(file) : BlockAt(file, t, b))'
      <3>1. \A t \in Tasks : Written(t)' /\ (t \in alive' \/ HasUser(t)') => \E b \in 0 .. Len(file') : BlockAt(file', t, b)
        BY <1>1, <1>3, <2>1, <2>3 DEF FileOK
      <3>2. QED
        <4>1. ASSUME NEW t \in Tasks, NEW b \in 0 .. Len(file'), BlockAt(file', t, b)
              PROVE  BlockAt(file, t, b)'
          BY <1>1, <4>1 DEF BlockAt, Ahead, Depth, UserPcs
        <4>2. ASSUME NEW t \in Tasks, Written(t)', t \in alive' \/ HasUser(t)'
              PROVE  (\E b \in 0 .. Len(file) : BlockAt(file, t, b))'
          <5>1. PICK b \in 0 .. Len(file') : BlockAt(file', t, b)
            BY <3>1, <4>2
          <5>2. BlockAt(file, t, b)'
            BY <4>1, <5>1
          <5>3. QED
            BY <5>2
        <4>3. QED
          BY <4>2
    <2>5. phase' \in Reading => file' = << >> \/ Last1'.kind = "pid_end"
      BY <1>1, <1>3 DEF FileOK, Last1, Reading
    <2>6. QED
      BY <2>2, <2>4, <2>5 DEF FileOK, Last1
  <1>4. QED
    BY <1>2, <1>3

\* The trace grows by the stack of a task, or by that of one that ended.
LEMMA FileStack ==
  ASSUME StackTyping, FileOK, request.ask = "trace", UNCHANGED given, NEW t \in Tasks, StackOrEnd(t),
         ~ Written(t), Written(t)', \A u \in Tasks : Written(u) => Written(u)',
         \A u \in alive' : Written(u)' /\ ~ Written(u) => u = t, phase' \notin Reading
  PROVE  FileOK'
  <1>1. CASE file' = file \o StackLines(t) /\ UNCHANGED system
    <2>1. PICK g \in Seq(FileLines) : g = StackLines(t)
      BY StackPiece
    <2>2. \A i \in DOMAIN g : g[i].of = t
      BY <2>1, StackAt
    <2>3. file' = file \o g /\ alive' \subseteq alive
      BY <1>1, <2>1 DEF system
    <2>4. \A i \in DOMAIN g : g[i].kind \in Parts => Written(g[i].of)' /\ ~ Written(g[i].of)
      BY <2>2
    <2>5. \A u \in Tasks : Written(u)' /\ ~ Written(u) =>
            \/ u \notin alive' /\ \A i \in DOMAIN g : g[i].of = u => g[i].kind \notin {"userspace", "pc"}
            \/ g = StackLines(u)
      BY <2>1, <2>2
    <2>6. QED
      BY <2>3, <2>4, <2>5, FileMore
  <1>2. CASE /\ file' = file \o EmptyStack(t)
             /\ alive' = alive \ (IF t \in Pids THEN {t} \cup Threads[t] ELSE {t})
    <2>1. PICK g \in Seq(FileLines) : g = EmptyStack(t)
      BY StackPiece
    <2>2. \A i \in DOMAIN g : g[i].of = t /\ g[i].kind \in {"stack_start", "stack_end"}
      <3>1. g = <<Line("stack_start", t), Line("stack_end", t)>>
        BY <2>1 DEF EmptyStack
      <3>2. DOMAIN g = 1 .. 2 /\ g[1] = Line("stack_start", t) /\ g[2] = Line("stack_end", t)
        BY <3>1
      <3>3. QED
        BY <3>2 DEF Line
    <2>3. file' = file \o g /\ alive' \subseteq alive /\ t \notin alive'
      BY <1>2, <2>1
    <2>4. \A i \in DOMAIN g : g[i].kind \in Parts => Written(g[i].of)' /\ ~ Written(g[i].of)
      BY <2>2
    <2>5. \A u \in Tasks : Written(u)' /\ ~ Written(u) =>
            \/ u \notin alive' /\ \A i \in DOMAIN g : g[i].of = u => g[i].kind \notin {"userspace", "pc"}
            \/ g = StackLines(u)
      BY <2>2, <2>3
    <2>6. QED
      BY <2>3, <2>4, <2>5, FileMore
  <1>3. QED
    BY <1>1, <1>2 DEF StackOrEnd

\* The trace grows by lines that are no parts of stacks, or not at all.
LEMMA FilePlain ==
  ASSUME StackTyping, FileOK, request.ask = "trace", UNCHANGED given, alive' \subseteq alive,
         NEW g \in Seq(FileLines), file' = file \o g, \A i \in DOMAIN g : g[i].kind \notin Parts,
         \A u \in Tasks : Written(u) => Written(u)',
         \A u \in alive' : Written(u)' => Written(u),
         phase' \in Reading => g = << >> /\ (file = << >> \/ Last1.kind = "pid_end")
  PROVE  FileOK'
  <1>1. \A i \in DOMAIN g : g[i].kind \notin {"userspace", "pc"}
    BY DEF Parts
  <1>2. \A u \in Tasks : Written(u)' /\ ~ Written(u) =>
          u \notin alive' /\ \A i \in DOMAIN g : g[i].of = u => g[i].kind \notin {"userspace", "pc"}
    BY <1>1
  <1>3. \A i \in DOMAIN g : g[i].kind \in Parts => Written(g[i].of)' /\ ~ Written(g[i].of)
    OBVIOUS
  <1>4. QED
    BY <1>2, <1>3, FileMore

\* One line is added.
LEMMA OneLine ==
  ASSUME StackTyping, NEW t \in Tasks, NEW k \in Kinds
  PROVE  \E g \in Seq(FileLines) : /\ Append(file, Line(k, t)) = file \o g
                                   /\ \A i \in DOMAIN g : g[i].kind = k /\ g[i].of = t
  <1> DEFINE l == Line(k, t)
             g == <<l>>
  <1>1. l \in FileLines /\ l.kind = k /\ l.of = t
    BY LineFacts
  <1>2. Append(file, l) = file \o g
    BY <1>1, AppendIsConcat DEF StackTyping
  <1>3. g \in Seq(FileLines) /\ DOMAIN g = 1 .. 1 /\ g[1] = l
    BY <1>1, OneFacts
  <1> HIDE DEF g
  <1>4. \A i \in DOMAIN g : g[i].kind = k /\ g[i].of = t
    BY <1>1, <1>3
  <1>5. QED
    BY <1>2, <1>3, <1>4

\* The trace has what was passed: the next process,
LEMMA FileProcess ==
  ASSUME StackTyping, WriteOK, FileOK, WriteProcess
  PROVE  FileOK'
  <1> DEFINE next == {p \in Pids \cap alive : p > pid}
  <1>1. phase = "write_processes" /\ UNCHANGED <<given, alive>>
    BY DEF WriteProcess, system
  <1>2. request.ask = "trace"
    BY <1>1, AskFacts DEF Writing
  <1>3. \A t \in Tasks : Process(t) \in Pids /\ Process(t) \in Nat
    <2>1. \A t \in Tasks : Process(t) \in Pids /\ Process(t) \in Tasks
      BY TaskFacts
    <2>2. QED
      BY <2>1, TaskFacts
  <1>4. pid \in Nat
    <2>1. pid \in Tasks \cup {0}
      BY TaskFacts DEF StackTyping
    <2>2. QED
      BY <2>1, TaskFacts
  <1>5. \A t : Written(t) <=> Process(t) <= pid
    BY <1>1 DEF Written
  <1>6. \A t \in alive : t \in Tasks /\ Process(t) \in Pids \cap alive
    BY AliveFacts
  <1>7. CASE next = {}
    <2>1. phase' = "find_pid" /\ UNCHANGED file
      BY <1>7 DEF WriteProcess
    <2>2. << >> \in Seq(FileLines) /\ file' = file \o << >> /\ DOMAIN << >> = {}
      BY <2>1, ConcatEmptySeq, EmptySeq DEF StackTyping
    <2>3. \A t : Written(t)'
      BY <2>1 DEF Written
    <2>4. \A t \in alive : Written(t)
      BY <1>3, <1>4, <1>5, <1>6, <1>7
    <2>5. file = << >> \/ Last1.kind = "pid_end"
      BY <1>1 DEF WriteOK
    <2> HIDE DEF next
    <2>6. PICK g \in Seq(FileLines) : g = << >>
      BY <2>2
    <2>7. file' = file \o g /\ \A i \in DOMAIN g : g[i].kind \notin Parts
      BY <2>2, <2>6
    <2>8. QED
      BY <1>1, <1>2, <2>3, <2>4, <2>5, <2>6, <2>7, FilePlain
  <1>8. CASE next # {}
    <2>1. /\ Least(next) \in Pids \cap alive /\ Least(next) \in Tasks /\ Least(next) \in Nat
          /\ pid < Least(next) /\ \A u \in Pids \cap alive : pid < u => Least(next) <= u
      BY <1>4, <1>8, NextFacts
    <2> PICK p \in Tasks : p = Least(next)
      BY <2>1
    <2>2. pid' = p /\ file' = Append(file, Line("pid_start", p)) /\ phase' = "write_maps"
      <3>1. pid' = Least(next) /\ file' = Append(file, Line("pid_start", pid')) /\ phase' = "write_maps"
        BY <1>8 DEF WriteProcess
      <3>2. QED
        BY <3>1
    <2>3. p \in Nat /\ pid < p /\ \A u \in Pids \cap alive : pid < u => p <= u
      BY <2>1
    <2> HIDE DEF next
    <2>4. "pid_start" \in Kinds
      BY DEF Kinds
    <2>5. PICK g \in Seq(FileLines) : /\ Append(file, Line("pid_start", p)) = file \o g
                                      /\ \A i \in DOMAIN g : g[i].kind = "pid_start" /\ g[i].of = p
      BY <2>4, OneLine
    <2>6. file' = file \o g /\ \A i \in DOMAIN g : g[i].kind \notin Parts
      BY <2>2, <2>5 DEF Parts
    <2>7. \A t : Written(t)' <=> Process(t) < p
      BY <2>2 DEF Written
    <2>8. \A t \in Tasks : Written(t) => Written(t)'
      BY <1>3, <1>4, <1>5, <2>3, <2>7
    <2>9. ASSUME NEW t \in alive, Written(t)'
          PROVE  Written(t)
      <3>1. Process(t) \in Nat /\ Process(t) \in Pids \cap alive /\ Process(t) < p
        BY <1>3, <1>6, <2>7, <2>9
      <3>2. ~ (pid < Process(t))
        BY <2>3, <3>1
      <3>3. Process(t) <= pid
        BY <1>4, <3>1, <3>2
      <3>4. QED
        BY <1>5, <3>3
    <2>10. phase' \notin Reading
      BY <2>2 DEF Reading
    <2>11. QED
      BY <1>1, <1>2, <2>6, <2>8, <2>9, <2>10, FilePlain
  <1>9. QED
    BY <1>7, <1>8

\* its maps,
LEMMA FileMaps ==
  ASSUME StackTyping, WriteOK, FileOK, WriteMaps
  PROVE  FileOK'
  <1>1. phase = "write_maps" /\ phase' = "write_stack" /\ UNCHANGED <<given, alive, pid>>
    BY DEF WriteMaps, system
  <1>2. request.ask = "trace"
    BY <1>1, AskFacts DEF Writing
  <1>3. \A t : Written(t)' <=> Written(t)
    BY <1>1 DEF Written
  <1>4. \E g \in Seq(FileLines) : file' = file \o g /\ \A i \in DOMAIN g : g[i].kind \notin Parts
    <2>1. CASE pid \in alive
      <3>1. pid \in Pids
        BY <1>1 DEF WriteOK
      <3> DEFINE f == MapLines(pid)
                 n == Len(MapsOf[pid])
      <3>2. /\ f \in Seq(FileLines) /\ DOMAIN f = 1 .. n + 2 /\ n \in Nat
            /\ f[1] = Line("maps_start", pid) /\ f[n + 2] = Line("maps_end", pid)
            /\ \A i \in 1 .. n : f[i + 1] = MapLine(pid, MapsOf[pid][i])
        BY <3>1, MapLinesFacts
      <3>3. file' = file \o f
        BY <2>1 DEF WriteMaps
      <3> HIDE DEF f, n
      <3>4. \A i \in DOMAIN f : i = 1 \/ i = n + 2 \/ (i - 1 \in 1 .. n /\ i = (i - 1) + 1)
        <4>1. DOMAIN f = 1 .. n + 2 /\ n \in Nat
          BY <3>2
        <4>2. QED
          BY <4>1
      <3>5. \A i \in 1 .. n : f[i + 1].kind = "map"
        <4>1. \A p, l : MapLine(p, l).kind = "map"
          BY DEF MapLine
        <4>2. ASSUME NEW i \in 1 .. n
              PROVE  f[i + 1].kind = "map"
          <5>1. f[i + 1] = MapLine(pid, MapsOf[pid][i])
            BY <3>2
          <5>2. MapLine(pid, MapsOf[pid][i]).kind = "map"
            BY <4>1
          <5>3. QED
            BY <5>1, <5>2
        <4>3. QED
          BY <4>2
      <3>6. f[1].kind = "maps_start" /\ f[n + 2].kind = "maps_end"
        BY <3>2 DEF Line
      <3>7. ASSUME NEW i \in DOMAIN f
            PROVE  f[i].kind \in {"map", "maps_start", "maps_end"}
        <4>1. i - 1 \in 1 .. n /\ i = (i - 1) + 1 => f[i].kind = "map"
          BY <3>5
        <4>2. QED
          BY <3>4, <3>6, <4>1
      <3>8. \A i \in DOMAIN f : f[i].kind \notin Parts
        BY <3>7 DEF Parts
      <3>9. QED
        BY <3>2, <3>3, <3>8
    <2>2. CASE pid \notin alive
      <3>1. file' = file
        BY <2>2 DEF WriteMaps
      <3>2. << >> \in Seq(FileLines) /\ file' = file \o << >> /\ DOMAIN << >> = {}
        BY <3>1, ConcatEmptySeq, EmptySeq DEF StackTyping
      <3>3. QED
        BY <3>2
    <2>3. QED
      BY <2>1, <2>2
  <1>5. PICK g \in Seq(FileLines) : file' = file \o g /\ \A i \in DOMAIN g : g[i].kind \notin Parts
    BY <1>4
  <1>6. phase' \notin Reading
    BY <1>1 DEF Reading
  <1>7. QED
    BY <1>1, <1>2, <1>3, <1>5, <1>6, FilePlain

\* its main thread,
LEMMA FileMain ==
  ASSUME StackTyping, WriteOK, FileOK, WriteStack
  PROVE  FileOK'
  <1>1. phase = "write_stack" /\ phase' = "write_threads" /\ tid' = 0 /\ UNCHANGED <<given, pid>>
    BY DEF WriteStack
  <1>2. request.ask = "trace" /\ pid \in Pids /\ pid \in Tasks /\ Process(pid) = pid /\ pid \in Nat
    BY <1>1, AskFacts, TaskFacts DEF Writing, WriteOK
  <1>3. \A t : Written(t) <=> Process(t) < pid
    BY <1>1 DEF Written
  <1>4. \A t : Written(t)' <=> Process(t) < pid \/ (Process(t) = pid /\ (t = pid \/ t <= 0))
    BY <1>1 DEF Written
  <1>5. \A t \in Tasks : t \in Nat /\ 0 < t
    BY TaskFacts
  <1>6. \A t \in Tasks : Written(t) => Written(t)'
    BY <1>3, <1>4
  <1>7. ASSUME NEW t \in Tasks, Written(t)', ~ Written(t)
        PROVE  t = pid
    <2>1. t \in Nat /\ 0 < t
      BY <1>5
    <2>2. ~ (t <= 0)
      BY <2>1
    <2>3. QED
      BY <1>3, <1>4, <1>7, <2>2
  <1>8. phase' \notin Reading
    BY <1>1 DEF Reading
  <1>9. CASE pid \in alive
    <2> PICK u \in Tasks : u = pid
      BY <1>2
    <2>1. StackOrEnd(u)
      BY <1>9 DEF WriteStack
    <2>2. Written(u)' /\ ~ Written(u)
      BY <1>2, <1>3, <1>4
    <2>3. alive' \subseteq Tasks
      BY <2>1 DEF StackOrEnd, system, StackTyping
    <2>4. \A t \in alive' : Written(t)' /\ ~ Written(t) => t = u
      BY <1>7, <2>3
    <2>5. QED
      BY <1>1, <1>2, <1>6, <1>8, <2>1, <2>2, <2>4, FileStack
  <1>10. CASE pid \notin alive
    <2>1. file' = file /\ alive' = alive
      BY <1>10 DEF WriteStack, system
    <2>2. << >> \in Seq(FileLines) /\ file' = file \o << >> /\ DOMAIN << >> = {}
      BY <2>1, ConcatEmptySeq, EmptySeq DEF StackTyping
    <2>3. PICK g \in Seq(FileLines) : g = << >>
      BY <2>2
    <2>4. file' = file \o g /\ \A i \in DOMAIN g : g[i].kind \notin Parts
      BY <2>2, <2>3
    <2>5. \A u \in alive' : u \in Tasks /\ u # pid
      BY <1>10, <2>1 DEF StackTyping
    <2>6. \A u \in alive' : Written(u)' => Written(u)
      BY <1>7, <2>5
    <2>7. QED
      BY <1>1, <1>2, <1>6, <1>8, <2>1, <2>4, <2>6, FilePlain
  <1>11. QED
    BY <1>9, <1>10

\* and the next thread.
LEMMA FileThread ==
  ASSUME StackTyping, WriteOK, FileOK, WriteThread
  PROVE  FileOK'
  <1> DEFINE next == {t \in Threads[pid] \cap alive : t > tid}
  <1>1. phase = "write_threads" /\ UNCHANGED <<given, pid>>
    BY DEF WriteThread
  <1>2. request.ask = "trace" /\ pid \in Pids /\ pid \in Tasks /\ pid \in Nat /\ tid \in Nat
    BY <1>1, AskFacts, TaskFacts DEF Writing, WriteOK, StackTyping
  <1>3. \A t \in Tasks : /\ Process(t) \in Nat /\ t \in Nat
                         /\ Process(t) = pid => t = pid \/ t \in Threads[pid]
    BY TaskFacts
  <1>4. \A t : Written(t) <=> Process(t) < pid \/ (Process(t) = pid /\ (t = pid \/ t <= tid))
    BY <1>1 DEF Written
  <1>5. CASE next = {}
    <2>1. file' = Append(file, Line("pid_end", pid)) /\ phase' = "write_processes" /\ alive' = alive
      BY <1>5 DEF WriteThread, system
    <2>2. PICK g \in Seq(FileLines) : /\ Append(file, Line("pid_end", pid)) = file \o g
                                      /\ \A i \in DOMAIN g : g[i].kind = "pid_end" /\ g[i].of = pid
      BY <1>2, OneLine DEF Kinds
    <2>3. file' = file \o g /\ \A i \in DOMAIN g : g[i].kind \notin Parts
      BY <2>1, <2>2 DEF Parts
    <2>4. \A t : Written(t)' <=> Process(t) <= pid
      BY <1>1, <2>1 DEF Written
    <2>5. \A t \in Tasks : Written(t) => Written(t)'
      BY <1>2, <1>3, <1>4, <2>4
    <2>6. ASSUME NEW t \in alive', Written(t)'
          PROVE  Written(t)
      <3>1. t \in Tasks /\ t \in Nat /\ Process(t) \in Nat /\ Process(t) <= pid /\ t \in alive
        BY <1>3, <2>1, <2>4, <2>6 DEF StackTyping
      <3>2. t \in Threads[pid] => t <= tid
        BY <1>2, <1>5, <3>1
      <3>3. QED
        BY <1>2, <1>3, <1>4, <3>1, <3>2
    <2>7. phase' \notin Reading
      BY <2>1 DEF Reading
    <2>8. QED
      BY <1>1, <1>2, <2>1, <2>3, <2>5, <2>6, <2>7, FilePlain
  <1>6. CASE next # {}
    <2>0. /\ Least(next) \in Threads[pid] \cap alive /\ Least(next) \in Tasks /\ Least(next) \in Nat
          /\ tid < Least(next) /\ \A t \in Threads[pid] \cap alive : tid < t => Least(next) <= t
      BY <1>2, <1>6, NextFacts
    <2> PICK u \in Tasks : u = Least(next)
      BY <2>0
    <2>1. tid' = u /\ StackOrEnd(u) /\ phase' = "write_threads"
      <3>1. tid' = Least(next) /\ StackOrEnd(tid') /\ phase' = "write_threads"
        BY <1>1, <1>6 DEF WriteThread
      <3>2. QED
        BY <3>1
    <2>2. /\ u \in Threads[pid] \cap alive /\ u \in Tasks /\ u \in Nat /\ tid < u
          /\ \A t \in Threads[pid] \cap alive : tid < t => u <= t
      BY <2>0
    <2> HIDE DEF next
    <2>3. u \notin Pids /\ Process(u) = pid /\ u # pid
      BY <1>2, <2>2, TaskFacts
    <2>4. \A t : Written(t)' <=> Process(t) < pid \/ (Process(t) = pid /\ (t = pid \/ t <= u))
      BY <1>1, <2>1 DEF Written
    <2>5. Written(u)' /\ ~ Written(u)
      BY <1>2, <1>4, <2>2, <2>3, <2>4
    <2>6. \A t \in Tasks : Written(t) => Written(t)'
      BY <1>2, <1>3, <1>4, <2>2, <2>4
    <2>7. alive' \subseteq alive /\ alive \subseteq Tasks
      BY <2>1 DEF StackOrEnd, system, StackTyping
    <2>8. ASSUME NEW t \in alive', Written(t)', ~ Written(t)
          PROVE  t = u
      <3>1. t \in Tasks /\ t \in Nat /\ Process(t) \in Nat /\ t \in alive
        BY <1>3, <2>7, <2>8
      <3>2. t \in Threads[pid] /\ tid < t => u <= t
        BY <2>2, <3>1
      <3>3. QED
        BY <1>2, <1>3, <1>4, <2>2, <2>4, <2>8, <3>1, <3>2
    <2>9. phase' \notin Reading
      BY <2>1 DEF Reading
    <2>10. QED
      BY <1>1, <1>2, <2>1, <2>2, <2>5, <2>6, <2>8, <2>9, FileStack
  <1>7. QED
    BY <1>5, <1>6

-----------------------------------------------------------------------------
(* What was read of the trace is in the output.                            *)

\* Where the lines of the stack of a task are.
LEMMA LineAt ==
  ASSUME StackTyping, NEW t \in Tasks, NEW b \in Nat, BlockAt(file, t, b), NEW i \in DOMAIN file
  PROVE  /\ file[i].of = t /\ file[i].kind = "kernel" <=> i = b + 2
         /\ file[i].of = t /\ file[i].kind = "pc" <=> b + Ahead(t) < i /\ i <= b + Ahead(t) + Depth(t)
         /\ file[i].of = t /\ file[i].kind = "pc" => file[i].pc = UserPcs(t)[i - (b + Ahead(t))]
         /\ file[i].of = t /\ file[i].kind = "stack_end" <=> i = b + Ahead(t) + Depth(t) + 1
  <1> DEFINE a == Ahead(t)
             d == Depth(t)
  <1>1. file \in Seq(FileLines) /\ i \in Nat /\ d \in Nat /\ a \in Nat
    <2>1. file \in Seq(FileLines)
      BY DEF StackTyping
    <2>2. i \in Nat
      BY <2>1, SeqFacts
    <2>3. d \in Nat /\ a \in {2, 3}
      BY AheadFacts
    <2>4. QED
      BY <2>1, <2>2, <2>3
  <1>2. file[i].of = t =>
          /\ file[i].kind = "kernel" <=> i = b + 2
          /\ file[i].kind = "pc" <=> b + a < i /\ i <= b + a + d
          /\ file[i].kind = "pc" => file[i].pc = UserPcs(t)[i - (b + a)]
          /\ file[i].kind = "stack_end" <=> i = b + a + d + 1
    BY <1>1, BlockLines
  <1>3. /\ file[b + 2] = Line("kernel", t)
        /\ \A j \in 1 .. d : file[b + a + j] = PcLine(t, UserPcs(t)[j])
        /\ file[b + a + d + 1] = Line("stack_end", t)
    BY DEF BlockAt
  <1> HIDE DEF a, d
  <1>4. i = b + 2 => file[i].of = t
    BY <1>3 DEF Line
  <1>5. i = b + a + d + 1 => file[i].of = t
    BY <1>3 DEF Line
  <1>6. b + a < i /\ i <= b + a + d => file[i].of = t
    <2>1. b + a < i /\ i <= b + a + d => i - (b + a) \in 1 .. d /\ i = b + a + (i - (b + a))
      BY <1>1
    <2>2. i - (b + a) \in 1 .. d /\ i = b + a + (i - (b + a)) => file[i] = PcLine(t, UserPcs(t)[i - (b + a)])
      BY <1>3
    <2>3. QED
      BY <2>1, <2>2 DEF PcLine
  <1>7. QED
    BY <1>2, <1>4, <1>5, <1>6 DEF a, d

\* What is in the output before anything was read.
LEMMA ReadUpStart ==
  ASSUME StackTyping, NEW t \in Tasks, NEW b \in Nat
  PROVE  ReadUp(<< >>, 0, t, b)
  <1>1. Ahead(t) \in {2, 3} /\ Depth(t) \in Nat
    BY AheadFacts
  <1>2. Seen(0, t, b) = 0 /\ 0 < b + 2 /\ 0 < b + Ahead(t) + Depth(t) + 1
    BY <1>1 DEF Seen
  <1>3. \A c : KindIn(<< >>, t, c) = {} /\ AddrsIn(<< >>, t) = {}
    BY NoLines
  <1>4. AddrsIn(<< >>, t) = {0 + i : i \in 1 .. 0} /\ 0 \in 0 .. Len(<< >>) /\ \A i \in 1 .. 0 : FALSE
    BY <1>3
  <1>5. QED
    BY <1>2, <1>3, <1>4 DEF ReadUp

\* One more line is read, and add is what comes into the output.
LEMMA ReadUpMore ==
  ASSUME StackTyping, NEW t \in Tasks, NEW b \in Nat, BlockAt(file, t, b), NEW n \in Nat, n < Len(file),
         NEW w \in Seq(OutLines), NEW add \in Seq(OutLines), ReadUp(w, n, t, b),
         KindIn(add, t, "kernel") = (IF file[n + 1].of = t /\ file[n + 1].kind = "kernel" THEN {1} ELSE {}),
         (\A u \in Tasks : Short(u)) =>
           KindIn(add, t, "stack_end") = (IF file[n + 1].of = t /\ file[n + 1].kind = "stack_end" THEN {1} ELSE {}),
         Short(t) =>
           IF file[n + 1].of = t /\ file[n + 1].kind = "pc"
           THEN AddrsIn(add, t) = {1} /\ add[1].pc = file[n + 1].pc /\ Len(add) = 1
           ELSE AddrsIn(add, t) = {}
  PROVE  ReadUp(w \o add, n + 1, t, b)
  <1> DEFINE a == Ahead(t)
             d == Depth(t)
             l == file[n + 1]
             v == w \o add
             i == n + 1
  <1>1. i \in DOMAIN file /\ a \in {2, 3} /\ d \in Nat
    <2>1. Len(file) \in Nat /\ DOMAIN file = 1 .. Len(file)
      BY SeqFacts DEF StackTyping
    <2>2. i \in DOMAIN file
      BY <2>1
    <2>3. a \in {2, 3} /\ d \in Nat
      BY AheadFacts
    <2>4. QED
      BY <2>2, <2>3
  <1>2. /\ l.of = t /\ l.kind = "kernel" <=> i = b + 2
        /\ l.of = t /\ l.kind = "pc" <=> b + a < i /\ i <= b + a + d
        /\ l.of = t /\ l.kind = "pc" => l.pc = UserPcs(t)[i - (b + a)]
        /\ l.of = t /\ l.kind = "stack_end" <=> i = b + a + d + 1
    BY <1>1, LineAt
  <1>3. /\ KindIn(w \o add, t, t) = KindIn(w, t, t) \cup {Len(w) + j : j \in KindIn(add, t, t)}
        /\ AddrsIn(w \o add, t) = AddrsIn(w, t) \cup {Len(w) + j : j \in AddrsIn(add, t)}
    BY PartJoin
  <1>4. AddrsIn(v, t) = AddrsIn(w, t) \cup {Len(w) + j : j \in AddrsIn(add, t)}
    BY <1>3
  <1>5. /\ Len(w) \in Nat /\ Len(add) \in Nat /\ DOMAIN add = 1 .. Len(add) /\ v \in Seq(OutLines)
        /\ Len(v) = Len(w) + Len(add) /\ DOMAIN v = 1 .. Len(w) + Len(add)
        /\ \A j \in 1 .. Len(w) : v[j] = w[j]
        /\ \A j \in 1 .. Len(add) : v[Len(w) + j] = add[j]
    BY JoinFacts, SeqFacts
  <1>6. \A s : /\ KindIn(add, t, s) = {} =>
                    KindIn(v, t, s) = KindIn(w, t, s) /\ (Once(w, t, s) => Once(v, t, s))
               /\ KindIn(w, t, s) = {} /\ Once(add, t, s) => Once(v, t, s)
    BY OnceJoin
  <1>7. \A s : KindIn(add, t, s) = {1} => Once(add, t, s)
    BY DEF Once, KindIn
  <1> HIDE DEF v, l, a, d, i
  <1>8. IF i < b + 2 THEN KindIn(v, t, "kernel") = {} ELSE Once(v, t, "kernel")
    <2>1. IF n < b + 2 THEN KindIn(w, t, "kernel") = {} ELSE Once(w, t, "kernel")
      BY DEF ReadUp
    <2>2. CASE i = b + 2
      <3>1. n < b + 2 /\ KindIn(add, t, "kernel") = {1}
        BY <1>2, <2>2 DEF i, l
      <3>2. QED
        BY <1>6, <1>7, <2>1, <2>2, <3>1
    <2>3. CASE i # b + 2
      <3>1. KindIn(add, t, "kernel") = {} /\ (i < b + 2 <=> n < b + 2)
        BY <1>2, <2>3 DEF i, l
      <3>2. QED
        BY <1>6, <2>1, <3>1
    <2>4. QED
      BY <2>2, <2>3
  <1>9. ASSUME \A u \in Tasks : Short(u)
        PROVE  IF i < b + a + d + 1 THEN KindIn(v, t, "stack_end") = {} ELSE Once(v, t, "stack_end")
    <2>1. IF n < b + a + d + 1 THEN KindIn(w, t, "stack_end") = {} ELSE Once(w, t, "stack_end")
      BY <1>9 DEF ReadUp, a, d
    <2>2. CASE i = b + a + d + 1
      <3>1. n < b + a + d + 1 /\ KindIn(add, t, "stack_end") = {1}
        BY <1>1, <1>2, <1>9, <2>2 DEF i, l
      <3>2. QED
        BY <1>1, <1>6, <1>7, <2>1, <2>2, <3>1
    <2>3. CASE i # b + a + d + 1
      <3>1. KindIn(add, t, "stack_end") = {}
        BY <1>2, <1>9, <2>3 DEF l
      <3>2. i < b + a + d + 1 <=> n < b + a + d + 1
        BY <1>1, <2>3 DEF i
      <3>3. QED
        BY <1>6, <2>1, <3>1, <3>2
    <2>4. QED
      BY <2>2, <2>3
  <1>10. ASSUME Short(t)
         PROVE  \E k \in 0 .. Len(v) :
                  /\ AddrsIn(v, t) = {k + j : j \in 1 .. Seen(i, t, b)}
                  /\ \A j \in 1 .. Seen(i, t, b) : v[k + j].pc = UserPcs(t)[j]
                  /\ 0 < Seen(i, t, b) /\ Seen(i, t, b) < d => k + Seen(i, t, b) = Len(v)
    <2> DEFINE m == Seen(n, t, b)
               m1 == Seen(i, t, b)
    <2>1. PICK k \in 0 .. Len(w) : /\ AddrsIn(w, t) = {k + j : j \in 1 .. m}
                                   /\ \A j \in 1 .. m : w[k + j].pc = UserPcs(t)[j]
                                   /\ 0 < m /\ m < d => k + m = Len(w)
      BY <1>10 DEF ReadUp, d
    <2>2. m = (IF n < b + a THEN 0 ELSE IF n > b + a + d THEN d ELSE n - (b + a))
      BY DEF Seen, a, d
    <2>3. m1 = (IF i < b + a THEN 0 ELSE IF i > b + a + d THEN d ELSE i - (b + a))
      BY DEF Seen, a, d
    <2> HIDE DEF m, m1
    <2>4. AddrsIn(w, t) \subseteq 1 .. Len(w)
      BY SeqFacts DEF AddrsIn
    <2>5. m \in Nat /\ \A j \in 1 .. m : k + j \in 1 .. Len(w)
      <3>1. m \in Nat
        BY <1>1, <2>2
      <3>2. QED
        BY <2>1, <2>4, <3>1
    <2>6. \A j \in 1 .. m : v[k + j].pc = UserPcs(t)[j]
      BY <1>5, <2>1, <2>5
    <2>7. CASE b + a < i /\ i <= b + a + d
      <3>1. AddrsIn(add, t) = {1} /\ add[1].pc = UserPcs(t)[i - (b + a)] /\ Len(add) = 1
        BY <1>2, <1>10, <2>7 DEF l
      <3>2. m = n - (b + a) /\ m1 = m + 1 /\ m1 = i - (b + a) /\ m < d
        BY <1>1, <2>2, <2>3, <2>7 DEF i
      <3>3. AddrsIn(v, t) = AddrsIn(w, t) \cup {Len(w) + 1} /\ Len(v) = Len(w) + 1
        BY <1>4, <1>5, <3>1
      <3>4. v[Len(w) + 1].pc = UserPcs(t)[m1]
        <4>1. v[Len(w) + 1] = add[1]
          BY <1>5, <3>1
        <4>2. QED
          BY <3>1, <3>2, <4>1
      <3>5. CASE m = 0
        <4>1. AddrsIn(w, t) = {} /\ m1 = 1
          BY <2>1, <3>2, <3>5
        <4>2. AddrsIn(v, t) = {Len(w) + j : j \in 1 .. 1}
          BY <3>3, <4>1
        <4>3. QED
          BY <1>5, <3>3, <3>4, <4>1, <4>2 DEF m1
      <3>6. CASE m > 0
        <4>1. k + m = Len(w) /\ k + m1 = Len(w) + 1
          <5>1. 0 < m /\ m < d
            BY <2>5, <3>2, <3>6
          <5>2. k + m = Len(w)
            BY <2>1, <5>1
          <5>3. k + (m + 1) = (k + m) + 1
            BY <2>5
          <5>4. QED
            BY <3>2, <5>2, <5>3
        <4>2. AddrsIn(v, t) = {k + j : j \in 1 .. m1}
          <5>1. {k + j : j \in 1 .. m1} = {k + j : j \in 1 .. m} \cup {k + m1}
            <6>1. 1 .. m1 = 1 .. m \cup {m1}
              BY <2>5, <3>2
            <6>2. QED
              BY <6>1
          <5>2. QED
            BY <2>1, <3>3, <4>1, <5>1
        <4>3. \A j \in 1 .. m1 : v[k + j].pc = UserPcs(t)[j]
          <5>1. \A j \in 1 .. m1 : j \in 1 .. m \/ j = m1
            BY <2>5, <3>2
          <5>2. v[k + m1].pc = UserPcs(t)[m1]
            BY <3>4, <4>1
          <5>3. QED
            BY <2>6, <5>1, <5>2
        <4>4. k \in 0 .. Len(v) /\ k + m1 = Len(v)
          BY <1>5, <3>3, <4>1
        <4>5. QED
          BY <4>2, <4>3, <4>4 DEF m1
      <3>7. m = 0 \/ m > 0
        BY <2>5
      <3>8. QED
        BY <3>5, <3>6, <3>7
    <2>8. CASE ~ (b + a < i /\ i <= b + a + d)
      <3>1. AddrsIn(add, t) = {}
        BY <1>2, <1>10, <2>8 DEF l
      <3>2. m1 = m /\ (m = 0 \/ m = d)
        <4>1. b \in Nat /\ n \in Nat /\ a \in Nat /\ d \in Nat /\ i = n + 1
          BY <1>1 DEF i
        <4>2. CASE i <= b + a
          <5>1. m = 0
            BY <2>2, <4>1, <4>2
          <5>2. m1 = 0
            BY <2>3, <4>1, <4>2
          <5>3. QED
            BY <5>1, <5>2
        <4>3. CASE i > b + a + d
          <5>1. m = d
            BY <2>2, <4>1, <4>3
          <5>2. m1 = d
            BY <2>3, <4>1, <4>3
          <5>3. QED
            BY <5>1, <5>2
        <4>4. QED
          BY <2>8, <4>1, <4>2, <4>3
      <3>3. AddrsIn(v, t) = AddrsIn(w, t)
        BY <1>4, <3>1
      <3>4. k \in 0 .. Len(v)
        BY <1>5
      <3>5. ~ (0 < m /\ m < d)
        BY <1>1, <3>2
      <3>6. QED
        BY <2>1, <2>6, <3>2, <3>3, <3>4, <3>5 DEF m1
    <2>9. QED
      BY <2>7, <2>8
  <1>11. QED
    BY <1>8, <1>9, <1>10 DEF ReadUp, v, a, d, i

\* Names do not change whose address it is.
Alike(v, w) ==
  /\ Len(w) = Len(v)
  /\ \A i \in DOMAIN v : /\ w[i].of = v[i].of
                         /\ \/ w[i].kind = v[i].kind /\ w[i].pc = v[i].pc
                            \/ w[i].kind = "frame" /\ v[i].kind = "pc" /\ w[i].pc = v[i].pc

\* What was read of a stack is shown alike before it is given names and after.
LEMMA ReadUpAlike ==
  ASSUME NEW v \in Seq(OutLines), NEW w \in Seq(OutLines), Alike(v, w), NEW t \in Tasks, NEW b \in Nat, NEW n \in Nat,
         StackTyping, ReadUp(v, n, t, b)
  PROVE  ReadUp(w, n, t, b)
  <1>1. Len(v) \in Nat /\ DOMAIN v = 1 .. Len(v) /\ DOMAIN w = 1 .. Len(v) /\ Len(w) = Len(v)
    BY SeqFacts DEF Alike
  <1>2. \A c : c \notin {"frame", "pc"} => KindIn(w, t, c) = KindIn(v, t, c)
    BY <1>1 DEF KindIn, Alike
  <1>3. \A c : c \notin {"frame", "pc"} => (Once(v, t, c) => Once(w, t, c))
    BY <1>1, <1>2 DEF Once
  <1>4. AddrsIn(w, t) = AddrsIn(v, t)
    BY <1>1 DEF AddrsIn, Alike
  <1>5. Short(t) =>
          \E k \in 0 .. Len(w) :
            /\ AddrsIn(w, t) = {k + i : i \in 1 .. Seen(n, t, b)}
            /\ \A i \in 1 .. Seen(n, t, b) : w[k + i].pc = UserPcs(t)[i]
            /\ 0 < Seen(n, t, b) /\ Seen(n, t, b) < Depth(t) => k + Seen(n, t, b) = Len(w)
    <2> HAVE Short(t)
    <2> DEFINE m == Seen(n, t, b)
    <2>1. PICK k \in 0 .. Len(v) : /\ AddrsIn(v, t) = {k + i : i \in 1 .. m}
                                   /\ \A i \in 1 .. m : v[k + i].pc = UserPcs(t)[i]
                                   /\ 0 < m /\ m < Depth(t) => k + m = Len(v)
      BY DEF ReadUp
    <2> HIDE DEF m
    <2>2. \A i \in 1 .. m : k + i \in DOMAIN v
      <3>1. AddrsIn(v, t) \subseteq DOMAIN v
        BY DEF AddrsIn
      <3>2. QED
        BY <2>1, <3>1
    <2>3. \A i \in 1 .. m : w[k + i].pc = v[k + i].pc
      BY <2>2 DEF Alike
    <2>4. QED
      BY <1>1, <1>4, <2>1, <2>3 DEF m
  <1>6. QED
    BY <1>2, <1>3, <1>5 DEF ReadUp

\* The lines of a stack are replaced by those with names.
LEMMA ShownNamed ==
  ASSUME StackTyping, Loaded(milist, Reads)
  PROVE  LET g == Named(table, milist, pending, FALSE)
         IN  /\ g \in Seq(OutLines) /\ out \o g \in Seq(OutLines) /\ Shown \in Seq(OutLines)
             /\ Alike(Shown, out \o g)
  <1> DEFINE g == Named(table, milist, pending, FALSE)
             v == out \o pending
             w == out \o g
  <1>1. pending \in Seq(PcSet) /\ out \in Seq(OutLines) /\ FALSE \in BOOLEAN
    BY DEF StackTyping
  <1>2. /\ g \in Seq(OutLines) /\ Len(g) = Len(pending) /\ DOMAIN g = DOMAIN pending
        /\ \A i \in DOMAIN pending : g[i].of = pending[i].of /\ g[i].pc = pending[i].pc /\ g[i].kind = "frame"
    BY <1>1, NamedOut
  <1> HIDE DEF g
  <1>3. /\ Len(pending) \in Nat /\ DOMAIN pending = 1 .. Len(pending)
        /\ \A i \in DOMAIN pending : pending[i] \in PcSet /\ pending[i].kind = "pc"
    <2>1. /\ Len(pending) \in Nat /\ DOMAIN pending = 1 .. Len(pending)
          /\ \A i \in DOMAIN pending : pending[i] \in PcSet
      BY <1>1, SeqFacts
    <2>2. QED
      BY <2>1 DEF PcSet
  <1>4. pending \in Seq(OutLines)
    <2>1. PcSet \subseteq OutLines
      BY DEF OutLines, FileLines
    <2>2. QED
      BY <1>1, <2>1
  <1>5. /\ v \in Seq(OutLines) /\ Len(v) = Len(out) + Len(pending) /\ Len(out) \in Nat
        /\ DOMAIN v = 1 .. Len(out) + Len(pending)
        /\ \A i \in 1 .. Len(out) : v[i] = out[i]
        /\ \A i \in 1 .. Len(pending) : v[Len(out) + i] = pending[i]
    BY <1>1, <1>4, JoinFacts, SeqFacts
  <1>6. /\ w \in Seq(OutLines) /\ Len(w) = Len(out) + Len(g)
        /\ \A i \in 1 .. Len(out) : w[i] = out[i]
        /\ \A i \in 1 .. Len(g) : w[Len(out) + i] = g[i]
    <2>1. /\ out \o g \in Seq(OutLines) /\ Len(out \o g) = Len(out) + Len(g)
          /\ \A i \in 1 .. Len(out) : (out \o g)[i] = out[i]
          /\ \A i \in 1 .. Len(g) : (out \o g)[Len(out) + i] = g[i]
      <3>1. out \in Seq(OutLines) /\ g \in Seq(OutLines)
        BY <1>1, <1>2
      <3>2. QED
        BY <3>1, JoinFacts
    <2>2. QED
      BY <2>1
  <1> HIDE DEF v, w
  <1>7. \A i \in DOMAIN v : i \in 1 .. Len(out) \/ (i - Len(out) \in 1 .. Len(pending) /\ i = Len(out) + (i - Len(out)))
    BY <1>3, <1>5
  <1>8. \A i \in 1 .. Len(out) : w[i] = v[i]
    BY <1>5, <1>6
  <1>9. \A j \in 1 .. Len(pending) :
          LET i == Len(out) + j
          IN  w[i].of = v[i].of /\ w[i].kind = "frame" /\ v[i].kind = "pc" /\ w[i].pc = v[i].pc
    BY <1>2, <1>3, <1>5, <1>6
  <1>10. \A i \in DOMAIN v : /\ w[i].of = v[i].of
                             /\ \/ w[i].kind = v[i].kind /\ w[i].pc = v[i].pc
                                \/ w[i].kind = "frame" /\ v[i].kind = "pc" /\ w[i].pc = v[i].pc
    <2> TAKE i \in DOMAIN v
    <2>1. CASE i \in 1 .. Len(out)
      BY <1>8, <2>1
    <2>2. CASE i - Len(out) \in 1 .. Len(pending) /\ i = Len(out) + (i - Len(out))
      BY <1>9, <2>2
    <2>3. QED
      BY <1>7, <2>1, <2>2
  <1>11. Len(w) = Len(v)
    BY <1>2, <1>5, <1>6
  <1>12. Alike(v, w)
    BY <1>10, <1>11 DEF Alike
  <1>13. QED
    BY <1>2, <1>5, <1>6, <1>12 DEF Shown, v, w, g

\* The stack that is cut is longer than the others.
LEMMA FullFacts ==
  ASSUME StackTyping, ReadOK, WaitOK, FileOK, Piece(file), phase = "user", request.ask = "trace",
         pos < Len(file), Full(pending)
  PROVE  ~ Short(Now.of)
  <1>1. /\ pos \in DOMAIN file /\ pos + 1 \in DOMAIN file /\ Now = file[pos + 1] /\ Now.of \in Tasks
        /\ file[pos].of \in Tasks /\ pos \in Nat
    <2>1. pos > 0 /\ pos \in Nat
      BY DEF ReadOK, StackTyping
    <2>2. pos \in DOMAIN file /\ file[pos] \in FileLines
      BY <2>1, BeforeFacts
    <2>3. pos + 1 \in DOMAIN file /\ Now = file[pos + 1] /\ Now \in FileLines
      BY NowFacts
    <2>4. QED
      BY <2>1, <2>2, <2>3, KindFacts
  <1>2. StackDepth \in Nat /\ Len(pending) \in Nat /\ Len(pending) > StackDepth - 2
    BY LimitsAssumption, SeqFacts DEF StackTyping, Full
  <1>3. CASE Len(pending) = 0
    <2>1. Depth(Now.of) \in Nat
      BY <1>1, AheadFacts
    <2>2. QED
      BY <1>2, <1>3, <2>1 DEF Short
  <1>4. CASE Len(pending) > 0
    <2> DEFINE u == file[pos].of
               a == Ahead(u)
               d == Depth(u)
               q == Len(pending)
    <2>1. q \in Nat /\ q > 0 /\ q > StackDepth - 2 /\ \A i \in 1 .. q : file[pos + 1 - i].kind = "pc"
      BY <1>2, <1>4 DEF WaitOK
    <2>2. file[pos].kind = "pc"
      <3>1. 1 \in 1 .. q /\ pos + 1 - 1 = pos
        BY <1>1, <2>1
      <3>2. QED
        BY <2>1, <3>1
    <2>3. HasUser(u) /\ Written(u)
      BY <1>1, <2>2 DEF HasUser, Written
    <2>4. PICK b \in 0 .. Len(file) : BlockAt(file, u, b)
      BY <1>1, <2>3 DEF FileOK
    <2>5. b \in Nat /\ d \in Nat /\ a \in {2, 3} /\ (a = 2 => d = 0) /\ (a = 3 => stack[u].user = TRUE)
      <3>1. d \in Nat /\ a \in {2, 3} /\ (a = 2 => d = 0) /\ (a = 3 => stack[u].user = TRUE)
        BY <1>1, AheadFacts
      <3>2. QED
        BY <3>1
    <2>6. b + a < pos /\ pos <= b + a + d
      BY <1>1, <2>2, <2>4, <2>5, LineAt
    <2>7. /\ file[pos + 1].of = u /\ file[pos + 1].kind = "pc" <=> b + a < pos + 1 /\ pos + 1 <= b + a + d
          /\ file[pos + 1].of = u /\ file[pos + 1].kind = "stack_end" <=> pos + 1 = b + a + d + 1
      BY <1>1, <2>4, <2>5, LineAt
    <2>8. a = 3 /\ file[b + 3].kind = "userspace"
      <3>1. a = 3
        BY <1>1, <2>5, <2>6
      <3>2. file[b + 3] = Line("userspace", u)
        BY <2>4, <2>5, <3>1 DEF BlockAt
      <3>3. QED
        BY <3>1, <3>2 DEF Line
    <2> HIDE DEF u, a, d, q
    <2>9. q <= pos - (b + 3)
      <3> SUFFICES ASSUME q > pos - (b + 3)
                   PROVE  FALSE
        BY <1>1, <2>1, <2>5
      <3>1. pos + 1 - (b + 3) \in 1 .. q /\ pos + 1 - (pos + 1 - (b + 3)) = b + 3
        <4>1. pos \in Nat /\ q \in Nat /\ b \in Nat /\ q > pos - (b + 3)
          BY <1>1, <2>1, <2>5
        <4>2. b + 3 < pos
          BY <2>6, <2>8
        <4>3. QED
          BY <4>1, <4>2
      <3>2. file[b + 3].kind = "pc"
        BY <2>1, <3>1
      <3>3. QED
        BY <2>8, <3>2
    <2>10. d > StackDepth - 2
      BY <1>1, <1>2, <2>1, <2>5, <2>6, <2>8, <2>9
    <2>11. file[pos + 1].of = u
      <3>1. (b + a < pos + 1 /\ pos + 1 <= b + a + d) \/ pos + 1 = b + a + d + 1
        BY <1>1, <2>5, <2>6, <2>8
      <3>2. QED
        BY <2>7, <3>1
    <2>12. QED
      BY <1>1, <1>2, <2>5, <2>10, <2>11 DEF Short, d
  <1>5. QED
    BY <1>2, <1>3, <1>4

\* What one line of the trace brings.
LEMMA NowAdd ==
  ASSUME StackTyping, pos < Len(file), NEW t \in Tasks
  PROVE  LET add == <<Now>>
         IN  /\ add \in Seq(OutLines) /\ Len(add) = 1 /\ add[1] = Now
             /\ KindIn(add, t, "kernel") = (IF Now.of = t /\ Now.kind = "kernel" THEN {1} ELSE {})
             /\ KindIn(add, t, "stack_end") = (IF Now.of = t /\ Now.kind = "stack_end" THEN {1} ELSE {})
             /\ AddrsIn(add, t) = (IF Now.of = t /\ Now.kind = "pc" THEN {1} ELSE {})
  <1> DEFINE add == <<Now>>
  <1>1. Now \in OutLines /\ Now.kind # "frame"
    BY NowFacts
  <1>2. add \in Seq(OutLines) /\ Len(add) = 1 /\ DOMAIN add = 1 .. 1 /\ add[1] = Now
    BY <1>1, OneFacts
  <1> HIDE DEF add
  <1>3. DOMAIN add = {1}
    BY <1>2
  <1>4. /\ KindIn(add, t, "kernel") = (IF Now.of = t /\ Now.kind = "kernel" THEN {1} ELSE {})
        /\ KindIn(add, t, "stack_end") = (IF Now.of = t /\ Now.kind = "stack_end" THEN {1} ELSE {})
    BY <1>2, <1>3 DEF KindIn
  <1>5. AddrsIn(add, t) = (IF Now.of = t /\ Now.kind = "pc" THEN {1} ELSE {})
    BY <1>1, <1>2, <1>3 DEF AddrsIn
  <1>6. QED
    BY <1>2, <1>4, <1>5 DEF add

\* A fact about what was read, after a step.
LEMMA ReadUpNew ==
  ASSUME stack' = stack, NEW v, NEW n, Shown' = v, pos' = n, NEW t, NEW b, ReadUp(v, n, t, b)
  PROVE  ReadUp(Shown, pos, t, b)'
  <1>1. \A u : Depth(u)' = Depth(u) /\ Ahead(u)' = Ahead(u) /\ UserPcs(u)' = UserPcs(u) /\ (Short(u)' <=> Short(u))
    BY DEF Depth, Ahead, UserPcs, Short
  <1>2. (IF pos < b + 2 THEN KindIn(Shown, t, "kernel") = {} ELSE Once(Shown, t, "kernel"))'
    <2>1. IF n < b + 2 THEN KindIn(v, t, "kernel") = {} ELSE Once(v, t, "kernel")
      BY DEF ReadUp
    <2>2. QED
      BY <2>1 DEF KindIn, Once
  <1>3. ((\A u \in Tasks : Short(u)) =>
           IF pos < b + Ahead(t) + Depth(t) + 1 THEN KindIn(Shown, t, "stack_end") = {}
           ELSE Once(Shown, t, "stack_end"))'
    <2>1. (\A u \in Tasks : Short(u)) =>
            IF n < b + Ahead(t) + Depth(t) + 1 THEN KindIn(v, t, "stack_end") = {} ELSE Once(v, t, "stack_end")
      BY DEF ReadUp
    <2>2. QED
      BY <1>1, <2>1 DEF KindIn, Once
  <1>4. (Short(t) =>
           \E k \in 0 .. Len(Shown) :
             /\ AddrsIn(Shown, t) = {k + i : i \in 1 .. Seen(pos, t, b)}
             /\ \A i \in 1 .. Seen(pos, t, b) : Shown[k + i].pc = UserPcs(t)[i]
             /\ 0 < Seen(pos, t, b) /\ Seen(pos, t, b) < Depth(t) => k + Seen(pos, t, b) = Len(Shown))'
    <2>1. Short(t) =>
            \E k \in 0 .. Len(v) :
              /\ AddrsIn(v, t) = {k + i : i \in 1 .. Seen(n, t, b)}
              /\ \A i \in 1 .. Seen(n, t, b) : v[k + i].pc = UserPcs(t)[i]
              /\ 0 < Seen(n, t, b) /\ Seen(n, t, b) < Depth(t) => k + Seen(n, t, b) = Len(v)
      BY DEF ReadUp
    <2>2. Seen(pos, t, b)' = Seen(n, t, b)
      BY <1>1 DEF Seen
    <2>3. AddrsIn(Shown, t)' = AddrsIn(v, t)
      BY DEF AddrsIn
    <2>4. QED
      BY <1>1, <2>1, <2>2, <2>3
  <1>5. QED
    BY <1>2, <1>3, <1>4 DEF ReadUp

\* One more line of the trace was read.
LEMMA TraceMore ==
  ASSUME StackTyping, TraceOK, UNCHANGED <<given, file>>, pos < Len(file), pos' = pos + 1,
         NEW w \in Seq(OutLines), Shown \in Seq(OutLines), Alike(Shown, w), NEW add \in Seq(OutLines), Shown' = w \o add,
         \A t \in Tasks :
           /\ KindIn(add, t, "kernel") = (IF Now.of = t /\ Now.kind = "kernel" THEN {1} ELSE {})
           /\ (\A u \in Tasks : Short(u)) =>
                KindIn(add, t, "stack_end") = (IF Now.of = t /\ Now.kind = "stack_end" THEN {1} ELSE {})
           /\ Short(t) =>
                IF Now.of = t /\ Now.kind = "pc"
                THEN AddrsIn(add, t) = {1} /\ add[1].pc = Now.pc /\ Len(add) = 1
                ELSE AddrsIn(add, t) = {}
  PROVE  TraceOK'
  <1>1. stack' = stack /\ request' = request /\ file' = file /\ pos \in Nat /\ Len(file) \in Nat
    BY SeqFacts DEF given, StackTyping
  <1>2. Now = file[pos + 1]
    BY DEF Now
  <1>3. ASSUME request.ask = "trace", NEW t \in Tasks, NEW b \in 0 .. Len(file), BlockAt(file, t, b)
        PROVE  ReadUp(w \o add, pos + 1, t, b)
    <2>1. b \in Nat
      BY <1>1
    <2>2. ReadUp(Shown, pos, t, b)
      BY <1>3 DEF TraceOK
    <2> PICK v \in Seq(OutLines) : v = Shown
      OBVIOUS
    <2> PICK n \in Nat : n = pos
      BY <1>1
    <2>3. ReadUp(v, n, t, b) /\ Alike(v, w)
      BY <2>2
    <2>4. ReadUp(w, n, t, b)
      BY <2>1, <2>3, ReadUpAlike
    <2>5. ReadUp(w \o add, n + 1, t, b)
      <3>1. Now = file[n + 1] /\ n < Len(file)
        BY <1>2
      <3>2. /\ KindIn(add, t, "kernel") = (IF file[n + 1].of = t /\ file[n + 1].kind = "kernel" THEN {1} ELSE {})
            /\ (\A u \in Tasks : Short(u)) =>
                 KindIn(add, t, "stack_end") = (IF file[n + 1].of = t /\ file[n + 1].kind = "stack_end" THEN {1} ELSE {})
            /\ Short(t) =>
                 IF file[n + 1].of = t /\ file[n + 1].kind = "pc"
                 THEN AddrsIn(add, t) = {1} /\ add[1].pc = file[n + 1].pc /\ Len(add) = 1
                 ELSE AddrsIn(add, t) = {}
        BY <3>1
      <3>3. BlockAt(file, t, b)
        BY <1>3
      <3>4. QED
        BY <2>1, <2>4, <3>1, <3>2, <3>3, ReadUpMore
    <2>6. QED
      BY <2>5
  <1>4. ASSUME request'.ask = "trace", NEW t \in Tasks, NEW b \in 0 .. Len(file'), BlockAt(file, t, b)'
        PROVE  ReadUp(Shown, pos, t, b)'
    <2>1. BlockAt(file, t, b)
      BY <1>1, <1>4 DEF BlockAt, Ahead, Depth, UserPcs
    <2>2. ReadUp(w \o add, pos + 1, t, b)
      BY <1>1, <1>3, <1>4, <2>1
    <2>3. ReadUp(w \o add, pos + 1, t, b) /\ Shown' = w \o add
      BY <2>2
    <2>4. QED
      BY <1>1, <2>3, ReadUpNew
  <1>5. QED
    BY <1>4 DEF TraceOK

\* The output and the lines that wait.
LEMMA ShownFacts ==
  ASSUME StackTyping
  PROVE  /\ Shown \in Seq(OutLines) /\ out \in Seq(OutLines) /\ pending \in Seq(OutLines)
         /\ pending = << >> => Shown = out
         /\ Alike(Shown, Shown)
  <1>1. pending \in Seq(PcSet) /\ out \in Seq(OutLines)
    BY DEF StackTyping
  <1>2. pending \in Seq(OutLines)
    <2>1. PcSet \subseteq OutLines
      BY DEF OutLines, FileLines
    <2>2. QED
      BY <1>1, <2>1
  <1>3. out \o pending \in Seq(OutLines)
    BY <1>1, <1>2, JoinFacts
  <1>4. pending = << >> => out \o pending = out
    BY <1>1, ConcatEmptySeq
  <1>5. QED
    BY <1>1, <1>2, <1>3, <1>4 DEF Shown, Alike

\* A line that is copied.
LEMMA TraceCopy ==
  ASSUME StackTyping, TraceOK, UNCHANGED <<given, file>>, pos < Len(file), pos' = pos + 1,
         pending = << >>, pending' = << >>, out' = Append(out, Now)
  PROVE  TraceOK'
  <1>1. Shown \in Seq(OutLines) /\ Shown = out /\ Alike(Shown, Shown)
    BY ShownFacts
  <1>2. Now \in OutLines
    BY NowFacts
  <1> PICK w \in Seq(OutLines) : w = Shown
    BY <1>1
  <1> PICK l \in OutLines : l = Now
    BY <1>2
  <1>3. Shown' = w \o <<l>>
    <2>1. Append(w, l) = w \o <<l>> /\ Append(w, l) \in Seq(OutLines)
      BY AppendIsConcat, AppendFacts
    <2>2. out' = Append(w, l)
      BY <1>1
    <2>3. Append(w, l) \o << >> = Append(w, l)
      BY <2>1, ConcatEmptySeq
    <2>4. Shown' = out' \o pending'
      BY DEF Shown
    <2>5. QED
      BY <2>1, <2>2, <2>3, <2>4
  <1> DEFINE add == <<l>>
  <1>4. add = <<Now>> /\ Shown' = w \o add
    BY <1>3
  <1> HIDE DEF add
  <1>5. /\ add \in Seq(OutLines) /\ Len(add) = 1 /\ add[1] = Now
        /\ \A t \in Tasks :
             /\ KindIn(add, t, "kernel") = (IF Now.of = t /\ Now.kind = "kernel" THEN {1} ELSE {})
             /\ KindIn(add, t, "stack_end") = (IF Now.of = t /\ Now.kind = "stack_end" THEN {1} ELSE {})
             /\ AddrsIn(add, t) = (IF Now.of = t /\ Now.kind = "pc" THEN {1} ELSE {})
    <2>1. add \in Seq(OutLines) /\ Len(add) = 1 /\ add[1] = Now
      BY <1>2, <1>4, OneFacts
    <2>2. QED
      BY <1>4, <2>1, NowAdd
  <1>6. Alike(Shown, w)
    BY <1>1
  <1>7. QED
    BY <1>1, <1>4, <1>5, <1>6, TraceMore

\* A line that is left out.
LEMMA TraceSkip ==
  ASSUME StackTyping, TraceOK, UNCHANGED <<given, file, out>>, pos < Len(file), pos' = pos + 1,
         pending = << >>, pending' = << >>, Now.kind \notin {"kernel", "stack_end", "pc"}
  PROVE  TraceOK'
  <1>1. Shown \in Seq(OutLines) /\ Alike(Shown, Shown)
    BY ShownFacts
  <1> PICK w \in Seq(OutLines) : w = Shown
    BY <1>1
  <1>2. Shown' = w \o << >>
    <2>1. Shown' = out' \o pending' /\ Shown = out \o pending
      BY DEF Shown
    <2>2. w \o << >> = w
      BY ConcatEmptySeq
    <2>3. QED
      BY <2>1, <2>2
  <1>3. Alike(Shown, w)
    BY <1>1
  <1> DEFINE add == << >>
  <1>4. add \in Seq(OutLines) /\ \A t : AddrsIn(add, t) = {} /\ KindIn(add, t, "kernel") = {} /\ KindIn(add, t, "stack_end") = {}
    BY NoLines, EmptySeq
  <1>5. Shown' = w \o add
    BY <1>2
  <1> HIDE DEF add
  <1>6. QED
    BY <1>1, <1>3, <1>4, <1>5, TraceMore

\* What is shown does not change.
LEMMA TraceKept ==
  ASSUME TraceOK, UNCHANGED given, UNCHANGED <<file, pos, pending, out>> \/ request.ask # "trace"
  PROVE  TraceOK'
  <1>1. stack' = stack /\ request' = request
    BY DEF given
  <1>2. CASE request.ask # "trace"
    BY <1>1, <1>2 DEF TraceOK
  <1>3. CASE UNCHANGED <<file, pos, pending, out>>
    <2>1. Shown' = Shown
      BY <1>3 DEF Shown
    <2>2. ASSUME request'.ask = "trace", NEW t \in Tasks, NEW b \in 0 .. Len(file'), BlockAt(file, t, b)'
          PROVE  ReadUp(Shown, pos, t, b)'
      <3>1. BlockAt(file, t, b)
        BY <1>1, <1>3, <2>2 DEF BlockAt, Ahead, Depth, UserPcs
      <3>2. ReadUp(Shown, pos, t, b)
        BY <1>1, <1>3, <2>2, <3>1 DEF TraceOK
      <3> PICK v : v = Shown
        OBVIOUS
      <3> PICK n : n = pos
        OBVIOUS
      <3>3. ReadUp(v, n, t, b) /\ Shown' = v /\ pos' = n
        BY <1>3, <2>1, <3>2
      <3>4. QED
        BY <1>1, <3>3, ReadUpNew
    <2>3. QED
      BY <2>2 DEF TraceOK
  <1>4. QED
    BY <1>2, <1>3

\* A user stack is made of addresses, up to its end.
LEMMA UserKinds ==
  ASSUME StackTyping, ReadOK, Piece(file), phase = "user", pos < Len(file)
  PROVE  Now.kind \in {"pc", "stack_end"} /\ (Now.kind = "pc" => Now \in PcSet)
  <1>1. pos > 0 /\ file[pos].kind \in {"userspace", "pc"}
    BY DEF ReadOK
  <1>2. Follows(file[pos], Now)
    BY <1>1, BeforeFacts
  <1>3. Now.kind \in {"pc", "stack_end"}
    BY <1>1, <1>2 DEF Follows, Successors
  <1>4. QED
    BY <1>3, NowFacts

\* What was read of the trace is shown: a line of a user stack,
LEMMA TraceUser ==
  ASSUME StackTyping, ReadOK, OutOK, WaitOK, FileOK, TraceOK, Piece(file), UserLine, request.ask = "trace"
  PROVE  TraceOK'
  <1>1. phase = "user" /\ pos < Len(file) /\ pos' = pos + 1 /\ UNCHANGED <<given, file>>
    BY DEF UserLine, Next1
  <1>2. Now.kind \in {"pc", "stack_end"} /\ Now \in OutLines
    BY <1>1, UserKinds, NowFacts
  <1>3. out \in Seq(OutLines) /\ pending \in Seq(OutLines) /\ Shown \in Seq(OutLines) /\ Shown = out \o pending
    BY ShownFacts DEF Shown
  <1> DEFINE one == <<Now>>
  <1>4. /\ one \in Seq(OutLines) /\ Len(one) = 1 /\ one[1] = Now
        /\ \A t \in Tasks :
             /\ KindIn(one, t, "kernel") = (IF Now.of = t /\ Now.kind = "kernel" THEN {1} ELSE {})
             /\ KindIn(one, t, "stack_end") = (IF Now.of = t /\ Now.kind = "stack_end" THEN {1} ELSE {})
             /\ AddrsIn(one, t) = (IF Now.of = t /\ Now.kind = "pc" THEN {1} ELSE {})
    <2>1. one \in Seq(OutLines) /\ Len(one) = 1 /\ one[1] = Now
      BY <1>2, OneFacts
    <2>2. QED
      BY <1>1, <2>1, NowAdd
  <1> HIDE DEF one
  <1>5. CASE ~ Full(pending) /\ Now.kind # "stack_end"
    <2>1. pending' = Append(pending, Now) /\ out' = out
      BY <1>5 DEF UserLine
    <2>2. pending' = pending \o one
      BY <1>2, <1>3, <2>1, AppendIsConcat DEF one
    <2>3. Shown' = Shown \o one
      <3>1. Shown' = out' \o pending'
        BY DEF Shown
      <3>2. (out \o pending) \o one = out \o (pending \o one)
        BY <1>3, <1>4, ConcatAssociative
      <3>3. QED
        BY <1>3, <2>1, <2>2, <3>1, <3>2
    <2> PICK w \in Seq(OutLines) : w = Shown
      BY <1>3
    <2> PICK add \in Seq(OutLines) : add = one
      BY <1>4
    <2>4. Shown' = w \o add /\ Alike(Shown, w)
      BY <2>3, ShownFacts
    <2>5. \A t \in Tasks :
            /\ KindIn(add, t, "kernel") = (IF Now.of = t /\ Now.kind = "kernel" THEN {1} ELSE {})
            /\ KindIn(add, t, "stack_end") = (IF Now.of = t /\ Now.kind = "stack_end" THEN {1} ELSE {})
            /\ IF Now.of = t /\ Now.kind = "pc"
               THEN AddrsIn(add, t) = {1} /\ add[1].pc = Now.pc /\ Len(add) = 1
               ELSE AddrsIn(add, t) = {}
      BY <1>4
    <2>6. QED
      BY <1>1, <1>3, <2>4, <2>5, TraceMore
  <1>6. CASE Full(pending) \/ Now.kind = "stack_end"
    <2> DEFINE g == Named(table, milist, pending, FALSE)
               o == out \o g
    <2>1. /\ title' = (IF Full(pending) THEN title ELSE <<Now>>)
          /\ out' = o \o title' /\ pending' = << >>
      BY <1>6 DEF UserLine
    <2>2. o \in Seq(OutLines) /\ Alike(Shown, o)
      <3>1. Loaded(milist, Reads)
        BY <1>1 DEF OutOK
      <3>2. QED
        BY <3>1, ShownNamed
    <2> HIDE DEF o
    <2> PICK w \in Seq(OutLines) : w = o
      BY <2>2
    <2>3. title \in Seq(OutLines) /\ \A i \in DOMAIN title : title[i].kind = "stack_end"
      <3>1. title \in Seq(FileLines)
        BY DEF StackTyping
      <3>2. QED
        BY <3>1, NoFrames DEF WaitOK
    <2>4. title' \in Seq(OutLines)
      BY <1>4, <2>1, <2>3 DEF one
    <2> PICK add \in Seq(OutLines) : add = title'
      BY <2>4
    <2>5. Shown' = w \o add
      <3>1. Shown' = out' \o pending' /\ w \o add \in Seq(OutLines)
        BY JoinFacts DEF Shown
      <3>2. (w \o add) \o << >> = w \o add
        BY <3>1, ConcatEmptySeq
      <3>3. QED
        BY <2>1, <3>1, <3>2
    <2>6. Alike(Shown, w)
      BY <2>2
    <2>7. CASE Full(pending)
      <3>1. add = title
        BY <2>1, <2>7
      <3>2. Now.of \in Tasks /\ ~ Short(Now.of)
        <4>1. Now \in FileLines
          BY <1>1, NowFacts
        <4>2. Now.of \in Tasks
          BY <4>1, KindFacts
        <4>3. QED
          BY <1>1, <2>7, <4>2, FullFacts
      <3>3. \A t : KindIn(add, t, "kernel") = {} /\ AddrsIn(add, t) = {}
        BY <2>3, <3>1 DEF KindIn, AddrsIn
      <3>4. ~ \A u \in Tasks : Short(u)
        BY <3>2
      <3>5. \A t \in Tasks : Short(t) => ~ (Now.of = t /\ Now.kind = "pc")
        BY <3>2
      <3>6. QED
        BY <1>1, <1>2, <1>3, <2>5, <2>6, <3>3, <3>4, <3>5, TraceMore
    <2>8. CASE ~ Full(pending)
      <3>1. add = one
        BY <2>1, <2>8 DEF one
      <3>2. \A t \in Tasks :
              /\ KindIn(add, t, "kernel") = (IF Now.of = t /\ Now.kind = "kernel" THEN {1} ELSE {})
              /\ KindIn(add, t, "stack_end") = (IF Now.of = t /\ Now.kind = "stack_end" THEN {1} ELSE {})
              /\ IF Now.of = t /\ Now.kind = "pc"
                 THEN AddrsIn(add, t) = {1} /\ add[1].pc = Now.pc /\ Len(add) = 1
                 ELSE AddrsIn(add, t) = {}
        BY <1>4, <3>1
      <3>3. QED
        BY <1>1, <1>3, <2>5, <2>6, <3>2, TraceMore
    <2>9. QED
      BY <2>7, <2>8
  <1>7. QED
    BY <1>5, <1>6

\* and any line.
LEMMA TraceFind ==
  ASSUME StackTyping, ReadOK, OutOK, WaitOK, FileOK, TraceOK, Piece(file), FindStep
  PROVE  TraceOK'
  <1>1. request.ask = "trace" /\ UNCHANGED <<given, file>>
    <2>1. phase \in Reading
      BY DEF FindStep, FindPid, FindMaps, MapsLine, FindStack, Kernel, UserLine, EndOfFile, Next1, Reading
    <2>2. UNCHANGED <<given, file>>
      BY DEF FindStep, FindPid, FindMaps, MapsLine, FindStack, Kernel, UserLine, EndOfFile, trace
    <2>3. QED
      BY <2>1, <2>2, AskFacts
  <1>2. CASE EndOfFile
    <2>1. UNCHANGED <<pos, pending, out>>
      BY <1>2 DEF EndOfFile, trace
    <2>2. QED
      BY <1>1, <2>1, TraceKept
  <1>3. CASE UserLine
    BY <1>1, <1>3, TraceUser
  <1>4. CASE FindPid \/ FindStack
    <2>1. /\ pos < Len(file) /\ pos' = pos + 1 /\ pending' = pending /\ out' = Append(out, Now)
          /\ phase \in {"find_pid", "find_stack"}
      BY <1>4 DEF FindPid, FindStack, Next1, Copy
    <2>2. pending = << >>
      BY <2>1 DEF ReadOK, Reading
    <2>3. QED
      BY <1>1, <2>1, <2>2, TraceCopy
  <1>5. CASE FindMaps
    <2>1. pos < Len(file) /\ pos' = pos + 1 /\ pending' = pending /\ phase = "find_maps"
      BY <1>5 DEF FindMaps, Next1
    <2>2. pending = << >>
      BY <2>1 DEF ReadOK, Reading
    <2>3. CASE Now.kind = "maps_start"
      <3>1. UNCHANGED out
        BY <1>5, <2>3 DEF FindMaps
      <3>2. QED
        BY <1>1, <2>1, <2>2, <2>3, <3>1, TraceSkip
    <2>4. CASE Now.kind # "maps_start"
      <3>1. out' = Append(out, Now)
        BY <1>5, <2>4 DEF FindMaps, Copy
      <3>2. QED
        BY <1>1, <2>1, <2>2, <3>1, TraceCopy
    <2>5. QED
      BY <2>3, <2>4
  <1>6. CASE MapsLine
    <2>1. pos < Len(file) /\ pos' = pos + 1 /\ UNCHANGED <<pending, out>> /\ phase = "maps_lines"
      BY <1>6 DEF MapsLine, Next1
    <2>2. pending = << >>
      BY <2>1 DEF ReadOK, Reading
    <2>3. PICK p \in Pids, k \in Nat :
            Now = Line("maps_end", p) \/ Now = MapLine(p, MapsOf[p][k + 1])
      <3>1. PICK p \in Pids : \E k \in 0 .. Len(MapsOf[p]) :
               Now = IF k = Len(MapsOf[p]) THEN Line("maps_end", p) ELSE MapLine(p, MapsOf[p][k + 1])
        BY <2>1, MapsNow
      <3>2. QED
        BY <3>1
    <2>4. Now.kind \in {"map", "maps_end"}
      BY <2>3 DEF Line, MapLine
    <2>5. QED
      BY <1>1, <2>1, <2>2, <2>4, TraceSkip
  <1>7. CASE Kernel
    <2>1. pos < Len(file) /\ pos' = pos + 1 /\ pending' = pending /\ phase = "kernel"
      BY <1>7 DEF Kernel, Next1
    <2>2. pending = << >>
      BY <2>1 DEF ReadOK, Reading
    <2>3. CASE Now.kind = "userspace"
      <3>1. UNCHANGED out
        BY <1>7, <2>3 DEF Kernel
      <3>2. QED
        BY <1>1, <2>1, <2>2, <2>3, <3>1, TraceSkip
    <2>4. CASE Now.kind # "userspace"
      <3>1. out' = Append(out, Now)
        BY <1>7, <2>4 DEF Kernel, Copy
      <3>2. QED
        BY <1>1, <2>1, <2>2, <3>1, TraceCopy
    <2>5. QED
      BY <2>3, <2>4
  <1>8. QED
    BY <1>2, <1>3, <1>4, <1>5, <1>6, <1>7 DEF FindStep

\* The addresses that wait are the last lines: steps that read,
LEMMA WaitFind ==
  ASSUME StackTyping, ReadOK, WaitOK, FileOK, Piece(file), FindStep
  PROVE  WaitOK'
  <1>1. request.ask = "trace" /\ UNCHANGED <<given, file>> /\ phase \in Reading
    <2>1. phase \in Reading
      BY DEF FindStep, FindPid, FindMaps, MapsLine, FindStack, Kernel, UserLine, EndOfFile, Next1, Reading
    <2>2. UNCHANGED <<given, file>>
      BY DEF FindStep, FindPid, FindMaps, MapsLine, FindStack, Kernel, UserLine, EndOfFile, trace
    <2>3. QED
      BY <2>1, <2>2, AskFacts
  <1>2. \A i \in DOMAIN title : title[i].kind = "stack_end"
    BY DEF WaitOK
  <1>3. CASE EndOfFile
    <2>1. UNCHANGED <<title, pos, pending>> /\ phase' = "done" /\ pos = Len(file)
      BY <1>3 DEF EndOfFile, trace
    <2>2. phase # "user"
      <3> SUFFICES ASSUME phase = "user"
                   PROVE  FALSE
        OBVIOUS
      <3>1. pos > 0 /\ file[pos].kind \in {"userspace", "pc"}
        BY DEF ReadOK
      <3>2. file # << >>
        BY <2>1, <3>1, EmptySeq
      <3>3. file[pos].kind = "pid_end"
        BY <1>1, <2>1, <3>2 DEF FileOK, Last1
      <3>4. QED
        BY <3>1, <3>3
    <2>3. pending = << >>
      BY <1>1, <2>2 DEF ReadOK
    <2>4. QED
      BY <1>1, <1>2, <2>1, <2>3 DEF WaitOK
  <1>4. CASE FindPid \/ FindMaps \/ MapsLine \/ FindStack
    <2>1. title' = title /\ phase' \notin {"user", "done"}
      BY <1>4 DEF FindPid, FindMaps, MapsLine, FindStack, Next1
    <2>2. QED
      BY <1>2, <2>1 DEF WaitOK
  <1>5. CASE Kernel
    <2>1. title' = title /\ phase' # "done" /\ pending' = pending /\ phase = "kernel"
      BY <1>5 DEF Kernel, Next1
    <2>2. pending' = << >>
      BY <2>1 DEF ReadOK, Reading
    <2>3. 1 .. Len(pending') = {}
      BY <2>2
    <2>4. QED
      BY <1>2, <2>1, <2>3 DEF WaitOK
  <1>6. CASE UserLine
    <2>1. phase = "user" /\ pos < Len(file) /\ pos' = pos + 1
      BY <1>6 DEF UserLine, Next1
    <2>2. CASE ~ Full(pending) /\ Now.kind # "stack_end"
      <3>1. pending' = Append(pending, Now) /\ UNCHANGED <<phase, title>>
        BY <1>6, <2>2 DEF UserLine
      <3>2. Now.kind = "pc" /\ Now \in PcSet /\ Now = file[pos + 1] /\ pos + 1 \in DOMAIN file /\ pos \in Nat
        <4>1. Now.kind = "pc" /\ Now \in PcSet
          BY <2>1, <2>2, UserKinds
        <4>2. Now = file[pos + 1] /\ pos + 1 \in DOMAIN file
          BY <2>1, NowFacts
        <4>3. QED
          BY <4>1, <4>2 DEF StackTyping
      <3>3. Len(pending') = Len(pending) + 1 /\ Len(pending) \in Nat
        BY <3>1, <3>2, AppendFacts, SeqFacts DEF StackTyping
      <3>4. ASSUME NEW i \in 1 .. Len(pending')
            PROVE  pos' + 1 - i \in DOMAIN file' /\ file'[pos' + 1 - i].kind = "pc"
        <4>1. CASE i = 1
          <5>1. pos' + 1 - i = pos + 1
            BY <2>1, <3>2, <4>1
          <5>2. QED
            BY <1>1, <3>2, <5>1
        <4>2. CASE i # 1
          <5>1. i - 1 \in 1 .. Len(pending) /\ pos' + 1 - i = pos + 1 - (i - 1)
            BY <2>1, <3>2, <3>3, <4>2
          <5>2. QED
            BY <1>1, <2>1, <5>1 DEF WaitOK
        <4>3. QED
          BY <4>1, <4>2
      <3>5. phase' # "done"
        BY <2>1, <3>1
      <3>6. QED
        BY <1>2, <3>1, <3>4, <3>5 DEF WaitOK
    <2>3. CASE Full(pending) \/ Now.kind = "stack_end"
      <3>1. title' = (IF Full(pending) THEN title ELSE <<Now>>) /\ phase' = "find_stack"
        BY <1>6, <2>3 DEF UserLine
      <3>2. \A i \in DOMAIN title' : title'[i].kind = "stack_end"
        <4>1. CASE Full(pending)
          BY <1>2, <3>1, <4>1
        <4>2. CASE ~ Full(pending)
          <5>1. title' = <<Now>> /\ Now.kind = "stack_end" /\ Now \in FileLines
            BY <2>1, <2>3, <3>1, <4>2, NowFacts
          <5>2. DOMAIN title' = 1 .. 1 /\ title'[1] = Now
            BY <5>1
          <5>3. QED
            BY <5>1, <5>2
        <4>3. QED
          BY <4>1, <4>2
      <3>3. QED
        BY <3>1, <3>2 DEF WaitOK
    <2>4. QED
      BY <2>2, <2>3
  <1>7. QED
    BY <1>3, <1>4, <1>5, <1>6 DEF FindStep

\* and those that do not.
LEMMA WaitKept ==
  ASSUME WaitOK, UNCHANGED <<given, title>>,
         \/ UNCHANGED <<phase, pos, file, pending>>
         \/ phase' # "user" /\ (phase' # "done" \/ request.ask # "trace")
  PROVE  WaitOK'
  <1>1. request' = request
    BY DEF given
  <1>2. CASE UNCHANGED <<phase, pos, file, pending>>
    BY <1>1, <1>2 DEF WaitOK
  <1>3. CASE phase' # "user" /\ (phase' # "done" \/ request.ask # "trace")
    BY <1>1, <1>3 DEF WaitOK
  <1>4. QED
    BY <1>2, <1>3

\* The trace is written before it is read.
LEMMA TraceWrite ==
  ASSUME StackTyping, StackTyping', WriteOK, ReadOK, FileOK, WriteProcess \/ WriteMaps \/ WriteStack \/ WriteThread
  PROVE  FileOK' /\ TraceOK'
  <1>1. FileOK'
    BY FileProcess, FileMaps, FileMain, FileThread
  <1>2. phase \in Writing /\ UNCHANGED <<pos, pending, out>>
    BY DEF WriteProcess, WriteMaps, WriteStack, WriteThread, Writing
  <1>3. pos' = 0 /\ pending' = << >> /\ out' = << >>
    BY <1>2 DEF WriteOK, ReadOK
  <1>4. Shown' = << >>
    <2>1. Shown' = << >> \o << >>
      BY <1>3 DEF Shown
    <2>2. << >> \o << >> = << >>
      OBVIOUS
    <2>3. QED
      BY <2>1, <2>2
  <1>5. stack' = stack
    BY DEF WriteProcess, WriteMaps, WriteStack, WriteThread, given
  <1>6. ASSUME NEW t \in Tasks, NEW b \in 0 .. Len(file')
        PROVE  ReadUp(Shown, pos, t, b)'
    <2>1. b \in Nat
      BY SeqFacts DEF StackTyping
    <2>2. ReadUp(<< >>, 0, t, b)
      BY <2>1, ReadUpStart
    <2>3. QED
      BY <1>3, <1>4, <1>5, <2>2, ReadUpNew
  <1>7. TraceOK'
    BY <1>6 DEF TraceOK
  <1>8. QED
    BY <1>1, <1>7

\* The steps of the others change nothing in what is printed of a live system,
LEMMA ShownKept ==
  ASSUME ShownOK, UNCHANGED given, ~ Console \/ (UNCHANGED <<all, index, phase, out>> /\ alive' \subseteq alive)
  PROVE  ShownOK'
  <1>1. request' = request /\ stack' = stack
    BY DEF given
  <1>2. CASE ~ Console
    BY <1>1, <1>2 DEF ShownOK, Console
  <1>3. CASE Console /\ UNCHANGED <<all, index, phase, out>> /\ alive' \subseteq alive
    <2>1. UNCHANGED <<given, all>>
      BY <1>3
    <2>2. /\ phase' \in {"processes", "threads"} => out' = << >>
          /\ phase' = "done" => index' > Len(all)
          /\ \A i \in DOMAIN out' : Recorded(out'[i].of)
      BY <1>3 DEF ShownOK
    <2>3. \A k \in DOMAIN all :
            LET t == all[k].of
            IN  /\ k < index' /\ t \in alive' =>
                     /\ Once(out', t, "kernel")
                     /\ MapList(MapsOf[Process(t)]) # << >> => PrintedIn(out', t, Kept(t))
                /\ k = index' /\ phase' \in {"maps", "unwind"} =>
                     Once(out', t, "kernel") /\ AddrsIn(out', t) = {}
                /\ k > index' \/ (k = index' /\ phase' = "names") => Quiet(out', t)
      BY <1>3 DEF ShownOK
    <2>4. QED
      BY <2>1, <2>2, <2>3, ShownNew
  <1>4. QED
    BY <1>2, <1>3

\* or of one process.
LEMMA AnrKept ==
  ASSUME AnrOK, UNCHANGED given, request.ask # "anr" \/ UNCHANGED <<phase, out>>
  PROVE  AnrOK'
  <1>1. request' = request /\ stack' = stack
    BY DEF given
  <1>2. CASE request.ask # "anr"
    BY <1>1, <1>2 DEF AnrOK
  <1>3. CASE UNCHANGED <<phase, out>>
    BY <1>1, <1>3 DEF AnrOK, UserPcs
  <1>4. QED
    BY <1>2, <1>3

\* The invariant of the report holds at first,
LEMMA ReportInit ==
  ASSUME StackInit
  PROVE  ReportInv
  <1>1. StackInv
    BY StackInitInv
  <1>2. /\ all = << >> /\ file = << >> /\ pos = 0 /\ pending = << >> /\ title = << >> /\ out = << >>
        /\ index = 1 /\ pid = 0 /\ tid = 0 /\ alive = Tasks
    BY DEF StackInit
  <1>3. /\ request.ask \in {"all", "one"} => phase = "processes"
        /\ request.ask = "trace" => phase = "write_processes"
        /\ request.ask = "anr" => phase = "anr"
        /\ request.ask \in {"all", "one", "trace", "anr"}
    BY DEF StackInit, Requests
  <1>4. DOMAIN << >> = {}
    OBVIOUS
  <1>5. \A t \in Tasks : ~ (Process(t) <= 0)
    <2>1. \A t \in Tasks : Process(t) \in Nat \ {0}
      BY TaskFacts
    <2>2. QED
      BY <2>1
  <1>6. EntriesOK
    <2>1. Len(all) = 0 /\ 0 <= TaskNum
      BY <1>2, LimitsAssumption
    <2>2. QED
      BY <1>2, <1>3, <1>4, <1>5, <2>1 DEF EntriesOK, Passed, Console
  <1>7. ShownOK
    BY <1>2, <1>3, <1>4 DEF ShownOK, Console
  <1>8. AnrOK
    BY <1>3 DEF AnrOK
  <1>9. FileOK
    BY <1>2, <1>3, <1>4, <1>5 DEF FileOK, Written, Reading
  <1>10. WaitOK
    BY <1>2, <1>3, <1>4 DEF WaitOK
  <1>11. TraceOK
    <2>1. Shown = << >> /\ pos = 0 /\ Len(file) = 0
      <3>1. << >> \o << >> = << >> /\ Len(<< >>) = 0
        OBVIOUS
      <3>2. QED
        BY <1>2, <3>1 DEF Shown
    <2>2. \A t \in Tasks : \A b \in 0 .. Len(file) : ReadUp(<< >>, 0, t, b)
      BY <1>1, <2>1, ReadUpStart DEF StackInv
    <2>3. QED
      BY <2>1, <2>2 DEF TraceOK
  <1>12. QED
    BY <1>1, <1>6, <1>7, <1>8, <1>9, <1>10, <1>11 DEF ReportInv

\* and every step keeps it.
LEMMA ReportStep ==
  ASSUME ReportInv, [StackNext]_stackVars
  PROVE  ReportInv'
  <1>1. /\ StackTyping /\ LiveOK /\ WriteOK /\ ReadOK /\ OutOK /\ Piece(file) /\ StackInv
        /\ EntriesOK /\ ShownOK /\ AnrOK /\ FileOK /\ WaitOK /\ TraceOK
    BY DEF ReportInv, StackInv, WriteOK, Trace
  <1>2. StackInv' /\ StackTyping'
    <2>1. StackInv'
      BY <1>1, StackStep
    <2>2. QED
      BY <2>1 DEF StackInv
  <1>3. CASE ReadProcess \/ ReadThread \/ PassOver \/ ReadName \/ ReadMaps \/ PrintStack
    <2>1. /\ UNCHANGED <<given, file, title, alive>> /\ phase' \notin {"user"} \cup Reading \cup Writing
          /\ phase \in {"processes", "threads", "names", "maps", "unwind"}
      <3>1. UNCHANGED <<given, file, title>>
        BY <1>3 DEF ReadProcess, ReadThread, PassOver, ReadName, ReadMaps, PrintStack, trace
      <3>2. UNCHANGED alive
        BY <1>3 DEF ReadProcess, ReadThread, PassOver, ReadName, ReadMaps, PrintStack, system
      <3>3. phase' \notin {"user"} \cup Reading \cup Writing
        BY <1>3 DEF ReadProcess, ReadThread, PassOver, ReadName, ReadMaps, PrintStack, Reading, Writing
      <3>4. phase \in {"processes", "threads", "names", "maps", "unwind"}
        BY <1>3 DEF ReadProcess, ReadThread, PassOver, ReadName, ReadMaps, PrintStack
      <3>5. QED
        BY <3>1, <3>2, <3>3, <3>4
    <2>2. request.ask \in {"all", "one"} /\ Console
      BY <1>1, <2>1, AskFacts DEF Console
    <2>3. EntriesOK'
      <3>1. CASE ReadProcess
        BY <1>1, <3>1, EntriesProcess
      <3>2. CASE ReadThread
        BY <1>1, <3>2, EntriesThread
      <3>3. CASE PassOver \/ ReadName \/ ReadMaps \/ PrintStack
        <4>1. /\ UNCHANGED all /\ phase \notin {"processes", "threads"}
              /\ phase' \notin {"processes", "threads"}
          BY <3>3 DEF PassOver, ReadName, ReadMaps, PrintStack, live
        <4>2. QED
          BY <1>1, <2>1, <4>1, EntriesKept
      <3>4. QED
        BY <1>3, <3>1, <3>2, <3>3
    <2>4. ShownOK'
      <3>1. CASE ReadProcess \/ ReadThread
        <4>1. /\ phase \in {"processes", "threads"} /\ UNCHANGED <<index, out>>
              /\ phase' \in {"processes", "threads", "names"}
          BY <3>1 DEF ReadProcess, ReadThread
        <4>2. index' = 1 /\ out' = << >>
          BY <1>1, <2>2, <4>1 DEF LiveOK, ShownOK
        <4>3. QED
          BY <1>2, <2>1, <4>1, <4>2, ShownStart
      <3>2. CASE PassOver
        BY <1>1, <2>2, <3>2, ShownPassOver
      <3>3. CASE ReadName
        BY <1>1, <2>2, <3>3, ShownName
      <3>4. CASE ReadMaps
        BY <1>1, <2>2, <3>4, ShownMaps
      <3>5. CASE PrintStack
        BY <1>1, <2>2, <3>5, ShownStack
      <3>6. QED
        BY <1>3, <3>1, <3>2, <3>3, <3>4, <3>5
    <2>5. AnrOK' /\ FileOK' /\ WaitOK' /\ TraceOK'
      <3>1. request.ask # "anr" /\ request.ask # "trace" /\ phase' # "user"
        BY <2>1, <2>2
      <3>2. AnrOK'
        BY <1>1, <2>1, <3>1, AnrKept
      <3>3. FileOK'
        BY <1>1, <2>1, <3>1, FileKept
      <3>4. WaitOK'
        BY <1>1, <2>1, <3>1, WaitKept
      <3>5. TraceOK'
        BY <1>1, <2>1, <3>1, TraceKept
      <3>6. QED
        BY <3>2, <3>3, <3>4, <3>5
    <2>6. QED
      BY <1>2, <2>3, <2>4, <2>5 DEF ReportInv
  <1>4. CASE WriteProcess \/ WriteMaps \/ WriteStack \/ WriteThread
    <2>1. /\ UNCHANGED <<given, title, all>> /\ phase \in Writing /\ phase' \in Writing \cup {"find_pid"}
          /\ alive' \subseteq alive
      <3>1. UNCHANGED <<given, title, all>>
        BY <1>4 DEF WriteProcess, WriteMaps, WriteStack, WriteThread, live
      <3>2. phase \in Writing /\ phase' \in Writing \cup {"find_pid"}
        BY <1>4 DEF WriteProcess, WriteMaps, WriteStack, WriteThread, Writing
      <3>3. alive' \subseteq alive
        BY <1>1, <1>4, WriteTyping
      <3>4. QED
        BY <3>1, <3>2, <3>3
    <2>2. request.ask = "trace" /\ ~ Console /\ request.ask # "anr"
      BY <1>1, <2>1, AskFacts DEF Console
    <2>3. EntriesOK' /\ ShownOK' /\ AnrOK'
      <3>1. EntriesOK'
        BY <1>1, <2>1, <2>2, EntriesKept
      <3>2. ShownOK' /\ AnrOK'
        BY <1>1, <2>1, <2>2, ShownKept, AnrKept
      <3>3. QED
        BY <3>1, <3>2
    <2>4. FileOK' /\ TraceOK'
      BY <1>1, <1>2, <1>4, TraceWrite
    <2>5. WaitOK'
      <3>1. phase' # "user" /\ phase' # "done"
        BY <2>1 DEF Writing
      <3>2. QED
        BY <1>1, <2>1, <3>1, WaitKept
    <2>6. QED
      BY <1>2, <2>3, <2>4, <2>5 DEF ReportInv
  <1>5. CASE FindStep
    <2>1. UNCHANGED <<given, all, file, alive>> /\ phase \in Reading /\ phase' \in Reading \cup {"done"}
      <3>1. UNCHANGED <<given, all, file, alive>>
        BY <1>5 DEF FindStep, FindPid, FindMaps, MapsLine, FindStack, Kernel, UserLine, EndOfFile, live, system, trace
      <3>2. phase \in Reading /\ phase' \in Reading \cup {"done"}
        BY <1>5 DEF FindStep, FindPid, FindMaps, MapsLine, FindStack, Kernel, UserLine, EndOfFile, Next1, Reading
      <3>3. QED
        BY <3>1, <3>2
    <2>2. request.ask = "trace" /\ ~ Console /\ request.ask # "anr"
      BY <1>1, <2>1, AskFacts DEF Console
    <2>3. EntriesOK' /\ ShownOK' /\ AnrOK'
      <3>1. EntriesOK'
        BY <1>1, <2>1, <2>2, EntriesKept
      <3>2. ShownOK' /\ AnrOK'
        BY <1>1, <2>1, <2>2, ShownKept, AnrKept
      <3>3. QED
        BY <3>1, <3>2
    <2>4. FileOK'
      BY <1>1, <2>1, FileKept
    <2>5. WaitOK'
      BY <1>1, <1>5, WaitFind
    <2>6. TraceOK'
      BY <1>1, <1>5, TraceFind
    <2>7. QED
      BY <1>2, <2>3, <2>4, <2>5, <2>6 DEF ReportInv
  <1>6. CASE ParseAnrMaps \/ ParseAnrStack
    <2>1. UNCHANGED <<given, all, file, title, alive>> /\ phase \in {"anr", "anr_stack"} /\ phase' \in {"anr_stack", "done"}
      BY <1>6 DEF ParseAnrMaps, ParseAnrStack, live, system, trace
    <2>2. request.ask = "anr" /\ ~ Console /\ request.ask # "trace"
      BY <1>1, <2>1, AskFacts DEF Console
    <2>3. EntriesOK'
      BY <1>1, <2>1, <2>2, EntriesKept
    <2>4. ShownOK'
      BY <1>1, <2>1, <2>2, ShownKept
    <2>5. AnrOK'
      BY <1>1, <1>6, AnrStep
    <2>6. FileOK' /\ TraceOK'
      BY <1>1, <2>1, <2>2, FileKept, TraceKept
    <2>7. WaitOK'
      <3>1. phase' # "user"
        BY <2>1
      <3>2. QED
        BY <1>1, <2>1, <2>2, <3>1, WaitKept
    <2>8. QED
      BY <1>2, <2>3, <2>4, <2>5, <2>6, <2>7 DEF ReportInv
  <1>7. CASE Exit \/ UNCHANGED stackVars
    <2>1. UNCHANGED <<given, phase, pid, tid, all, index, file, pos, pending, title, out>> /\ alive' \subseteq alive
      <3>1. CASE Exit
        BY <3>1 DEF Exit, live, trace
      <3>2. CASE UNCHANGED stackVars
        BY <3>2 DEF stackVars, system, live, trace
      <3>3. QED
        BY <1>7, <3>1, <3>2
    <2>2. EntriesOK'
      BY <1>1, <2>1, EntriesKept
    <2>3. ShownOK' /\ AnrOK'
      BY <1>1, <2>1, ShownKept, AnrKept
    <2>4. FileOK' /\ WaitOK' /\ TraceOK'
      BY <1>1, <2>1, FileKept, WaitKept, TraceKept
    <2>5. QED
      BY <1>2, <2>2, <2>3, <2>4 DEF ReportInv
  <1>8. QED
    BY <1>3, <1>4, <1>5, <1>6, <1>7 DEF StackNext, Step, FindStep

\* Each task that is alive at the end has been reported.
THEOREM ReportInvariance == StackSpec => []ReportInv
  <1>1. StackInit => ReportInv
    BY ReportInit
  <1>2. ReportInv /\ [StackNext]_stackVars => ReportInv'
    BY ReportStep
  <1>3. QED
    BY <1>1, <1>2, PTL DEF StackSpec

\* A short sequence is kept whole.
LEMMA FirstOfAll ==
  ASSUME NEW s \in Seq(Nat), NEW n \in Nat, Len(s) <= n
  PROVE  FirstOf(s, n) = s
  <1>1. FirstOf(s, n) \in Seq(Nat) /\ Len(FirstOf(s, n)) = Len(s) /\ \A i \in DOMAIN FirstOf(s, n) : FirstOf(s, n)[i] = s[i]
    <2>1. /\ FirstOf(s, n) \in Seq(Nat) /\ Len(FirstOf(s, n)) = IF Len(s) < n THEN Len(s) ELSE n
          /\ \A i \in DOMAIN FirstOf(s, n) : i \in DOMAIN s /\ FirstOf(s, n)[i] = s[i]
      BY FirstOfFacts
    <2>2. Len(s) \in Nat
      BY SeqFacts
    <2>3. QED
      BY <2>1, <2>2
  <1> DEFINE f == FirstOf(s, n)
  <1> HIDE DEF f
  <1>2. DOMAIN f = 1 .. Len(f)
    BY <1>1, SeqFacts DEF f
  <1>3. f \in Seq(Nat) /\ Len(f) = Len(s) /\ \A i \in 1 .. Len(f) : f[i] = s[i]
    BY <1>1, <1>2 DEF f
  <1>4. f = s
    BY <1>3, SeqEqual
  <1>5. QED
    BY <1>4 DEF f

\* A line that is there once.
LEMMA OnceCard ==
  ASSUME NEW t, NEW c, Once(out, t, c)
  PROVE  Cardinality(Lines(t, c)) = 1
  <1>1. PICK i \in DOMAIN out : KindIn(out, t, c) = {i}
    BY DEF Once
  <1>2. Lines(t, c) = {i}
    BY <1>1 DEF Lines, KindIn
  <1>3. QED
    BY <1>2, FS_Singleton

\* Each task that lives on is in the output once, with the addresses of its stack, or has no entry
\* in StackAll, which is full, and no line; and nobody is in the output that was not asked for.
THEOREM AllAreReported == StackSpec => []AllReported
  <1>1. ASSUME ReportInv
        PROVE  AllReported
    <2>8. ASSUME phase = "done", NEW i \in DOMAIN out
          PROVE  Asked(out[i].of)
      <3>1. StackTyping /\ EntriesOK /\ ShownOK /\ AnrOK
        BY <1>1 DEF ReportInv, StackInv
      <3>2. CASE Console
        BY <2>8, <3>1, <3>2 DEF EntriesOK, ShownOK, Recorded
      <3>3. CASE request.ask = "anr"
        BY <2>8, <3>1, <3>3 DEF AnrOK, Asked
      <3>4. CASE request.ask = "trace"
        BY <3>4 DEF Asked
      <3>5. QED
        BY <3>1, <3>2, <3>3, <3>4, AskFacts DEF Console
    <2> SUFFICES ASSUME phase = "done", NEW t \in alive, Asked(t), ~ LeftOut(t)
                 PROVE  Reported(t)
      BY <2>8 DEF AllReported
    <2> USE DEF Reported
    <2>1. StackTyping /\ EntriesOK /\ ShownOK /\ AnrOK /\ FileOK /\ WaitOK /\ TraceOK
      BY <1>1 DEF ReportInv, StackInv
    <2>2. t \in Tasks /\ UserPcs(t) \in Seq(Nat) /\ StackDepth \in Nat \ {0} /\ MaxStack \in Nat
      BY <2>1, AliveFacts, UserPcsFacts, LimitsAssumption
    <2>3. \A pcs : PrintedIn(out, t, pcs) => PrintedAs(t, pcs)
      BY DEF PrintedIn, PrintedAs, AddrsIn, Addresses
    <2>4. CASE request.ask \in {"all", "one"}
      <3>1. Console /\ Passed(t)
        BY <2>4 DEF Console, Passed
      <3>8. Recorded(t)
        <4>1. Len(all) # TaskNum \/ Recorded(t) \/ \E i \in DOMAIN out : out[i].of = t
          BY DEF LeftOut, Recorded
        <4>2. QED
          BY <2>1, <3>1, <4>1 DEF EntriesOK, ShownOK, Recorded
      <3>2. PICK k \in DOMAIN all : all[k].of = t
        BY <3>8 DEF Recorded
      <3>3. k < index
        <4>1. DOMAIN all = 1 .. Len(all) /\ Len(all) \in Nat /\ index \in Nat /\ index > Len(all)
          BY <2>1, <3>1, AllFacts DEF ShownOK
        <4>2. QED
          BY <4>1
      <3>4. Once(out, t, "kernel") /\ (MapList(MapsOf[Process(t)]) # << >> => PrintedIn(out, t, Kept(t)))
        BY <2>1, <3>1, <3>2, <3>3 DEF ShownOK
      <3>5. ASSUME Len(UserPcs(t)) <= StackDepth - 2
            PROVE  Kept(t) = FirstOf(UserPcs(t), MaxStack)
        <4> DEFINE s == FirstOf(UserPcs(t), MaxStack)
        <4>1. s \in Seq(Nat) /\ Len(s) = (IF Len(UserPcs(t)) < MaxStack THEN Len(UserPcs(t)) ELSE MaxStack)
          BY <2>2, FirstOfFacts
        <4>2. Len(UserPcs(t)) \in Nat
          BY <2>2, SeqFacts
        <4> HIDE DEF s
        <4>3. Len(s) <= StackDepth
          BY <2>2, <3>5, <4>1, <4>2
        <4>4. FirstOf(s, StackDepth) = s
          BY <2>2, <4>1, <4>3, FirstOfAll
        <4>5. QED
          BY <4>4 DEF Kept, s
      <3>6. Cardinality(Lines(t, "kernel")) = 1
        BY <3>4, OnceCard
      <3>7. QED
        BY <2>3, <2>4, <3>4, <3>5, <3>6
    <2>5. CASE request.ask = "anr"
      <3>1. t = request.pid
        BY <2>5 DEF Asked
      <3>2. Once(out, t, "kernel") /\ PrintedIn(out, t, FirstOf(UserPcs(t), StackDepth - 1))
        BY <2>1, <2>5, <3>1 DEF AnrOK
      <3>3. Len(UserPcs(t)) <= StackDepth - 2 => FirstOf(UserPcs(t), StackDepth - 1) = FirstOf(UserPcs(t), StackDepth)
        <4>1. Len(UserPcs(t)) \in Nat
          BY <2>2, SeqFacts
        <4>2. StackDepth - 1 \in Nat /\ StackDepth \in Nat
          BY <2>2
        <4>3. Len(UserPcs(t)) <= StackDepth - 2 => Len(UserPcs(t)) <= StackDepth - 1 /\ Len(UserPcs(t)) <= StackDepth
          BY <2>2, <4>1
        <4>4. QED
          BY <2>2, <4>2, <4>3, FirstOfAll
      <3>4. Cardinality(Lines(t, "kernel")) = 1
        BY <3>2, OnceCard
      <3>5. QED
        BY <2>3, <2>5, <3>2, <3>3, <3>4
    <2>6. CASE request.ask = "trace"
      <3>1. Written(t)
        BY DEF Written
      <3>2. PICK b \in 0 .. Len(file) : BlockAt(file, t, b)
        BY <2>1, <2>2, <2>6, <3>1 DEF FileOK
      <3>3. ReadUp(Shown, pos, t, b) /\ pos = Len(file) /\ pending = << >>
        BY <2>1, <2>2, <2>6, <3>2 DEF TraceOK, WaitOK
      <3>4. Shown = out
        BY <2>1, <3>3, ShownFacts
      <3> DEFINE a == Ahead(t)
                 d == Depth(t)
                 n == Len(file)
      <3>5. ReadUp(out, n, t, b)
        BY <3>3, <3>4
      <3>6. a \in {2, 3} /\ d \in Nat /\ DOMAIN UserPcs(t) = 1 .. d /\ d = Len(UserPcs(t))
        BY <2>1, <2>2, AheadFacts DEF Depth
      <3>7. n \in Nat /\ b + a + d + 1 \in 1 .. n
        <4>1. n \in Nat /\ DOMAIN file = 1 .. n
          BY <2>1, SeqFacts DEF StackTyping
        <4>2. QED
          BY <3>2, <4>1 DEF BlockAt
      <3> HIDE DEF a, d, n
      <3>8. ~ (n < b + 2) /\ ~ (n < b + a + d + 1) /\ ~ (n < b + a) /\ n > b + a + d
        BY <3>6, <3>7
      <3>9. Once(out, t, "kernel")
        BY <3>5, <3>8 DEF ReadUp
      <3>10. (\A u \in Tasks : Short(u)) => Once(out, t, "stack_end")
        BY <3>5, <3>8 DEF ReadUp, a, d
      <3>11. Short(t) => PrintedIn(out, t, UserPcs(t))
        <4>1. Seen(n, t, b) = d
          BY <3>8 DEF Seen, a, d
        <4>2. Short(t) => \E k \in 0 .. Len(out) : /\ AddrsIn(out, t) = {k + i : i \in 1 .. d}
                                                   /\ \A i \in 1 .. d : out[k + i].pc = UserPcs(t)[i]
          BY <3>5, <4>1 DEF ReadUp
        <4>3. QED
          BY <3>6, <4>2 DEF PrintedIn
      <3>12. Len(UserPcs(t)) <= StackDepth - 2 => Short(t) /\ FirstOf(UserPcs(t), StackDepth) = UserPcs(t)
        <4>1. Len(UserPcs(t)) <= StackDepth - 2 => Len(UserPcs(t)) <= StackDepth
          BY <2>2, <3>6
        <4>2. QED
          BY <2>2, <4>1, FirstOfAll DEF Short, Depth
      <3>13. (\A u \in Tasks : Len(UserPcs(u)) <= StackDepth - 2) => \A u \in Tasks : Short(u)
        BY DEF Short, Depth
      <3>14. /\ Cardinality(Lines(t, "kernel")) = 1
             /\ (\A u \in Tasks : Short(u)) => Cardinality(Lines(t, "stack_end")) = 1
        BY <3>9, <3>10, OnceCard
      <3>15. QED
        BY <2>3, <2>6, <3>11, <3>12, <3>13, <3>14
    <2>7. QED
      BY <2>1, <2>4, <2>5, <2>6, AskFacts
  <1>2. QED
    BY <1>1, ReportInvariance, PTL
=============================================================================
