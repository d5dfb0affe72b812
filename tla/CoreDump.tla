------------------------------ MODULE CoreDump ------------------------------
(***************************************************************************)
(* How crashlogd reports the core dumps of the modem: mmgr_source.c,       *)
(* crashlog_check_mpanic_abort in modem.c, and the life of the daemon in   *)
(* main.c as far as it decides which of the two speaks.                    *)
(*                                                                         *)
(* The modem manager tells its client when a dump starts and when it ends. *)
(* The callbacks run in a thread of the client library and write messages  *)
(* into a pipe that the main loop reads.  START_CD creates the file        *)
(* MCD_PROCESSING; MPANIC removes it, takes the core file into a crash     *)
(* folder and raises the event.  At the first start after a boot, a        *)
(* MCD_PROCESSING left behind is reported as an aborted dump.  The other   *)
(* notifications go the way of MPANIC without the file or a core.          *)
(*                                                                         *)
(* Dumps are numbered.  The file MCD_PROCESSING is empty; here it carries  *)
(* the number of the dump that last wrote it.                              *)
(***************************************************************************)
EXTENDS Integers, Sequences, FiniteSets

CONSTANTS
  None,      \* no dump
  MaxDumps,  \* bound of the model: dumps
  MaxPipe,   \* bound of the model: messages between the modem manager and the loop
  MaxStops   \* bound of the model: times the daemon or the platform stops

Dumps == 1 .. MaxDumps

ASSUME BoundsAssumption == MaxDumps \in Nat /\ MaxPipe \in Nat /\ MaxStops \in Nat
ASSUME NoneAssumption == None \notin Nat

VARIABLES
  phase,      \* where the daemon is, see Phases
  token,      \* crashlogd.token is not empty: the daemon already ran in this boot
  marker,     \* MCD_PROCESSING
  pipe,       \* messages not read yet
  job,        \* the message mmgr_handle works on; NoJob between two calls
  aborting,   \* the dump crashlog_check_mpanic_abort works on
  running,    \* the dump in progress in the modem
  dumps,      \* dumps so far
  cores,      \* dumps whose core file is where the modem manager left it
  saved,      \* dumps whose core file is in a crash folder
  badcopies,  \* (observer) dumps whose core file could not be copied
  reports,    \* the events raised about dumps
  announced,  \* (observer) the last dump whose START_CD created the file
  lost,       \* (observer) dumps taken up and not reported: stopped half-way, or dropped
  missed,     \* (observer) dumps whose MPANIC was in the pipe when the daemon stopped
  stops       \* stops so far

life     == <<phase, token>>
handling == <<pipe, job, aborting>>
modem    == <<running, dumps, cores>>
outcome  == <<saved, badcopies, reports, lost, missed>>

vars == <<life, marker, handling, modem, outcome, announced, stops>>

\* Stopped; in early_check; in crashlog_check_mpanic_abort with the file removed; before
\* the token is set; subscribed without a pipe (or with no modem manager to listen to);
\* in the main loop.
Phases == {"down", "early", "abort", "checked", "subscribed", "loop"}

NoJob == [type |-> "none"]
StartCd(d) == [type |-> "START_CD", dump |-> d]
\* ok: the dump succeeded and left a core file.  step: how far mmgr_handle got.
Mpanic(d, ok, step) == [type |-> "MPANIC", dump |-> d, ok |-> ok, step |-> step]
-----------------------------------------------------------------------------
(* The modem manager and its callbacks.                                    *)

\* Before the pipe exists a callback writes to descriptor 0; with the daemon stopped
\* there is no callback.  The message is lost in both cases.
Notify(msg) == pipe' = IF phase = "loop" THEN Append(pipe, msg) ELSE pipe

CanNotify == Len(pipe) < MaxPipe   \* bound of the model

DumpStarts ==
  /\ running = None /\ dumps < MaxDumps /\ CanNotify
  /\ running' = dumps + 1 /\ dumps' = dumps + 1
  /\ Notify(StartCd(dumps + 1))
  /\ UNCHANGED <<life, marker, job, aborting, cores, outcome, announced, stops>>

DumpEnds ==
  /\ running # None /\ CanNotify
  /\ \E ok \in BOOLEAN :
       /\ cores' = IF ok THEN cores \cup {running} ELSE cores
       /\ Notify(Mpanic(running, ok, "read"))
  /\ running' = None
  /\ UNCHANGED <<life, marker, job, aborting, dumps, outcome, announced, stops>>
-----------------------------------------------------------------------------
(* mmgr_handle.                                                            *)

Read ==
  /\ phase = "loop" /\ job = NoJob /\ pipe # << >>
  /\ job' = Head(pipe) /\ pipe' = Tail(pipe)
  /\ UNCHANGED <<life, marker, aborting, modem, outcome, announced, stops>>

\* HandleStart that waits for the file of an earlier dump to go.
HandleStartStuck ==
  /\ job.type = "START_CD" /\ marker = None
  /\ \/ marker' = job.dump /\ announced' = job.dump
     \/ UNCHANGED <<marker, announced>>
  /\ job' = NoJob
  /\ UNCHANGED <<life, pipe, aborting, modem, outcome, stops>>

\* The file may fail to be created.
HandleStart ==
  /\ job.type = "START_CD"
  /\ \/ marker' = job.dump /\ announced' = job.dump
     \/ UNCHANGED <<marker, announced>>
  /\ job' = NoJob
  /\ UNCHANGED <<life, pipe, aborting, modem, outcome, stops>>

At(step) == job.type = "MPANIC" /\ job.step = step
GoTo(step) == job' = [job EXCEPT !.step = step]

\* RemoveMarker that leaves the file.
KeepMarker ==
  /\ At("read")
  /\ GoTo("find")
  /\ UNCHANGED <<life, marker, pipe, aborting, modem, outcome, announced, stops>>

RemoveMarker ==
  /\ At("read")
  /\ marker' = None
  /\ GoTo("find")
  /\ UNCHANGED <<life, pipe, aborting, modem, outcome, announced, stops>>

\* raise_event returns a key, or nothing when the event was dropped.
Raise(kind, d) ==
  \/ reports' = Append(reports, [kind |-> kind, dump |-> d]) /\ UNCHANGED lost
  \/ lost' = lost \cup {d} /\ UNCHANGED reports

\* FindFolder that goes on to remove the core.
FindFolderRemovesFirst ==
  /\ At("find")
  /\ \/ GoTo(IF job.ok THEN "remove" ELSE "raise") /\ UNCHANGED <<reports, lost>>
     \/ Raise("CRASH", job.dump) /\ job' = NoJob
  /\ UNCHANGED <<life, marker, pipe, aborting, modem, saved, badcopies, missed, announced, stops>>

\* find_new_crashlog_dir; when it fails the event is named CRASH and has no folder.
FindFolder ==
  /\ At("find")
  /\ \/ GoTo(IF job.ok THEN "copy" ELSE "raise") /\ UNCHANGED <<reports, lost>>
     \/ Raise("CRASH", job.dump) /\ job' = NoJob
  /\ UNCHANGED <<life, marker, pipe, aborting, modem, saved, badcopies, missed, announced, stops>>

\* do_copy_tail; what it returns is not looked at.
CopyCore ==
  /\ At("copy")
  /\ \/ saved' = saved \cup {job.dump} /\ UNCHANGED badcopies
     \/ badcopies' = badcopies \cup {job.dump} /\ UNCHANGED saved
  /\ GoTo("remove")
  /\ UNCHANGED <<life, marker, pipe, aborting, modem, reports, lost, missed, announced, stops>>

\* rmfr(cd_path).
RemoveCore ==
  /\ At("remove")
  /\ cores' = cores \ {job.dump}
  /\ GoTo("raise")
  /\ UNCHANGED <<life, marker, pipe, aborting, running, dumps, outcome, announced, stops>>

RaiseMpanic ==
  /\ At("raise")
  /\ Raise("MPANIC", job.dump)
  /\ job' = NoJob
  /\ UNCHANGED <<life, marker, pipe, aborting, modem, saved, badcopies, missed, announced, stops>>

Handle ==
  Read \/ HandleStart \/ RemoveMarker \/ FindFolder \/ CopyCore \/ RemoveCore \/ RaiseMpanic
-----------------------------------------------------------------------------
(* The life of the daemon.                                                 *)

\* main: early_check only when the token is empty, and not in a device that is being
\* encrypted, is not decrypted yet, or started in another mode.
Start ==
  /\ phase = "down"
  /\ phase' \in (IF token THEN {"checked"} ELSE {"early", "checked"})
  /\ UNCHANGED <<token, marker, handling, modem, outcome, announced, stops>>

\* EarlyCheck that drops the file with a software update.
EarlyCheckForgets(updated) ==
  /\ phase = "early"
  /\ cores' = IF updated THEN {} ELSE cores
  /\ aborting' = (IF updated THEN None ELSE marker) /\ marker' = None
  /\ phase' = IF marker # None /\ ~updated THEN "abort" ELSE "checked"
  /\ UNCHANGED <<token, pipe, job, running, dumps, outcome, announced, stops>>

\* early_check up to the removal of the file in crashlog_check_mpanic_abort.  After a
\* software update it empties the folder of the modem first.
EarlyCheck(updated) ==
  /\ phase = "early"
  /\ cores' = IF updated THEN {} ELSE cores
  /\ aborting' = marker /\ marker' = None
  /\ phase' = IF marker # None THEN "abort" ELSE "checked"
  /\ UNCHANGED <<token, pipe, job, running, dumps, outcome, announced, stops>>

\* RaiseAbort that resets the dump before it uses it.
RaiseAbortReset ==
  /\ phase = "abort"
  /\ aborting' = None /\ phase' = "checked"
  /\ Raise("ABORT", aborting')
  /\ UNCHANGED <<token, marker, pipe, job, modem, saved, badcopies, missed, announced, stops>>

RaiseAbort ==
  /\ phase = "abort"
  /\ Raise("ABORT", aborting)
  /\ aborting' = None /\ phase' = "checked"
  /\ UNCHANGED <<token, marker, pipe, job, modem, saved, badcopies, missed, announced, stops>>

\* check_crashlog_died, then the start of init_mmgr_cli_source.
CheckDied ==
  /\ phase = "checked"
  /\ token' = TRUE /\ phase' = "subscribed"
  /\ UNCHANGED <<marker, handling, modem, outcome, announced, stops>>

\* The end of init_mmgr_cli_source; it may never come.
CreatePipe ==
  /\ phase = "subscribed"
  /\ phase' = "loop"
  /\ UNCHANGED <<token, marker, handling, modem, outcome, announced, stops>>

\* Dumps whose report was under way and which nothing remembers any more.
InHand == {d \in Dumps : \/ aborting = d
                         \/ job.type = "MPANIC" /\ job.step # "read" /\ job.dump = d}

\* Dumps whose MPANIC waits or has just been read.
Waiting == {d \in Dumps : \/ \E i \in DOMAIN pipe : pipe[i].type = "MPANIC" /\ pipe[i].dump = d
                          \/ At("read") /\ job.dump = d}

Stopped ==
  /\ stops < MaxStops /\ stops' = stops + 1
  /\ phase' = "down" /\ pipe' = << >> /\ job' = NoJob /\ aborting' = None
  /\ lost' = lost \cup InHand
  /\ missed' = missed \cup Waiting
  /\ UNCHANGED <<marker, dumps, cores, saved, badcopies, reports, announced>>

\* The daemon dies; init starts it again.
Dies == phase # "down" /\ Stopped /\ UNCHANGED <<token, running>>

\* The platform restarts, and the modem with it.
Reboot == Stopped /\ token' = FALSE /\ running' = None

Init ==
  /\ phase = "down" /\ token = FALSE /\ marker = None
  /\ pipe = << >> /\ job = NoJob /\ aborting = None
  /\ running = None /\ dumps = 0 /\ cores = {}
  /\ saved = {} /\ badcopies = {} /\ reports = << >>
  /\ announced = None /\ lost = {} /\ missed = {} /\ stops = 0

Next ==
  \/ DumpStarts \/ DumpEnds
  \/ Handle
  \/ Start \/ (\E updated \in BOOLEAN : EarlyCheck(updated)) \/ RaiseAbort
  \/ CheckDied \/ CreatePipe
  \/ Dies \/ Reboot

\* The main loop goes on while the daemon lives.
Spec == Init /\ [][Next]_vars /\ WF_vars(Handle)
-----------------------------------------------------------------------------
(* Properties.                                                             *)

Messages == {StartCd(d) : d \in Dumps}
            \cup {Mpanic(d, ok, "read") : d \in Dumps, ok \in BOOLEAN}
Steps == {"read", "find", "copy", "remove", "raise"}

TypeOK ==
  /\ phase \in Phases /\ token \in BOOLEAN
  /\ marker \in Dumps \cup {None} /\ aborting \in Dumps \cup {None}
  /\ pipe \in Seq(Messages)
  /\ job \in {NoJob} \cup {StartCd(d) : d \in Dumps}
             \cup {Mpanic(d, ok, step) : d \in Dumps, ok \in BOOLEAN, step \in Steps}
  /\ running \in Dumps \cup {None} /\ dumps \in 0 .. MaxDumps
  /\ cores \subseteq Dumps /\ saved \subseteq Dumps /\ badcopies \subseteq Dumps
  /\ reports \in Seq([kind : {"MPANIC", "CRASH", "ABORT"}, dump : Dumps])
  /\ announced \in Dumps \cup {None}
  /\ lost \subseteq Dumps /\ missed \subseteq Dumps
  /\ stops \in 0 .. MaxStops

Reported(d) == \E i \in DOMAIN reports : reports[i].dump = d

\* A dump is reported at most once, whether it ended, was cut short, or the daemon and the
\* platform stopped anywhere in between.
ReportedOnce ==
  \A i, j \in DOMAIN reports : reports[i].dump = reports[j].dump => i = j

TakenUp(d) == d \in InHand \/ Reported(d) \/ d \in lost

\* The last dump whose START_CD created the file is not forgotten: the file is there, or
\* the dump was taken up.  Only a later dump can take the file with it, one whose own
\* START_CD never came through.
LastNotForgotten ==
  announced # None =>
    marker = announced \/ \E d \in announced .. MaxDumps : TakenUp(d)

\* A core file leaves the modem's folder when it is in a crash folder, when the copy
\* failed, or with a software update; and it has left it when MPANIC is raised, so that the
\* report finds the core beside it.
CoreKept ==
  [][/\ \A d \in cores \ cores' : d \in saved \cup badcopies \/ EarlyCheck(TRUE)
     /\ \A i \in DOMAIN reports' \ DOMAIN reports :
          reports'[i].kind = "MPANIC" => reports'[i].dump \notin cores]_vars

\* The end of a dump that reached the pipe is reported, unless the daemon stops first or
\* the event is dropped.
Answered ==
  \A d \in Dumps :
    d \in Waiting ~> (Reported(d) \/ d \in lost \cup missed)
=============================================================================
