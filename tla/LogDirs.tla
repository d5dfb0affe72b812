------------------------------ MODULE LogDirs ------------------------------
(***************************************************************************)
(* crashlog/fsutils.c find_new_crashlog_dir and its callers: the folders   *)
(* that hold the files of the events.                                      *)
(*                                                                         *)
(* Each kind of folder has a counter file with the number of the next      *)
(* folder, which goes round gmaxfiles numbers; the folder that had the     *)
(* number before is removed.  The folders are on the SD card when it may   *)
(* be used, and on the eMMC otherwise.  get_sdcard_paths decides at each   *)
(* call and leaves the answer in the globals CRASH_DIR, STATS_DIR,         *)
(* APLOGS_DIR and BZ_DIR, always set together: root here.                  *)
(*                                                                         *)
(* A handler gets a folder, writes the files of its event there, and       *)
(* records the event with the path of the folder.  Most handlers build     *)
(* that path after the call; the kernel events (kct_netlink.c) and the log *)
(* triggers (trigger.c) read the global before it.                         *)
(*                                                                         *)
(* Two writers come later, to the path they were given, whatever is there  *)
(* by then: a copy_dir thread, and the service logsystemstate that a       *)
(* tombstone, a Java crash or an ANR starts (start_dumpstate_srv).         *)
(***************************************************************************)
EXTENDS Integers, Sequences, FiniteSets

CONSTANTS
  MaxFiles,    \* gmaxfiles
  Modes,       \* the kinds of calls of this instance, of AllModes
  Packets,     \* folders one aplog trigger asks for
  NoFolder,    \* the event was recorded without a folder, or not at all
  MaxEvents,   \* bound of the model: events ever raised
  MaxFaults    \* bound of the model: failed calls, lost counters, updates of the
               \* software, changes of the SD card

AllModes == {"CRASH", "CRASH_NOSD", "KDUMP", "STATS", "APLOGS", "BZ"}

ASSUME SizesAssumption ==
  MaxFiles \in Nat \ {0} /\ Packets \in Nat
  /\ MaxEvents \in Nat /\ MaxFaults \in Nat
ASSUME ModesAssumption == Modes \subseteq AllModes

\* The counter files are shared between modes.
KindOf(mode) ==
  CASE mode = "STATS"  -> "stats"
    [] mode = "APLOGS" -> "aplogs"
    [] mode = "BZ"     -> "bz"
    [] OTHER           -> "crash"

Kinds == {KindOf(mode) : mode \in Modes}
Roots == {"EMMC", "SD", "KDUMP"}

Folders == [root : Roots, kind : Kinds, num : 0 .. MaxFiles - 1]

ASSUME NoFolderAssumption == NoFolder \notin Folders

NoJob == [left |-> 0, base |-> "EMMC"]

VARIABLES
  counter,   \* the number in each counter file; -1 when the file is missing
  root,      \* the place the four globals point at
  sd,        \* the SD card may be used: present, not full, not ruled out
  disk,      \* the events whose files are in each existing folder
  log,       \* the events raised: folder recorded, how, whether it left a late writer,
             \* and age of the folder
  job,       \* the aplog trigger being processed: packets left, path read at its start
  copies,    \* copy_dir threads that wait: event and destination
  service,   \* logsystemstate, when it runs: the event it works for, and the folder
  shown,     \* init has set PROP_LOGSYSTEMSTATE to running
  faults     \* how many of these happened

vars == <<counter, root, sd, disk, log, job, copies, service, shown, faults>>
-----------------------------------------------------------------------------
(* find_new_crashlog_dir.                                                  *)

\* get_sdcard_paths(mode): where the globals point from now on.
SdcardPaths(mode) == IF mode # "CRASH_NOSD" /\ sd THEN "SD" ELSE "EMMC"

\* The folder numbered n as a handler names it from root r.
Path(r, mode, n) ==
  [root |-> IF mode = "KDUMP" THEN "KDUMP" ELSE r, kind |-> KindOf(mode), num |-> n]

\* read_file: a missing counter file starts again at 0.
ReadFile(mode) == IF counter[KindOf(mode)] = -1 THEN 0 ELSE counter[KindOf(mode)]

\* NextNumber that never goes round, and one that writes the number it read.
NextNumberUnbounded(n) == n + 1
NextNumberSame(n) == n

\* update_file: the number for the next call.
NextNumber(n) == (n + 1) % MaxFiles

Without(d) == [f \in DOMAIN disk \ {d} |-> disk[f]]
With(c, d, es) == [f \in DOMAIN c \cup {d} |-> IF f = d THEN es ELSE c[f]]

\* FreshDir without the rmfr.
KeptDir(d) == With(disk, d, IF d \in DOMAIN disk THEN disk[d] ELSE {})

\* rmfr and mkdir: the folder is new and empty.
FreshDir(d) == With(Without(d), d, {})

\* The folders of this kind are one number older.
Aged(mode) ==
  [e \in DOMAIN log |->
     IF log[e].folder # NoFolder /\ log[e].folder.kind = KindOf(mode)
     THEN [log[e] EXCEPT !.age = IF @ < MaxFiles THEN @ + 1 ELSE @] ELSE log[e]]

\* A successful call: folder d is new.
Finds(mode, d) ==
  /\ root' = SdcardPaths(mode)
  /\ d = Path(SdcardPaths(mode), mode, ReadFile(mode))
  /\ counter' = [counter EXCEPT ![KindOf(mode)] = NextNumber(ReadFile(mode))]

\* A call that fails, in the counter file (which may be written or not, and no folder
\* is touched), or in mkdir (the old folder is removed unless rmfr failed too).
FindFails(mode) ==
  /\ root' = SdcardPaths(mode)
  /\ UNCHANGED <<copies, service, shown>>
  /\ LET k == KindOf(mode)
         d == Path(SdcardPaths(mode), mode, ReadFile(mode))
     IN  \/ UNCHANGED <<counter, disk, log>>
         \/ /\ counter' = [counter EXCEPT ![k] = ReadFile(mode)]
            /\ UNCHANGED <<disk, log>>
         \/ /\ counter' = [counter EXCEPT ![k] = NextNumber(ReadFile(mode))]
            /\ disk' \in {disk, Without(d)}
            /\ log' = Aged(mode)
-----------------------------------------------------------------------------
(* Handlers.                                                               *)

Entry(d, ordered, late) ==
  [folder |-> d, age |-> 0, ordered |-> ordered, late |-> late]

CanRaise == Len(log) < MaxEvents   \* bound of the model

\* The number of the event being handled.
This == Len(log) + 1

\* Files are written to the path the handler has, if that folder exists.
Written(c, d) == IF d \in DOMAIN c THEN With(c, d, c[d] \cup {This}) ELSE c

Free == job.left = 0

Fault == faults < MaxFaults /\ faults' = faults + 1

\* start_dumpstate_srv: PROP_LOGSYSTEMSTATE tells that the service runs.
Busy == service # {} /\ shown

\* The event that a second start finds: when init has not told yet, the service works
\* once, in the folder of crashlogd.storage.path that it reads, the old one or the new.
Started(d) == IF service = {} THEN {{<<This, d>>}} ELSE {service, {<<This, d>>}}

\* usercrash, anr, modem, panic, stat and other handlers: the path is built after the
\* call.  A crash whose file is gone is recorded without its folder; the event may be
\* dropped; one that is a whole directory leaves a copy_dir thread behind; a tombstone, a
\* Java crash or an ANR starts the service unless it is seen to run.
Report(mode) ==
  /\ Free /\ CanRaise
  /\ \E d \in Folders, late \in {"none", "thread", "service"},
        outcome \in {"recorded", "nofile", "dropped"} :
       /\ late # "none" => outcome = "recorded"
       /\ late = "thread" => mode \in {"CRASH", "STATS"}
       /\ late = "service" => mode = "CRASH" /\ ~Busy
       /\ outcome = "nofile" => mode = "CRASH"
       /\ Finds(mode, d)
       /\ disk' = IF outcome = "nofile" THEN FreshDir(d) ELSE Written(FreshDir(d), d)
       /\ log' = Append(Aged(mode), Entry(IF outcome = "recorded" THEN d ELSE NoFolder,
                                          TRUE, late # "none"))
       /\ copies' = IF late = "thread" THEN copies \cup {<<This, d>>} ELSE copies
       /\ IF late = "service" THEN service' \in Started(d) ELSE service' = service
  /\ UNCHANGED <<sd, job, shown, faults>>

\* A report whose path starts with base, the global read before the call.
ReportFrom(base, mode) ==
  \E d \in Folders :
    /\ Finds(mode, d)
    /\ LET named == Path(base, mode, d.num)
       IN  /\ disk' = Written(FreshDir(d), named)
           /\ log' = Append(Aged(mode), Entry(named, FALSE, FALSE))

\* kct_netlink.c process_netlink_msg, and process_log_event for a bz trigger.
ReportEarly(mode) ==
  /\ Free /\ CanRaise
  /\ ReportFrom(root, mode)
  /\ UNCHANGED <<sd, job, copies, service, shown, faults>>

\* process_log_event for an aplog trigger: one folder and one event per packet, all
\* under the path read at the start; a packet whose logs are missing makes neither.
BeginAplogs ==
  /\ Free /\ Packets > 0 /\ "APLOGS" \in Modes
  /\ job' = [left |-> Packets, base |-> root]
  /\ UNCHANGED <<counter, root, sd, disk, log, copies, service, shown, faults>>

Packet ==
  /\ ~Free /\ CanRaise
  /\ \/ ReportFrom(job.base, "APLOGS")
     \/ UNCHANGED <<counter, root, disk, log>>
  /\ job' = [job EXCEPT !.left = @ - 1]
  /\ UNCHANGED <<sd, copies, service, shown, faults>>

\* Any handler whose call fails: the event is recorded without a folder; an aplog or
\* bz trigger is given up.
ReportFails(mode) ==
  /\ mode = "APLOGS" <=> ~Free
  /\ Fault
  /\ FindFails(mode)
  /\ job' = NoJob
  /\ UNCHANGED sd

\* WrittenBy for a writer that looks up its place when it wakes up.
WrittenByGlobal(w) ==
  LET d == [w[2] EXCEPT !.root = root]
  IN  IF d \in DOMAIN disk THEN With(disk, d, disk[d] \cup {w[1]}) ELSE disk

\* A late writer writes to whatever folder has its path now.
WrittenBy(w) ==
  IF w[2] \in DOMAIN disk THEN With(disk, w[2], disk[w[2]] \cup {w[1]}) ELSE disk

\* A copy_dir thread wakes up and copies its files, one after the other.
LateCopy ==
  /\ \E c \in copies :
       /\ copies' \in {copies, copies \ {c}}
       /\ disk' = WrittenBy(c)
  /\ UNCHANGED <<counter, root, sd, log, job, service, shown, faults>>

\* dumpstate makes the folder again when it is missing.
MadeAgain(w) == IF w[2] \in DOMAIN disk THEN WrittenBy(w) ELSE With(disk, w[2], {w[1]})

\* The service writes dumpstate-<date>, and half a minute later dropbox-<date>.txt.
ServiceWrites ==
  /\ \E w \in service : disk' \in {WrittenBy(w), MadeAgain(w)}
  /\ UNCHANGED <<counter, root, sd, log, job, copies, service, shown, faults>>

ServiceShown ==
  /\ service # {} /\ ~shown
  /\ shown' = TRUE
  /\ UNCHANGED <<counter, root, sd, disk, log, job, copies, service, faults>>

\* It ends, in a user build at once.
ServiceEnds ==
  /\ service # {}
  /\ service' = {} /\ shown' = FALSE
  /\ UNCHANGED <<counter, root, sd, disk, log, job, copies, faults>>
-----------------------------------------------------------------------------
(* Surroundings.                                                           *)

\* The folder may go before it is recycled.
Expired(es) == [e \in DOMAIN log |-> IF e \in es THEN [log[e] EXCEPT !.age = MaxFiles]
                                     ELSE log[e]]

\* A CMDDELETE removes the folder of an event.
CmdDelete ==
  /\ \E e \in DOMAIN log :
       /\ log[e].folder # NoFolder
       /\ disk' = Without(log[e].folder)
       /\ log' = Expired({o \in DOMAIN log : log[o].folder = log[e].folder})
  /\ UNCHANGED <<counter, root, sd, job, copies, service, shown, faults>>

\* The SD card is inserted, removed, full, or ruled out.
SdChanges ==
  /\ Fault
  /\ sd' = ~sd
  /\ UNCHANGED <<counter, root, disk, log, job, copies, service, shown>>

OfKinds(ks) == {e \in DOMAIN log : log[e].folder # NoFolder /\ log[e].folder.kind \in ks}

\* A counter file is lost.
LoseCounter ==
  /\ Fault
  /\ \E k \in Kinds :
       /\ counter' = [counter EXCEPT ![k] = -1]
       /\ log' = Expired(OfKinds({k}))
  /\ UNCHANGED <<root, sd, disk, job, copies, service, shown>>

\* The daemon starts again; get_crash_env sets the globals.  The service goes on.
Respawn ==
  /\ root' = SdcardPaths("CRASH")
  /\ job' = NoJob /\ copies' = {}
  /\ UNCHANGED <<counter, sd, disk, log, service, shown, faults>>

\* After a software update it first resets three of the four counters.
BootAfterUpdate ==
  /\ Fault
  /\ counter' = [k \in Kinds |-> IF k = "bz" THEN counter[k] ELSE 0]
  /\ log' = Expired(OfKinds(Kinds \ {"bz"}))
  /\ root' = SdcardPaths("CRASH")
  /\ job' = NoJob /\ copies' = {} /\ service' = {} /\ shown' = FALSE
  /\ UNCHANGED <<sd, disk>>

\* The first boot is a software update: it made three of the counter files.
Init ==
  /\ counter = [k \in Kinds |-> IF k = "bz" THEN -1 ELSE 0]
  /\ sd \in BOOLEAN
  /\ root = SdcardPaths("CRASH")
  /\ disk = [d \in {} |-> {}]
  /\ log = << >> /\ job = NoJob /\ copies = {}
  /\ service = {} /\ shown = FALSE /\ faults = 0

Next ==
  \/ \E mode \in Modes \ {"APLOGS", "BZ"} : Report(mode)
  \/ \E mode \in Modes \cap {"STATS", "BZ"} : ReportEarly(mode)
  \/ BeginAplogs
  \/ Packet
  \/ \E mode \in Modes : ReportFails(mode)
  \/ LateCopy
  \/ ServiceWrites
  \/ ServiceShown
  \/ ServiceEnds
  \/ CmdDelete
  \/ SdChanges
  \/ LoseCounter
  \/ Respawn
  \/ BootAfterUpdate

Spec == Init /\ [][Next]_vars
-----------------------------------------------------------------------------
(* Properties.                                                             *)

TypeOK ==
  /\ counter \in [Kinds -> -1 .. MaxFiles - 1]
  /\ root \in {"EMMC", "SD"}
  /\ sd \in BOOLEAN
  /\ DOMAIN disk \subseteq Folders
  /\ \A d \in DOMAIN disk : disk[d] \subseteq DOMAIN log
  /\ \A e \in DOMAIN log :
       log[e] \in [folder : Folders \cup {NoFolder}, age : 0 .. MaxFiles,
                   ordered : BOOLEAN, late : BOOLEAN]
  /\ job \in [left : 0 .. Packets, base : {"EMMC", "SD"}]
  /\ copies \cup service \subseteq (DOMAIN log) \X Folders
  /\ shown \in BOOLEAN
  /\ faults \in 0 .. MaxFaults

\* The folder of event e is still the one it recorded: fewer than gmaxfiles folders of
\* its kind were made since, and nothing removed it or reset the counter.
Recent(e) == log[e].folder # NoFolder /\ log[e].age < MaxFiles

HasFiles(e) == log[e].folder \in DOMAIN disk /\ e \in disk[log[e].folder]

\* The files of a recorded event stay in the folder it names until gmaxfiles later
\* folders of its kind were asked for, on whatever storage and whether the calls
\* succeed: for the handlers that build the path after the call.
KeepsRecent ==
  \A e \in DOMAIN log : Recent(e) /\ log[e].ordered => HasFiles(e)

\* And that folder holds nothing of other events, except what a handler that read the path
\* early puts there, and what a thread or the service brings late to the folder it was
\* given: an older event of that folder, since which gmaxfiles folders were asked for.
OwnFilesOnly ==
  \A e \in DOMAIN log : Recent(e) /\ log[e].ordered =>
    \A o \in disk[log[e].folder] \ {e} :
      \/ ~log[o].ordered
      \/ log[o].late /\ log[o].folder = log[e].folder /\ o < e /\ ~Recent(o)

\* "The depth is the number of aplog to be copied in each created event 'crashlog'
\* directorie" (trigger.c:66): the files are in the folder of the event, whichever
\* handler recorded it.
FilesInCreatedFolder == \A e \in DOMAIN log : Recent(e) => HasFiles(e)
=============================================================================
