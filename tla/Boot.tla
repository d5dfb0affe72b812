-------------------------------- MODULE Boot --------------------------------
(***************************************************************************)
(* The first start of crashlogd after a boot: main and early_check of      *)
(* main.c with the checks they call, in fabric.c, panic.c, modem.c,        *)
(* startupreason.c, recovery.c, fw_update.c and ramdump.c.                 *)
(*                                                                         *)
(* The last boot leaves traces: a fabric error, a panic console, files     *)
(* that others wrote.  Each check reports the trace it knows; two of them  *)
(* mark the startup reason as _FAKE or set the name of the watchdog event  *)
(* for the check of the startup reason, which comes later.  The property   *)
(* crashlogd.token, empty after a boot, tells a daemon that starts again   *)
(* that the traces were reported.                                          *)
(*                                                                         *)
(* The daemon may stop between any two calls that change something.  What  *)
(* a trace says is its kind; crashlog_check_mpanic_abort is in CoreDump,   *)
(* the history in History, and logs added to an event are left out.        *)
(***************************************************************************)
EXTENDS Integers, Sequences, FiniteSets

CONSTANTS
  Traces,        \* the traces of this instance, of AllTraces
  Starts,        \* how the platform may have started, of FdkStarts and UefiStarts
  Modes,         \* the boot modes of this instance, of AllModes
  CheckHwwdt,    \* cfg_check_hwwdt
  CheckRamPanic, \* cfg_check_ram_panic
  MaxTraces,     \* bound of the model: traces of the first boot
  MaxLater,      \* bound of the model: traces a later boot adds
  MaxBoots,      \* bound of the model: boots
  MaxStops,      \* bound of the model: times the daemon stops
  MaxFaults      \* bound of the model: events dropped, files not written

Trace(at, is) == [at |-> at, is |-> is]

Panics == {"plain", "swwdt", "swwdt_fake", "hwwdt", "fake"}

AllTraces ==
  {Trace("fabric", is) : is \in {"error", "hang", "fake", "message", "fake_message"}}
  \cup {Trace(at, is) : at \in {"console", "ram"}, is \in Panics}
  \cup {Trace("header", "plain")}
  \cup {Trace("kdump", is) : is \in {"entered", "unfinished", "finished"}}
  \cup {Trace("shutdown", "file"), Trace("recovery", "file")}
  \cup {Trace("fw", is) : is \in {"failed", "unreadable"}}

\* Started main, in an encrypted device that is not decrypted yet or is being
\* encrypted, in another OS, and in the ramconsole OS.
AllModes == {"main", "locked", "minimal", "ramconsole"}

FdkStarts  == [by : {"fdk"}, wakesrc : 0 .. 21]
UefiStarts == [by : {"uefi"}, wake : 0 .. 6, reset : 0 .. 9]

ASSUME InstanceAssumption ==
  /\ Traces \subseteq AllTraces /\ Modes \subseteq AllModes
  /\ Starts \subseteq FdkStarts \cup UefiStarts
  /\ CheckHwwdt \in BOOLEAN /\ CheckRamPanic \in BOOLEAN
ASSUME BoundsAssumption ==
  /\ MaxTraces \in Nat /\ MaxLater \in Nat /\ MaxBoots \in Nat \ {0}
  /\ MaxStops \in Nat /\ MaxFaults \in Nat

VARIABLES
  mode,        \* ro.boot.mode and the encryption state
  start,       \* what the firmware says of the start
  traces,      \* the traces that can be seen
  updated,     \* LOG_BUILDID names another build than the one that runs
  stale,       \* the logs are those of another build: not reset since
  token,       \* length of crashlogd.token
  phase,       \* where the daemon is
  reason,      \* startupreason: what it is, and whether it ends with _FAKE
  watchdog,    \* watchdog
  found,       \* (observer) the traces at the boot
  events,      \* the events raised in this boot
  again,       \* (observer) those raised more than once
  lost,        \* (observer) an event of this boot was dropped
  interrupted, \* (observer) the daemon stopped before it set the token, in this boot
  early,       \* (observer) the first start was in a locked device
  deaths,      \* (observer) times the daemon stopped in this boot
  dead,        \* CRASHLOG_DEAD events of this boot
  muted,       \* (observer) the daemon stopped between the token and that event
  boots, stops, faults  \* how many of these happened

platform == <<mode, start, found, boots>>
files    == <<traces, updated, stale>>
verdict  == <<reason, watchdog>>
raised   == <<events, again, lost, faults>>
life     == <<token, interrupted, early, deaths, dead, muted, stops>>

vars == <<platform, files, verdict, raised, life, phase>>
-----------------------------------------------------------------------------
(* The startup reason.                                                     *)

\* get_fdk_startupreason: wakesrc 21 stands for any value that is not decoded.
FdkReason(wakesrc) ==
  CASE wakesrc = 8                 -> "SWWDT_RESET"
    [] wakesrc = 10                -> "WDT_COUNTER_EXCEEDED"
    [] wakesrc \in {9, 18, 19, 20} -> "HWWDT_RESET_x"
    [] OTHER                       -> "OTHER"

\* compute_uefi_startupreason: a wake source hides the reset source.
UefiReason(wake, reset) ==
  CASE wake = 0 /\ reset = 4            -> "SWWDT_RESET"
    [] wake = 0 /\ reset \in {5, 7, 8, 9} -> "HWWDT_RESET"
    [] OTHER                            -> "OTHER"

\* read_startupreason
StartupReason(s) ==
  IF s.by = "uefi" THEN UefiReason(s.wake, s.reset) ELSE FdkReason(s.wakesrc)

\* strncmp(reason, "HWWDT_RESET", 11) and strstr(reason, "WDT_").
IsHwwdt(name) == name \in {"HWWDT_RESET", "HWWDT_RESET_x"}
IsWdt(name)   == IsHwwdt(name) \/ name \in {"SWWDT_RESET", "WDT_COUNTER_EXCEEDED"}

NoReason == [name |-> "none", fake |-> FALSE]
-----------------------------------------------------------------------------
(* Traces and events.                                                      *)

Sees(at)     == \E t \in traces : t.at = at
Says(at, is) == Trace(at, is) \in traces
Without(ats) == {t \in traces : t.at \notin ats}

GoTo(to) == phase' = to

\* The event is raised, or dropped.
Raise(type) ==
  \/ /\ events' = events \cup {type}
     /\ again' = IF type \in events THEN again \cup {type} ELSE again
     /\ UNCHANGED <<lost, faults>>
  \/ /\ faults < MaxFaults /\ faults' = faults + 1
     /\ lost' = TRUE
     /\ UNCHANGED <<events, again>>

RaiseAll(types) ==
  /\ events' = events \cup types
  /\ again' = again \cup (events \cap types)
  /\ UNCHANGED <<lost, faults>>
-----------------------------------------------------------------------------
(* main, swupdated, reset_after_swupdate.                                  *)

\* Start that looks at the traces again, and one that sets the token before.
StartAlways ==
  /\ phase = "down"
  /\ GoTo(IF mode = "main" THEN "build" ELSE "token")
  /\ reason' = NoReason /\ watchdog' = "WDT"
  /\ UNCHANGED <<platform, files, raised, life>>
StartTokenFirst ==
  /\ phase = "down"
  /\ token' = IF token = 0 THEN 1 ELSE token
  /\ GoTo(IF token = 0 /\ mode = "main" THEN "build" ELSE "token")
  /\ reason' = NoReason /\ watchdog' = "WDT"
  /\ UNCHANGED <<platform, files, raised, interrupted, early, deaths, dead, muted, stops>>

\* main up to the first check.  In another OS early_check_nomain only raises REBOOT and
\* STATE; in the ramconsole OS the token plays no part.
Start ==
  /\ phase = "down"
  /\ CASE mode = "ramconsole"             -> GoTo("panic")
       [] mode = "main" /\ token = 0      -> GoTo("build")
       [] mode = "minimal" /\ token = 0   -> GoTo("reboot")
       [] OTHER                           -> GoTo("token")
  /\ reason' = IF mode = "main" THEN NoReason
               ELSE [name |-> StartupReason(start), fake |-> FALSE]
  /\ watchdog' = "WDT"
  /\ early' = (early \/ (token = 0 /\ mode = "locked"))
  /\ UNCHANGED <<platform, files, raised, token, interrupted, deaths, dead, muted, stops>>

\* CheckBuild that leaves when LOG_BUILDID cannot be written, without a reason.
CheckBuildUnread ==
  /\ phase = "build"
  /\ \/ /\ updated
        /\ updated' = FALSE
        /\ reason' = [name |-> "SWUPDATE", fake |-> FALSE]
        /\ GoTo("reset")
        /\ UNCHANGED faults
     \/ /\ updated => faults < MaxFaults
        /\ faults' = IF updated THEN faults + 1 ELSE faults
        /\ reason' = IF updated THEN reason
                     ELSE [name |-> StartupReason(start), fake |-> FALSE]
        /\ GoTo("fabric")
        /\ UNCHANGED updated
  /\ UNCHANGED <<platform, traces, stale, watchdog, events, again, lost, life>>

\* swupdated; when LOG_BUILDID cannot be written the update is not seen.
CheckBuild ==
  /\ phase = "build"
  /\ \/ /\ updated
        /\ updated' = FALSE
        /\ reason' = [name |-> "SWUPDATE", fake |-> FALSE]
        /\ GoTo("reset")
        /\ UNCHANGED faults
     \/ /\ updated => faults < MaxFaults
        /\ faults' = IF updated THEN faults + 1 ELSE faults
        /\ reason' = [name |-> StartupReason(start), fake |-> FALSE]
        /\ GoTo("fabric")
        /\ UNCHANGED updated
  /\ UNCHANGED <<platform, traces, stale, watchdog, events, again, lost, life>>

\* reset_after_swupdate: the logs, and with them the file of a modem shutdown.
ResetAfterUpdate ==
  /\ phase = "reset"
  /\ stale' = FALSE
  /\ traces' = Without({"shutdown"})
  /\ GoTo("fabric")
  /\ UNCHANGED <<platform, updated, verdict, raised, life>>
-----------------------------------------------------------------------------
(* fabric.c, panic.c                                                       *)

\* CheckFabric that leaves the reason as it is.
CheckFabricNoFake ==
  /\ phase = "fabric"
  /\ IF Sees("fabric")
     THEN /\ Raise(IF Says("fabric", "error") THEN "FABRIC" ELSE "FABRIC_FAKE")
          /\ UNCHANGED verdict
     ELSE /\ watchdog' = IF IsHwwdt(reason.name) /\ CheckHwwdt
                         THEN "HWWDT_UNHANDLED" ELSE watchdog
          /\ UNCHANGED <<reason, raised>>
  /\ GoTo("panic")
  /\ UNCHANGED <<platform, files, life>>

\* crashlog_check_fabric_events
CheckFabric ==
  /\ phase = "fabric"
  /\ IF Sees("fabric")
     THEN LET fake == Says("fabric", "fake") \/ Says("fabric", "fake_message")
          IN  /\ Raise(CASE Says("fabric", "error") -> "FABRIC"
                         [] Says("fabric", "fake")  -> "FABRIC_FAKE"
                         [] OTHER                   -> "FABRIC_INFO")
              /\ reason' = [reason EXCEPT !.fake = @ \/ (fake /\ IsHwwdt(reason.name))]
              /\ UNCHANGED watchdog
     ELSE /\ watchdog' = IF IsHwwdt(reason.name) /\ CheckHwwdt
                         THEN "HWWDT_UNHANDLED" ELSE watchdog
          /\ UNCHANGED <<reason, raised>>
  /\ GoTo("panic")
  /\ UNCHANGED <<platform, files, life>>

\* The trace the three panic checks agree on: console, RAM console, header.
PanicTrace ==
  CASE Sees("console") -> CHOOSE t \in traces : t.at = "console"
    [] ~Sees("console") /\ Sees("ram") -> CHOOSE t \in traces : t.at = "ram"
    [] OTHER -> Trace("header", "plain")

\* set_ipanic_crashtype_and_reason: the event, the reason and the errors.  Only a reason
\* that is exactly HWWDT_RESET_FAKE makes the panic a fake one.
PanicType(is) ==
  CASE is = "swwdt_fake" -> "IPANIC_SWWDT_FAKE"
    [] is = "fake"       -> "IPANIC_FAKE"
    [] is \notin {"swwdt_fake", "fake"} /\ IsHwwdt(reason.name) ->
         IF reason.name = "HWWDT_RESET" /\ reason.fake THEN "IPANIC_FAKE" ELSE "IPANIC_HWWDT"
    [] OTHER -> CASE is = "swwdt" -> "IPANIC_SWWDT"
                  [] is = "hwwdt" -> "IPANIC_HWWDT"
                  [] OTHER        -> "IPANIC"

FakePanic(is) == is \in {"swwdt_fake", "fake"}

PanicErrors(is) ==
  IF FakePanic(is) \/ IsHwwdt(reason.name) \/ reason.name = "SWWDT_RESET"
  THEN {} ELSE {"SWWDT_MISSING"}

\* CheckPanic that clears the traces first.
CheckPanicClears ==
  /\ phase = "panic"
  /\ traces' = Without({"console", "header"})
  /\ IF Sees("console") \/ Sees("ram") \/ Sees("header")
     THEN /\ RaiseAll({PanicType(PanicTrace.is)})
          /\ reason' = [reason EXCEPT !.fake = @ \/ FakePanic(PanicTrace.is)]
          /\ UNCHANGED watchdog
     ELSE UNCHANGED <<verdict, raised>>
  /\ GoTo("panic_raised")
  /\ UNCHANGED <<platform, updated, stale, life>>

\* crashlog_check_panic, crashlog_check_ram_panic, crashlog_check_panic_header.
CheckPanic ==
  /\ phase = "panic"
  /\ IF Sees("console") \/ Sees("ram") \/ Sees("header")
     THEN LET is == PanicTrace.is
          IN  /\ \/ RaiseAll({PanicType(is)} \cup PanicErrors(is))
                 \/ /\ faults < MaxFaults /\ faults' = faults + 1
                    /\ lost' = TRUE /\ UNCHANGED <<events, again>>
              /\ reason' = [reason EXCEPT !.fake = @ \/ FakePanic(is)]
              /\ UNCHANGED watchdog
     ELSE /\ watchdog' = IF reason.name = "SWWDT_RESET" /\ CheckRamPanic
                         THEN "WDT_UNHANDLED" ELSE watchdog
          /\ UNCHANGED <<reason, raised>>
  /\ GoTo("panic_raised")
  /\ UNCHANGED <<platform, files, life>>

\* The end of crashlog_check_panic_events: the panic partition is cleared.
ClearPanic ==
  /\ phase = "panic_raised"
  /\ traces' = Without({"console", "header"})
  /\ GoTo(IF mode = "ramconsole" THEN "ramdump" ELSE "kdump")
  /\ UNCHANGED <<platform, updated, stale, verdict, raised, life>>

\* crashlog_check_kdump: an unfinished dump is reported and left; a finished one is
\* removed once it has an event and a folder.
CheckKdump ==
  /\ phase = "kdump"
  /\ \/ /\ Says("kdump", "finished")
        /\ Raise("KDUMP")
        /\ GoTo("kdump_raised")
     \/ /\ Says("kdump", "finished")
        /\ faults < MaxFaults /\ faults' = faults + 1
        /\ events' = events \cup {"KDUMP"}
        /\ again' = IF "KDUMP" \in events THEN again \cup {"KDUMP"} ELSE again
        /\ GoTo("shutdown")
        /\ UNCHANGED lost
     \/ /\ Says("kdump", "entered") \/ Says("kdump", "unfinished")
        /\ Raise("KDUMP_ERROR")
        /\ GoTo("shutdown")
     \/ /\ ~Sees("kdump")
        /\ GoTo("shutdown")
        /\ UNCHANGED raised
  /\ UNCHANGED <<platform, files, verdict, life>>

RemoveKdump ==
  /\ phase = "kdump_raised"
  /\ traces' = Without({"kdump"})
  /\ GoTo("shutdown")
  /\ UNCHANGED <<platform, updated, stale, verdict, raised, life>>
-----------------------------------------------------------------------------
(* modem.c, startupreason.c, recovery.c, fw_update.c, ramdump.c            *)

\* A check that raises an event and then removes the file it found: crashlog_check_
\* modem_shutdown and crashlog_check_recovery.
CheckFile(at, type, raisedAt, next) ==
  /\ phase = at
  /\ IF Sees(at) THEN Raise(type) /\ GoTo(raisedAt)
                 ELSE UNCHANGED raised /\ GoTo(next)
  /\ UNCHANGED <<platform, files, verdict, life>>

RemoveFile(at, raisedAt, next) ==
  /\ phase = raisedAt
  /\ traces' = Without({at})
  /\ GoTo(next)
  /\ UNCHANGED <<platform, updated, stale, verdict, raised, life>>

CheckShutdown  == CheckFile("shutdown", "MSHUTDOWN", "shutdown_raised", "wdt")
RemoveShutdown == RemoveFile("shutdown", "shutdown_raised", "wdt")
CheckRecovery  == CheckFile("recovery", "RECOVERY_ERROR", "recovery_raised", "reboot")
RemoveRecovery == RemoveFile("recovery", "recovery_raised", "reboot")

\* crashlog_check_startupreason
CheckStartupReason ==
  /\ phase = "wdt"
  /\ IF IsWdt(reason.name) /\ ~reason.fake THEN Raise(watchdog) ELSE UNCHANGED raised
  /\ GoTo("recovery")
  /\ UNCHANGED <<platform, files, verdict, life>>

\* crashlog_check_ramdump
CheckRamdump ==
  /\ phase = "ramdump"
  /\ Raise("RAMDUMP")
  /\ GoTo("reboot")
  /\ UNCHANGED <<platform, files, verdict, life>>

\* The REBOOT event of early_check, early_check_nomain and do_ramdump_checks.
RaiseReboot ==
  /\ phase = "reboot"
  /\ Raise("REBOOT")
  /\ GoTo(CASE mode = "ramconsole" -> "global_reset"
            [] mode = "minimal"    -> "state"
            [] OTHER               -> "flash")
  /\ UNCHANGED <<platform, files, verdict, life>>

\* After an update without the file of a complete flashing.
RaiseFlash ==
  /\ phase = "flash"
  /\ \/ reason.name = "SWUPDATE" /\ Raise("NO_BLANKPHONE")
     \/ UNCHANGED raised
  /\ GoTo("fw")
  /\ UNCHANGED <<platform, files, verdict, life>>

\* crashlog_check_fw_update_status clears the status, which may fail, and then reports it.
CheckFw ==
  /\ phase = "fw"
  /\ \/ /\ Says("fw", "failed")
        /\ traces' = Without({"fw"})
        /\ GoTo("fw_cleared")
        /\ UNCHANGED raised
     \/ /\ Says("fw", "failed")
        /\ faults < MaxFaults /\ faults' = faults + 1
        /\ GoTo("fw_cleared")
        /\ UNCHANGED <<traces, events, again, lost>>
     \/ /\ Says("fw", "unreadable")
        /\ Raise("FW_UPDATE_NO_STATUS")
        /\ GoTo("state")
        /\ UNCHANGED traces
     \/ /\ ~Sees("fw")
        /\ GoTo("state")
        /\ UNCHANGED <<traces, raised>>
  /\ UNCHANGED <<platform, updated, stale, verdict, life>>

RaiseFw ==
  /\ phase = "fw_cleared"
  /\ Raise("FW_UPDATE_ERROR")
  /\ GoTo("state")
  /\ UNCHANGED <<platform, files, verdict, life>>

RaiseState ==
  /\ phase = "state"
  /\ Raise("STATE")
  /\ GoTo("token")
  /\ UNCHANGED <<platform, files, verdict, life>>

\* CheckDied that counts from the first start.
CheckDiedEarly ==
  /\ phase = "token"
  /\ token' = IF token < 4 THEN token + 1 ELSE token
  /\ GoTo(IF token < 4 THEN "dead" ELSE "up")
  /\ UNCHANGED <<platform, files, verdict, raised, interrupted, early, deaths, dead, muted, stops>>

\* check_crashlog_died: the token grows up to four characters; each time it has two or
\* more the daemon is reported dead.
CheckDied ==
  /\ phase = "token"
  /\ token' = IF token < 4 THEN token + 1 ELSE token
  /\ GoTo(IF token \in 1 .. 3 THEN "dead" ELSE "up")
  /\ UNCHANGED <<platform, files, verdict, raised, interrupted, early, deaths, dead, muted, stops>>

RaiseDead ==
  /\ phase = "dead"
  /\ \/ dead' = dead + 1 /\ UNCHANGED <<lost, faults>>
     \/ faults < MaxFaults /\ faults' = faults + 1 /\ lost' = TRUE /\ UNCHANGED dead
  /\ GoTo("up")
  /\ UNCHANGED <<platform, files, verdict, events, again, token, interrupted, early,
                 deaths, muted, stops>>
-----------------------------------------------------------------------------
(* The platform.                                                           *)

\* The daemon dies; init starts it again.
Dies ==
  /\ phase # "down" /\ stops < MaxStops /\ stops' = stops + 1
  /\ phase' = "down" /\ deaths' = deaths + 1
  /\ interrupted' = (interrupted \/ token = 0)
  /\ muted' = (muted \/ phase = "dead")
  /\ UNCHANGED <<platform, files, verdict, raised, token, early, dead>>

\* The device is decrypted: the next start of the daemon is a normal one.
Unlock ==
  /\ mode = "locked" /\ mode' = "main"
  /\ UNCHANGED <<start, found, boots, files, verdict, raised, life, phase>>

\* At most n traces, no two at the same place.
TraceSets(n) ==
  {ts \in {{}} \cup {{f[i] : i \in 1 .. n} : f \in [1 .. n -> Traces]} :
     \A s, t \in ts : s.at = t.at => s = t}

\* The traces that outlive a boot: the panic partition and the files.
Kept == {t \in traces : t.at \in {"console", "header", "kdump", "shutdown", "recovery", "fw"}}

\* The platform starts again, perhaps with another build.  do_ramdump_checks asks for it;
\* unless it is told not to, in which case the process ends.
Reboot ==
  /\ boots < MaxBoots /\ boots' = boots + 1
  /\ \E ts \in TraceSets(MaxLater) :
       traces' = ts \cup {t \in Kept : \A s \in ts : s.at # t.at}
  /\ found' = traces'
  /\ mode' \in Modes /\ start' \in Starts
  /\ \E new \in BOOLEAN : updated' = (updated \/ new) /\ stale' = (stale \/ new)
  /\ phase' = "down" /\ token' = 0
  /\ reason' = NoReason /\ watchdog' = "WDT"
  /\ events' = {} /\ again' = {} /\ lost' = FALSE
  /\ interrupted' = FALSE /\ early' = FALSE /\ deaths' = 0 /\ dead' = 0 /\ muted' = FALSE
  /\ UNCHANGED <<stops, faults>>

EndRamdump ==
  /\ phase = "global_reset" /\ stops < MaxStops /\ stops' = stops + 1
  /\ phase' = "down" /\ deaths' = deaths + 1
  /\ interrupted' = TRUE
  /\ UNCHANGED <<platform, files, verdict, raised, token, early, dead, muted>>

Init ==
  /\ traces \in TraceSets(MaxTraces) /\ found = traces
  /\ mode \in Modes /\ start \in Starts
  /\ updated \in BOOLEAN /\ stale = updated
  /\ phase = "down" /\ token = 0 /\ reason = NoReason /\ watchdog = "WDT"
  /\ events = {} /\ again = {} /\ lost = FALSE
  /\ interrupted = FALSE /\ early = FALSE /\ deaths = 0 /\ dead = 0 /\ muted = FALSE
  /\ boots = 1 /\ stops = 0 /\ faults = 0

Step ==
  \/ Start \/ CheckBuild \/ ResetAfterUpdate
  \/ CheckFabric \/ CheckPanic \/ ClearPanic \/ CheckKdump \/ RemoveKdump
  \/ CheckShutdown \/ RemoveShutdown \/ CheckStartupReason
  \/ CheckRecovery \/ RemoveRecovery \/ CheckRamdump
  \/ RaiseReboot \/ RaiseFlash \/ CheckFw \/ RaiseFw \/ RaiseState
  \/ CheckDied \/ RaiseDead

Next == Step \/ Dies \/ EndRamdump \/ Unlock \/ Reboot

\* init starts the daemon, and its start is a straight line of calls.
Spec == Init /\ [][Next]_vars /\ WF_vars(Step)
-----------------------------------------------------------------------------
(* Properties.                                                             *)

WatchdogNames == {"WDT", "HWWDT_UNHANDLED", "WDT_UNHANDLED"}
PanicNames == {"IPANIC", "IPANIC_SWWDT", "IPANIC_HWWDT", "IPANIC_FAKE", "IPANIC_SWWDT_FAKE"}
FabricNames == {"FABRIC", "FABRIC_FAKE", "FABRIC_INFO"}
Types ==
  WatchdogNames \cup PanicNames \cup FabricNames
  \cup {"SWWDT_MISSING", "KDUMP", "KDUMP_ERROR", "MSHUTDOWN", "RECOVERY_ERROR", "REBOOT",
        "RAMDUMP", "NO_BLANKPHONE", "FW_UPDATE_ERROR", "FW_UPDATE_NO_STATUS", "STATE"}

Phases ==
  {"down", "build", "reset", "fabric", "panic", "panic_raised", "kdump", "kdump_raised",
   "shutdown", "shutdown_raised", "wdt", "recovery", "recovery_raised", "ramdump", "reboot",
   "global_reset", "flash", "fw", "fw_cleared", "state", "token", "dead", "up"}

ReasonNames ==
  {"none", "OTHER", "SWUPDATE", "SWWDT_RESET", "HWWDT_RESET", "HWWDT_RESET_x",
   "WDT_COUNTER_EXCEEDED"}
Reasons == [name : ReasonNames, fake : BOOLEAN]

PlatformOK ==
  /\ mode \in AllModes /\ start \in Starts
  /\ traces \subseteq Traces /\ found \subseteq Traces
  /\ \A s, t \in traces : s.at = t.at => s = t
  /\ updated \in BOOLEAN /\ stale \in BOOLEAN
VerdictOK ==
  /\ phase \in Phases /\ reason \in Reasons /\ watchdog \in WatchdogNames
  /\ phase \notin {"down", "build", "token", "dead", "up"} => reason.name # "none"
RaisedOK == events \subseteq Types /\ again \subseteq events /\ lost \in BOOLEAN
LifeOK ==
  /\ token \in 0 .. 4 /\ deaths \in Nat /\ dead \in Nat
  /\ interrupted \in BOOLEAN /\ early \in BOOLEAN /\ muted \in BOOLEAN
BoundsOK ==
  /\ boots \in 1 .. MaxBoots /\ stops \in 0 .. MaxStops /\ faults \in 0 .. MaxFaults

\* Typing, and a reason that was read before a check uses it.
TypeOK == PlatformOK /\ VerdictOK /\ RaisedOK /\ LifeOK /\ BoundsOK

\* The traces of this boot make a reset of that name a fake one.
FakeReset(name) ==
  \/ \E t \in found : t.at = "console" /\ FakePanic(t.is)
  \/ /\ \A t \in found : t.at # "console"
     /\ \E t \in found : t.at = "ram" /\ FakePanic(t.is)
  \/ IsHwwdt(name) /\ \E t \in found : t.at = "fabric" /\ t.is \in {"fake", "fake_message"}

\* When the first start is over and nothing stopped or was dropped, a watchdog reset has
\* brought one watchdog event, or a trace showed it was faked; nothing else brings one.  The
\* event is called unhandled only when no panic, or no fabric error, was reported.
WatchdogExplained ==
  phase = "token" /\ token = 0 /\ mode = "main" /\ ~early /\ ~interrupted /\ ~lost =>
    LET name == StartupReason(start)
        wdt  == events \cap WatchdogNames
    IN  /\ Cardinality(wdt) =
             IF IsWdt(name) /\ ~FakeReset(name) /\ reason.name # "SWUPDATE" THEN 1 ELSE 0
        /\ wdt = {"WDT_UNHANDLED"} => events \cap PanicNames = {}
        /\ wdt = {"HWWDT_UNHANDLED"} => events \cap FabricNames = {}

\* The token is set only after the REBOOT event of the boot, wherever the daemon stopped before;
\* unless the event was dropped or the daemon started in a locked device.
TokenAfterReboot ==
  token > 0 /\ ~early /\ ~lost => "REBOOT" \in events

\* No event is raised twice in a boot unless the daemon stopped before it set the token.
RaisedOnce == ~interrupted => again = {}

\* A trace that a check removes was reported in this boot, or its event dropped; only an
\* update takes the file of a modem shutdown, and a firmware status is cleared first.
ReportedAs(at) ==
  CASE at \in {"console", "header"} -> PanicNames
    [] at = "kdump"                 -> {"KDUMP"}
    [] at = "shutdown"              -> {"MSHUTDOWN"}
    [] at = "recovery"              -> {"RECOVERY_ERROR"}
    [] OTHER                        -> Types

TracesReported ==
  [][Step => \A t \in traces \ traces' :
       \/ events \cap ReportedAs(t.at) # {} \/ lost
       \/ ResetAfterUpdate \/ t.at = "fw"]_vars

\* A daemon is reported dead only if it stopped in this boot, at most once per stop, and it is
\* reported when it comes back after its first start: unless the event was dropped or the
\* daemon stopped just before it.
DeathReported ==
  /\ dead <= deaths /\ dead <= 3
  /\ phase = "up" /\ token > 1 /\ ~lost /\ ~muted => dead = token - 1

\* Each boot of the main OS is recorded, wherever the daemon stops, unless the platform
\* starts again first.
RebootRecorded ==
  \A b \in 1 .. MaxBoots :
    (boots = b /\ mode = "main" /\ ~early) ~> ("REBOOT" \in events \/ lost \/ early \/ boots > b)

=============================================================================
