----------------------------- MODULE BootProofs -----------------------------
(***************************************************************************)
(* Proofs about Boot, for every set of traces and starts and every number  *)
(* of boots and stops.  One invariant has these parts, besides the types:  *)
(*   Shown     what the phase tells of the REBOOT event;                   *)
(*   Fresh     which events a first start can have raised at a phase;      *)
(*   Counted   the deaths behind the length of the token;                  *)
(*   Untouched the kernel's traces are those found, until they are cleared;*)
(*   Verdict   what the traces made of the reason and the watchdog's name; *)
(*   OneName   which watchdog event was raised;                            *)
(*   Told      a trace about to be removed has its event.                  *)
(***************************************************************************)
EXTENDS Boot, FiniteSetTheorems, TLAPS

KernelNames == FabricNames \cup PanicNames \cup {"SWWDT_MISSING"}
DumpNames   == KernelNames \cup {"KDUMP", "KDUMP_ERROR"}
ModemNames  == DumpNames \cup {"MSHUTDOWN"}
CheckNames  == ModemNames \cup WatchdogNames
BootNames   == CheckNames \cup {"RECOVERY_ERROR", "RAMDUMP"}

\* The events a first start can have raised when it comes to phase p.
Before(p) ==
  CASE p \in {"build", "reset", "fabric"}      -> {}
    [] p = "panic"                             -> FabricNames
    [] p \in {"panic_raised", "kdump", "ramdump"} -> KernelNames
    [] p \in {"kdump_raised", "shutdown"}      -> DumpNames
    [] p \in {"shutdown_raised", "wdt"}        -> ModemNames
    [] p = "recovery"                          -> CheckNames
    [] p \in {"recovery_raised", "reboot"}     -> BootNames
    [] p \in {"flash", "global_reset"}         -> BootNames \cup {"REBOOT"}
    [] p \in {"fw", "fw_cleared"}              -> BootNames \cup {"REBOOT", "NO_BLANKPHONE"}
    [] p = "state"                             -> Types \ {"STATE"}
    [] OTHER                                   -> Types

AfterReboot == {"flash", "fw", "fw_cleared", "state", "global_reset", "token", "dead", "up"}

Shown ==
  /\ TokenAfterReboot
  /\ phase \in AfterReboot /\ ~early /\ ~lost => "REBOOT" \in events

Fresh ==
  /\ ~interrupted => again = {} /\ events \subseteq Before(phase)
  /\ ~interrupted /\ token = 0 /\ phase = "down" => events = {}
  /\ mode = "ramconsole" => token = 0
  /\ mode = "ramconsole" => phase \in {"down", "panic", "panic_raised", "ramdump", "reboot",
                                       "global_reset"}
  /\ token > 0 => phase \in {"down", "token", "dead", "up"}

Counted ==
  /\ phase = "dead" => token \in 2 .. 4
  /\ token > 0 => deaths >= (IF phase \in {"dead", "up"} THEN token - 1 ELSE token)
  /\ dead <= (IF phase = "dead" THEN token - 2 ELSE IF token = 0 THEN 0 ELSE token - 1)
  /\ token > 0 /\ ~lost /\ ~muted =>
       dead = (IF phase = "dead" THEN token - 2 ELSE token - 1)

\* What the checks of the kernel's traces look at.
KernelPlaces == {"fabric", "console", "ram", "header"}
Looking      == {"down", "build", "reset", "fabric", "panic", "panic_raised"}
Unread       == {"down", "build", "reset", "fabric"}
Judged       == {"recovery", "recovery_raised", "reboot", "flash", "fw", "fw_cleared", "state",
                 "token"}

FakeFabric(name) ==
  IsHwwdt(name) /\ \E t \in found : t.at = "fabric" /\ t.is \in {"fake", "fake_message"}

\* Nothing has disturbed the first start of this boot so far.
FirstStart == mode = "main" /\ token = 0 /\ ~early /\ ~interrupted /\ ~lost

\* The kernel's traces are there until they are cleared; in a locked device no start is a first
\* start of a decrypted one, and only the ramconsole OS looks for a RAM dump.
Untouched ==
  /\ token = 0 /\ ~interrupted /\ phase = "down" => traces = found
  /\ mode = "locked" /\ token = 0 /\ phase # "down" => early
  /\ phase = "ramdump" => mode = "ramconsole"
  /\ FirstStart /\ phase \in Looking =>
       \A t \in Traces : t.at \in KernelPlaces => (t \in traces <=> t \in found)

\* The reason and the watchdog's name agree with the traces found and the events raised.
Verdict ==
  FirstStart =>
    /\ phase = "reset" => reason.name = "SWUPDATE"
    /\ phase \notin {"down", "build"} => reason.name \in {StartupReason(start), "SWUPDATE"}
    /\ phase \in Unread \ {"down"} => watchdog = "WDT" /\ reason.fake = FALSE
    /\ phase = "panic" => (reason.fake = TRUE <=> FakeFabric(reason.name))
    /\ phase \notin Unread \cup {"panic"} => (reason.fake = TRUE <=> FakeReset(reason.name))
    /\ watchdog = "HWWDT_UNHANDLED" => events \cap FabricNames = {}
    /\ watchdog = "WDT_UNHANDLED" => events \cap PanicNames = {} /\ phase # "panic"

\* The check of the startup reason raises one watchdog event, or none.
OneName ==
  FirstStart =>
     events \cap WatchdogNames =
       IF phase \in Judged /\ IsWdt(reason.name) /\ reason.fake = FALSE THEN {watchdog} ELSE {}

\* Between a check and the removal of its trace the event was raised, or dropped.
Told ==
  lost \/ /\ phase = "panic_raised" /\ (Sees("console") \/ Sees("header")) =>
              events \cap PanicNames # {}
          /\ phase = "kdump_raised" => "KDUMP" \in events
          /\ phase = "shutdown_raised" => "MSHUTDOWN" \in events
          /\ phase = "recovery_raised" => "RECOVERY_ERROR" \in events

Inv == TypeOK /\ Shown /\ Fresh /\ Counted /\ Untouched /\ Verdict /\ OneName /\ Told

\* What a boot may show is among the traces of the instance.
LEMMA TraceSetsFacts ==
  ASSUME NEW n, NEW ts \in TraceSets(n)
  PROVE  ts \subseteq Traces /\ \A s, t \in ts : s.at = t.at => s = t
<1>1. \A s, t \in ts : s.at = t.at => s = t
  BY DEF TraceSets
<1>2. CASE ts = {}
  BY <1>1, <1>2
<1>3. CASE ts \in {{f[i] : i \in 1 .. n} : f \in [1 .. n -> Traces]}
  <2>1. PICK f \in [1 .. n -> Traces] : ts = {f[i] : i \in 1 .. n}
    BY <1>3
  <2> QED
    BY <1>1, <2>1
<1> QED
  BY <1>2, <1>3 DEF TraceSets

\* Before the first start of the daemon nothing is raised and nothing has died.
LEMMA InvInit == Init => Inv
<1> SUFFICES ASSUME Init PROVE Inv
  OBVIOUS
<1>1. traces \subseteq Traces /\ \A s, t \in traces : s.at = t.at => s = t
  BY TraceSetsFacts DEF Init
<1>2. PlatformOK
  BY <1>1, InstanceAssumption DEF Init, PlatformOK
<1>3. VerdictOK
  BY DEF Init, VerdictOK, NoReason, Phases, WatchdogNames, Reasons, ReasonNames
<1>4. RaisedOK
  BY DEF Init, RaisedOK
<1>5. LifeOK
  <2>1. token \in 0 .. 4 /\ deaths \in Nat /\ dead \in Nat
    BY DEF Init
  <2>2. interrupted \in BOOLEAN /\ early \in BOOLEAN /\ muted \in BOOLEAN
    BY DEF Init
  <2> QED
    BY <2>1, <2>2 DEF LifeOK
<1>6. BoundsOK
  BY BoundsAssumption DEF Init, BoundsOK
<1>7. Shown /\ Fresh /\ Counted
  BY DEF Init, Shown, TokenAfterReboot, AfterReboot, Fresh, Counted
<1>8. Untouched /\ Told
  BY DEF Init, Untouched, Told
<1>9. Verdict /\ OneName
  BY DEF Init, Verdict, OneName, Unread, Judged, NoReason
<1> QED
  BY <1>2, <1>3, <1>4, <1>5, <1>6, <1>7, <1>8, <1>9 DEF Inv, TypeOK

\* Whatever the firmware says, the startup reason that is read has a name.
LEMMA ReasonRead == StartupReason(start) \in ReasonNames \ {"none"}
  BY DEF StartupReason, FdkReason, UefiReason, ReasonNames

\* Traces only go, except at a boot, which leaves at most one at a place.
LEMMA PlatformStep == ASSUME TypeOK, [Next]_vars PROVE PlatformOK'
<1> USE DEF TypeOK, PlatformOK, Without, GoTo, files, platform, verdict, raised, life, vars
<1>1. CASE Unlock
  BY <1>1 DEF Unlock, AllModes
<1>2. CASE Reboot
  <2>1. PICK ts \in TraceSets(MaxLater) :
               traces' = ts \cup {t \in Kept : \A s \in ts : s.at # t.at}
    BY <1>2 DEF Reboot
  <2>2. /\ ts \subseteq Traces /\ Kept \subseteq traces
        /\ \A s, t \in ts : s.at = t.at => s = t
    BY TraceSetsFacts DEF Kept
  <2>3. traces' \subseteq Traces /\ \A s, t \in traces' : s.at = t.at => s = t
    BY <2>1, <2>2
  <2> QED
    BY <1>2, <2>3, InstanceAssumption DEF Reboot
<1>3. CASE Start \/ CheckBuild \/ ResetAfterUpdate \/ CheckFabric \/ CheckPanic \/
           ClearPanic \/ CheckKdump \/ RemoveKdump \/ CheckShutdown \/ RemoveShutdown \/
           CheckStartupReason \/ CheckRecovery \/ RemoveRecovery \/ CheckRamdump \/
           RaiseReboot \/ RaiseFlash \/ CheckFw \/ RaiseFw \/ RaiseState \/ CheckDied \/
           RaiseDead \/ Dies \/ EndRamdump \/ UNCHANGED vars
  BY <1>3
  DEF Start, CheckBuild, ResetAfterUpdate, CheckFabric, CheckPanic, ClearPanic, CheckKdump,
      RemoveKdump, CheckShutdown, RemoveShutdown, CheckStartupReason, CheckRecovery,
      RemoveRecovery, CheckRamdump, RaiseReboot, RaiseFlash, CheckFw, RaiseFw, RaiseState,
      CheckDied, RaiseDead, Dies, EndRamdump, CheckFile, RemoveFile
<1> QED
  BY <1>1, <1>2, <1>3 DEF Next, Step

\* The startup reason is read before the first check, and a check only makes it a fake one.
LEMMA VerdictStep == ASSUME TypeOK, [Next]_vars PROVE VerdictOK'
<1> USE DEF TypeOK, VerdictOK, Phases, Reasons, ReasonNames, WatchdogNames, NoReason, GoTo,
            files, platform, verdict, raised, life, vars
<1>1. CASE Start
  BY <1>1, ReasonRead DEF Start
<1>2. CASE CheckBuild
  <2>1. CASE reason' = [name |-> "SWUPDATE", fake |-> FALSE]
    BY <1>2, <2>1 DEF CheckBuild
  <2>2. CASE reason' = [name |-> StartupReason(start), fake |-> FALSE]
    BY <1>2, <2>2, ReasonRead DEF CheckBuild
  <2> QED
    BY <1>2, <2>1, <2>2 DEF CheckBuild
<1>3. CASE CheckFabric
  BY <1>3 DEF CheckFabric
<1>4. CASE CheckPanic
  BY <1>4 DEF CheckPanic
<1>5. CASE CheckKdump
  BY <1>5 DEF CheckKdump
<1>6. CASE CheckShutdown
  BY <1>6 DEF CheckShutdown, CheckFile
<1>7. CASE CheckRecovery
  BY <1>7 DEF CheckRecovery, CheckFile
<1>8. CASE RaiseReboot
  BY <1>8 DEF RaiseReboot
<1>9. CASE CheckFw
  BY <1>9 DEF CheckFw
<1>10. CASE CheckDied
  BY <1>10 DEF CheckDied
<1>11. CASE Reboot
  BY <1>11 DEF Reboot
<1>12. CASE ResetAfterUpdate \/ ClearPanic \/ RemoveKdump \/ RemoveShutdown \/
           CheckStartupReason \/ RemoveRecovery \/ CheckRamdump \/ RaiseFlash \/ RaiseFw \/
           RaiseState \/ RaiseDead \/ Dies \/ EndRamdump \/ Unlock \/ UNCHANGED vars
  BY <1>12
  DEF ResetAfterUpdate, ClearPanic, RemoveKdump, RemoveShutdown, CheckStartupReason,
      RemoveRecovery, CheckRamdump, RaiseFlash, RaiseFw, RaiseState, RaiseDead, Dies,
      EndRamdump, Unlock, RemoveFile
<1> QED
  BY <1>1, <1>2, <1>3, <1>4, <1>5, <1>6, <1>7, <1>8, <1>9, <1>10, <1>11, <1>12 DEF Next, Step

\* Every check raises events of its own types.
LEMMA RaisedStep == ASSUME TypeOK, [Next]_vars PROVE RaisedOK'
<1> USE DEF TypeOK, RaisedOK, VerdictOK, Raise, RaiseAll, Types, GoTo, files, platform,
            verdict, raised, life, vars
<1>1. CASE CheckPanic
  BY <1>1 DEF CheckPanic, PanicType, PanicErrors, PanicNames
<1>2. CASE CheckFabric
  BY <1>2 DEF CheckFabric, FabricNames
<1>3. CASE CheckKdump
  BY <1>3 DEF CheckKdump
<1>4. CASE CheckShutdown
  BY <1>4 DEF CheckShutdown, CheckFile
<1>5. CASE CheckStartupReason
  BY <1>5 DEF CheckStartupReason
<1>6. CASE CheckRecovery
  BY <1>6 DEF CheckRecovery, CheckFile
<1>7. CASE CheckRamdump
  BY <1>7 DEF CheckRamdump
<1>8. CASE RaiseReboot
  BY <1>8 DEF RaiseReboot
<1>9. CASE RaiseFlash
  BY <1>9 DEF RaiseFlash
<1>10. CASE CheckFw
  BY <1>10 DEF CheckFw
<1>11. CASE RaiseFw
  BY <1>11 DEF RaiseFw
<1>12. CASE RaiseState
  BY <1>12 DEF RaiseState
<1>13. CASE RaiseDead
  BY <1>13 DEF RaiseDead
<1>14. CASE Reboot
  BY <1>14 DEF Reboot
<1>15. CASE Start \/ CheckBuild \/ ResetAfterUpdate \/ ClearPanic \/ RemoveKdump \/
           RemoveShutdown \/ RemoveRecovery \/ CheckDied \/ Dies \/ EndRamdump \/ Unlock \/
           UNCHANGED vars
  BY <1>15
  DEF Start, CheckBuild, ResetAfterUpdate, ClearPanic, RemoveKdump, RemoveShutdown,
      RemoveRecovery, CheckDied, Dies, EndRamdump, Unlock, RemoveFile
<1> QED
  BY <1>1, <1>2, <1>3, <1>4, <1>5, <1>6, <1>7, <1>8, <1>9, <1>10, <1>11, <1>12, <1>13, <1>14, <1>15 DEF Next, Step

\* The token has at most four characters.
LEMMA LifeStep == ASSUME TypeOK, [Next]_vars PROVE LifeOK'
<1> USE DEF TypeOK, LifeOK, Raise, RaiseAll, GoTo, files, platform, verdict, raised, life,
            vars
<1>1. CASE Start
  BY <1>1 DEF Start
<1>2. CASE CheckDied
  BY <1>2 DEF CheckDied
<1>3. CASE RaiseDead
  BY <1>3 DEF RaiseDead
<1>4. CASE Dies
  BY <1>4 DEF Dies
<1>5. CASE EndRamdump
  BY <1>5 DEF EndRamdump
<1>6. CASE Reboot
  <2>1. token' \in 0 .. 4 /\ deaths' \in Nat /\ dead' \in Nat
    BY <1>6 DEF Reboot
  <2>2. interrupted' \in BOOLEAN /\ early' \in BOOLEAN /\ muted' \in BOOLEAN
    BY <1>6 DEF Reboot
  <2> QED
    BY <2>1, <2>2
<1>7. CASE CheckBuild \/ ResetAfterUpdate \/ CheckFabric \/ CheckPanic \/ ClearPanic \/
           CheckKdump \/ RemoveKdump \/ CheckShutdown \/ RemoveShutdown \/
           CheckStartupReason \/ CheckRecovery \/ RemoveRecovery \/ CheckRamdump \/
           RaiseReboot \/ RaiseFlash \/ CheckFw \/ RaiseFw \/ RaiseState \/ Unlock \/
           UNCHANGED vars
  BY <1>7
  DEF CheckBuild, ResetAfterUpdate, CheckFabric, CheckPanic, ClearPanic, CheckKdump,
      RemoveKdump, CheckShutdown, RemoveShutdown, CheckStartupReason, CheckRecovery,
      RemoveRecovery, CheckRamdump, RaiseReboot, RaiseFlash, CheckFw, RaiseFw, RaiseState,
      Unlock, CheckFile, RemoveFile
<1> QED
  BY <1>1, <1>2, <1>3, <1>4, <1>5, <1>6, <1>7 DEF Next, Step

\* The bounds of the model hold.
LEMMA BoundsStep == ASSUME TypeOK, [Next]_vars PROVE BoundsOK'
<1> USE DEF TypeOK, BoundsOK, Raise, RaiseAll, GoTo, files, platform, verdict, raised, life,
            vars
<1>1. CASE CheckBuild
  BY <1>1, BoundsAssumption DEF CheckBuild
<1>2. CASE CheckFabric
  BY <1>2, BoundsAssumption DEF CheckFabric
<1>3. CASE CheckPanic
  BY <1>3, BoundsAssumption DEF CheckPanic
<1>4. CASE CheckKdump
  BY <1>4, BoundsAssumption DEF CheckKdump
<1>5. CASE CheckShutdown
  BY <1>5, BoundsAssumption DEF CheckShutdown, CheckFile
<1>6. CASE CheckStartupReason
  BY <1>6, BoundsAssumption DEF CheckStartupReason
<1>7. CASE CheckRecovery
  BY <1>7, BoundsAssumption DEF CheckRecovery, CheckFile
<1>8. CASE CheckRamdump
  BY <1>8, BoundsAssumption DEF CheckRamdump
<1>9. CASE RaiseReboot
  BY <1>9, BoundsAssumption DEF RaiseReboot
<1>10. CASE RaiseFlash
  BY <1>10, BoundsAssumption DEF RaiseFlash
<1>11. CASE CheckFw
  BY <1>11, BoundsAssumption DEF CheckFw
<1>12. CASE RaiseFw
  BY <1>12, BoundsAssumption DEF RaiseFw
<1>13. CASE RaiseState
  BY <1>13, BoundsAssumption DEF RaiseState
<1>14. CASE RaiseDead
  BY <1>14, BoundsAssumption DEF RaiseDead
<1>15. CASE Dies
  BY <1>15, BoundsAssumption DEF Dies
<1>16. CASE EndRamdump
  BY <1>16, BoundsAssumption DEF EndRamdump
<1>17. CASE Reboot
  BY <1>17, BoundsAssumption DEF Reboot
<1>18. CASE Start \/ ResetAfterUpdate \/ ClearPanic \/ RemoveKdump \/ RemoveShutdown \/
           RemoveRecovery \/ CheckDied \/ Unlock \/ UNCHANGED vars
  BY <1>18
  DEF Start, ResetAfterUpdate, ClearPanic, RemoveKdump, RemoveShutdown, RemoveRecovery,
      CheckDied, Unlock, RemoveFile
<1> QED
  BY <1>1, <1>2, <1>3, <1>4, <1>5, <1>6, <1>7, <1>8, <1>9, <1>10, <1>11, <1>12, <1>13, <1>14, <1>15, <1>16, <1>17, <1>18 DEF Next, Step

\* The REBOOT event comes before the phases that lead to the token.
LEMMA ShownStep == ASSUME Inv, [Next]_vars PROVE Shown'
<1> USE DEF Inv, TypeOK, PlatformOK, AllModes, LifeOK, RaisedOK, VerdictOK, Phases, Shown,
            TokenAfterReboot, AfterReboot, Fresh, Raise, RaiseAll, GoTo, files, platform,
            verdict, raised, life, vars
<1>1. CASE Start
  <2>1. phase' \in AfterReboot /\ token = 0 => mode = "locked"
    BY <1>1 DEF Start
  <2>2. token' = token /\ events' = events /\ lost' = lost
    BY <1>1 DEF Start
  <2>3. ~early' => ~early /\ (token = 0 => mode # "locked")
    BY <1>1 DEF Start
  <2> QED
    BY <2>1, <2>2, <2>3
<1>2. CASE CheckBuild
  BY <1>2 DEF CheckBuild
<1>3. CASE CheckFabric
  BY <1>3 DEF CheckFabric
<1>4. CASE CheckPanic
  BY <1>4 DEF CheckPanic
<1>5. CASE CheckKdump
  BY <1>5 DEF CheckKdump
<1>6. CASE CheckStartupReason
  BY <1>6 DEF CheckStartupReason
<1>7. CASE CheckRamdump
  BY <1>7 DEF CheckRamdump
<1>8. CASE RaiseReboot
  BY <1>8 DEF RaiseReboot
<1>9. CASE RaiseFlash
  BY <1>9 DEF RaiseFlash
<1>10. CASE CheckFw
  BY <1>10 DEF CheckFw
<1>11. CASE RaiseFw
  BY <1>11 DEF RaiseFw
<1>12. CASE RaiseState
  BY <1>12 DEF RaiseState
<1>13. CASE CheckDied
  BY <1>13 DEF CheckDied
<1>14. CASE RaiseDead
  BY <1>14 DEF RaiseDead
<1>15. CASE Dies
  BY <1>15 DEF Dies
<1>16. CASE EndRamdump
  BY <1>16 DEF EndRamdump
<1>17. CASE Unlock
  BY <1>17 DEF Unlock
<1>18. CASE Reboot
  BY <1>18 DEF Reboot
<1>19. CASE ResetAfterUpdate \/ ClearPanic \/ RemoveKdump \/ CheckShutdown \/ RemoveShutdown \/
           CheckRecovery \/ RemoveRecovery \/ UNCHANGED vars
  BY <1>19
  DEF ResetAfterUpdate, ClearPanic, RemoveKdump, CheckShutdown, RemoveShutdown,
      CheckRecovery, RemoveRecovery, CheckFile, RemoveFile
<1> QED
  BY <1>1, <1>2, <1>3, <1>4, <1>5, <1>6, <1>7, <1>8, <1>9, <1>10, <1>11, <1>12, <1>13, <1>14, <1>15, <1>16, <1>17, <1>18, <1>19 DEF Next, Step

\* The events of a check are not among those raised before its phase.
LEMMA FreshStep == ASSUME Inv, [Next]_vars PROVE Fresh'
<1> USE DEF Inv, TypeOK, LifeOK, RaisedOK, VerdictOK, PlatformOK, AllModes, Fresh, Raise,
            RaiseAll, Before, KernelNames, DumpNames, ModemNames, CheckNames, BootNames,
            FabricNames, PanicNames, WatchdogNames, Types, GoTo, files, platform, verdict,
            raised, life, vars
<1>1. CASE Start
  BY <1>1 DEF Start
<1>2. CASE CheckBuild
  BY <1>2 DEF CheckBuild
<1>3. CASE ResetAfterUpdate
  BY <1>3 DEF ResetAfterUpdate
<1>4. CASE CheckFabric
  BY <1>4 DEF CheckFabric
<1>5. CASE CheckPanic
  BY <1>5 DEF CheckPanic, PanicType, PanicErrors
<1>6. CASE ClearPanic
  BY <1>6 DEF ClearPanic
<1>7. CASE CheckKdump
  BY <1>7 DEF CheckKdump
<1>8. CASE RemoveKdump
  BY <1>8 DEF RemoveKdump
<1>9. CASE CheckShutdown
  BY <1>9 DEF CheckShutdown, CheckFile
<1>10. CASE RemoveShutdown
  BY <1>10 DEF RemoveShutdown, RemoveFile
<1>11. CASE CheckStartupReason
  BY <1>11 DEF CheckStartupReason
<1>12. CASE CheckRecovery
  BY <1>12 DEF CheckRecovery, CheckFile
<1>13. CASE RemoveRecovery
  BY <1>13 DEF RemoveRecovery, RemoveFile
<1>14. CASE CheckRamdump
  BY <1>14 DEF CheckRamdump
<1>15. CASE RaiseReboot
  BY <1>15 DEF RaiseReboot
<1>16. CASE RaiseFlash
  BY <1>16 DEF RaiseFlash
<1>17. CASE CheckFw
  BY <1>17 DEF CheckFw
<1>18. CASE RaiseFw
  BY <1>18 DEF RaiseFw
<1>19. CASE RaiseState
  BY <1>19 DEF RaiseState
<1>20. CASE CheckDied
  BY <1>20 DEF CheckDied
<1>21. CASE RaiseDead
  BY <1>21 DEF RaiseDead
<1>22. CASE Dies
  BY <1>22 DEF Dies
<1>23. CASE EndRamdump
  BY <1>23 DEF EndRamdump
<1>24. CASE Unlock
  BY <1>24 DEF Unlock
<1>25. CASE Reboot
  BY <1>25 DEF Reboot
<1>26. CASE UNCHANGED vars
  BY <1>26
<1> QED
  BY <1>1, <1>2, <1>3, <1>4, <1>5, <1>6, <1>7, <1>8, <1>9, <1>10, <1>11, <1>12, <1>13, <1>14, <1>15, <1>16, <1>17, <1>18, <1>19, <1>20, <1>21, <1>22, <1>23, <1>24, <1>25, <1>26 DEF Next, Step

\* The token grows once for each start, and a start follows a death.
LEMMA CountedStep == ASSUME Inv, [Next]_vars PROVE Counted'
<1> USE DEF Inv, TypeOK, LifeOK, Fresh, Counted, GoTo, files, platform, verdict, raised,
            life, vars
<1>1. CASE Start
  BY <1>1 DEF Start
<1>2. CASE CheckDied
  BY <1>2 DEF CheckDied
<1>3. CASE RaiseDead
  BY <1>3 DEF RaiseDead
<1>4. CASE Dies
  <2>1. phase' = "down" /\ token' = token /\ dead' = dead /\ deaths' = deaths + 1
    BY <1>4 DEF Dies
  <2>2. ~muted' => ~muted /\ phase # "dead"
    BY <1>4 DEF Dies
  <2>3. lost' = lost
    BY <1>4 DEF Dies
  <2> QED
    BY <2>1, <2>2, <2>3
<1>5. CASE EndRamdump
  BY <1>5 DEF EndRamdump
<1>6. CASE Reboot
  BY <1>6 DEF Reboot
<1>7. CASE CheckBuild
  BY <1>7 DEF CheckBuild, Raise, RaiseAll
<1>8. CASE CheckFabric
  BY <1>8 DEF CheckFabric, Raise, RaiseAll
<1>9. CASE CheckPanic
  BY <1>9 DEF CheckPanic, Raise, RaiseAll
<1>10. CASE CheckKdump
  BY <1>10 DEF CheckKdump, Raise, RaiseAll
<1>11. CASE CheckShutdown
  BY <1>11 DEF CheckShutdown, CheckFile, Raise, RaiseAll
<1>12. CASE CheckStartupReason
  BY <1>12 DEF CheckStartupReason, Raise, RaiseAll
<1>13. CASE CheckRecovery
  BY <1>13 DEF CheckRecovery, CheckFile, Raise, RaiseAll
<1>14. CASE CheckRamdump
  BY <1>14 DEF CheckRamdump, Raise, RaiseAll
<1>15. CASE RaiseReboot
  BY <1>15 DEF RaiseReboot, Raise, RaiseAll
<1>16. CASE RaiseFlash
  BY <1>16 DEF RaiseFlash, Raise, RaiseAll
<1>17. CASE CheckFw
  BY <1>17 DEF CheckFw, Raise, RaiseAll
<1>18. CASE RaiseFw
  BY <1>18 DEF RaiseFw, Raise, RaiseAll
<1>19. CASE RaiseState
  BY <1>19 DEF RaiseState, Raise, RaiseAll
<1>20. CASE ResetAfterUpdate \/ ClearPanic \/ RemoveKdump \/ RemoveShutdown \/ RemoveRecovery \/
           Unlock \/ UNCHANGED vars
  BY <1>20
  DEF ResetAfterUpdate, ClearPanic, RemoveKdump, RemoveShutdown, RemoveRecovery, Unlock,
      RemoveFile
<1> QED
  BY <1>1, <1>2, <1>3, <1>4, <1>5, <1>6, <1>7, <1>8, <1>9, <1>10, <1>11, <1>12, <1>13, <1>14, <1>15, <1>16, <1>17, <1>18, <1>19, <1>20 DEF Next, Step

\* The traces the kernel left are there until the panic partition is cleared.
LEMMA UntouchedStep == ASSUME Inv, [Next]_vars PROVE Untouched'
<1> USE DEF Inv, TypeOK, PlatformOK, AllModes, LifeOK, RaisedOK, VerdictOK, Phases, Fresh,
            Untouched, FirstStart, KernelPlaces, Looking, GoTo, Without, files, platform,
            verdict, raised, life, vars
<1>1. CASE Start
  BY <1>1 DEF Start
<1>2. CASE CheckBuild
  BY <1>2 DEF CheckBuild
<1>3. CASE ResetAfterUpdate
  BY <1>3 DEF ResetAfterUpdate
<1>4. CASE CheckFabric
  BY <1>4 DEF CheckFabric, Raise
<1>5. CASE CheckPanic
  BY <1>5 DEF CheckPanic, RaiseAll
<1>6. CASE ClearPanic
  BY <1>6 DEF ClearPanic
<1>7. CASE CheckKdump
  BY <1>7 DEF CheckKdump, Raise
<1>8. CASE CheckStartupReason
  BY <1>8 DEF CheckStartupReason, Raise
<1>9. CASE RaiseReboot
  BY <1>9 DEF RaiseReboot, Raise
<1>10. CASE RaiseFlash
  BY <1>10 DEF RaiseFlash, Raise
<1>11. CASE CheckFw
  BY <1>11 DEF CheckFw, Raise
<1>12. CASE CheckDied
  BY <1>12 DEF CheckDied
<1>13. CASE Dies
  BY <1>13 DEF Dies
<1>14. CASE EndRamdump
  BY <1>14 DEF EndRamdump
<1>15. CASE Unlock
  BY <1>15 DEF Unlock
<1>16. CASE Reboot
  BY <1>16 DEF Reboot
<1>17. CASE CheckShutdown \/ CheckRecovery \/ RemoveKdump \/ RemoveShutdown \/ RemoveRecovery
  BY <1>17
  DEF CheckShutdown, CheckRecovery, RemoveKdump, RemoveShutdown, RemoveRecovery, CheckFile,
      RemoveFile, Raise
<1>18. CASE CheckRamdump \/ RaiseFw \/ RaiseState \/ RaiseDead \/ UNCHANGED vars
  BY <1>18 DEF CheckRamdump, RaiseFw, RaiseState, RaiseDead, Raise
<1> QED
  BY <1>1, <1>2, <1>3, <1>4, <1>5, <1>6, <1>7, <1>8, <1>9, <1>10, <1>11, <1>12, <1>13, <1>14,
     <1>15, <1>16, <1>17, <1>18 DEF Next, Step

\* The panic part of FakeReset.
FoundFake ==
  \/ \E t \in found : t.at = "console" /\ FakePanic(t.is)
  \/ /\ \A t \in found : t.at # "console"
     /\ \E t \in found : t.at = "ram" /\ FakePanic(t.is)

LEMMA FakeResetParts == ASSUME NEW name PROVE FakeReset(name) <=> FoundFake \/ FakeFabric(name)
  BY DEF FakeReset, FoundFake, FakeFabric

\* The one trace that the three panic checks agree on is a fake one exactly when FakeReset says so.
LEMMA PanicTraceFake ==
  ASSUME TypeOK, \A t \in Traces : t.at \in KernelPlaces => (t \in traces <=> t \in found)
  PROVE  /\ Sees("console") \/ Sees("ram") \/ Sees("header") =>
              (FakePanic(PanicTrace.is) <=> FoundFake)
         /\ ~(Sees("console") \/ Sees("ram") \/ Sees("header")) => ~FoundFake
<1> USE DEF TypeOK, PlatformOK, KernelPlaces, Sees, FoundFake
<1>1. CASE Sees("console")
  <2>1. PICK t \in traces : t.at = "console"
    BY <1>1
  <2>2. PanicTrace = t
    BY <1>1, <2>1 DEF PanicTrace
  <2>3. \A u \in found : u.at = "console" => u = t
    BY <2>1
  <2>4. t \in found
    BY <2>1
  <2> QED
    BY <1>1, <2>1, <2>2, <2>3, <2>4
<1>2. CASE ~Sees("console") /\ Sees("ram")
  <2>1. PICK t \in traces : t.at = "ram"
    BY <1>2
  <2>2. PanicTrace = t
    BY <1>2, <2>1 DEF PanicTrace
  <2>3. \A u \in found : u.at = "ram" => u = t
    BY <2>1
  <2>4. t \in found /\ \A u \in found : u.at # "console"
    BY <1>2, <2>1
  <2> QED
    BY <1>2, <2>1, <2>2, <2>3, <2>4
<1>3. CASE ~Sees("console") /\ ~Sees("ram")
  <2>1. PanicTrace = Trace("header", "plain")
    BY <1>3 DEF PanicTrace
  <2>2. ~FakePanic(PanicTrace.is)
    BY <2>1 DEF FakePanic, Trace
  <2>3. \A u \in found : u.at # "console" /\ u.at # "ram"
    BY <1>3
  <2> QED
    BY <2>2, <2>3
<1> QED
  BY <1>1, <1>2, <1>3

\* A fabric trace is a fake one exactly when FakeReset says so.
LEMMA FabricTraceFake ==
  ASSUME TypeOK, \A t \in Traces : t.at \in KernelPlaces => (t \in traces <=> t \in found),
         NEW name
  PROVE  /\ (Says("fabric", "fake") \/ Says("fabric", "fake_message")) /\ IsHwwdt(name)
              <=> FakeFabric(name)
         /\ ~Sees("fabric") => ~FakeFabric(name)
<1> USE DEF TypeOK, PlatformOK, KernelPlaces, Sees, FakeFabric
<1>1. ASSUME NEW is, Says("fabric", is)
      PROVE  \E t \in found : t.at = "fabric" /\ t.is = is
  BY <1>1 DEF Says, Trace
<1>2. ASSUME NEW t \in found, t.at = "fabric"
      PROVE  Says("fabric", t.is) /\ Sees("fabric")
  <2>1. t \in AllTraces /\ t \in traces
    BY <1>2, InstanceAssumption
  <2>2. t = Trace("fabric", t.is)
    BY <1>2, <2>1 DEF AllTraces, Trace
  <2> QED
    BY <1>2, <2>1, <2>2 DEF Says
<1> QED
  BY <1>1, <1>2

\* After the panic check the reason and the watchdog's name stay, and no event of the two checks
\* is raised.
LEMMA VerdictKept ==
  ASSUME Inv, UNCHANGED <<verdict, start, found>>,
         FirstStart' => FirstStart /\ phase \notin Unread \cup {"panic"},
         FirstStart' => phase' \notin Unread \cup {"panic", "build", "reset"},
         FirstStart' => events' \cap (FabricNames \cup PanicNames) \subseteq events
  PROVE  Verdict'
<1> SUFFICES ASSUME FirstStart' PROVE Verdict'
  BY DEF Verdict
<1>1. FakeReset(reason.name)' <=> FakeReset(reason.name)
  BY DEF FakeReset, verdict
<1>2. StartupReason(start)' = StartupReason(start)
  OBVIOUS
<1> QED
  BY <1>1, <1>2 DEF Inv, Verdict, verdict, Unread

\* The startup reason is fake when a trace says so, and the watchdog event is called unhandled
\* only when there is no such trace.
LEMMA JudgedStep == ASSUME Inv, [Next]_vars PROVE Verdict'
<1> USE DEF GoTo, files, platform, raised, life, vars
<1>1. CASE Start
  BY <1>1 DEF Start, NoReason, Verdict, FirstStart, Unread
<1>2. CASE CheckBuild
  BY <1>2 DEF CheckBuild, Inv, Verdict, FirstStart, Unread
<1>3. CASE ResetAfterUpdate
  BY <1>3 DEF ResetAfterUpdate, Inv, Verdict, FirstStart, Unread, verdict
<1>4. CASE CheckFabric
  <2> SUFFICES ASSUME FirstStart' PROVE Verdict'
    BY DEF Verdict
  <2>1. FirstStart /\ phase = "fabric" /\ phase' = "panic" /\ found' = found /\ start' = start
    BY <1>4 DEF CheckFabric, FirstStart, Raise
  <2>2. \A t \in Traces : t.at \in KernelPlaces => (t \in traces <=> t \in found)
    BY <2>1 DEF Inv, Untouched, Looking
  <2>3. reason \in Reasons /\ reason.fake = FALSE /\ watchdog = "WDT" /\ events \subseteq {}
        /\ reason.name \in {StartupReason(start), "SWUPDATE"}
    BY <2>1 DEF Inv, TypeOK, VerdictOK, Verdict, Unread, Fresh, FirstStart, Before
  <2>4. CASE Sees("fabric")
    <3>1. watchdog' = "WDT" /\ reason'.name = reason.name
      BY <1>4, <2>3, <2>4 DEF CheckFabric, Reasons
    <3>2. reason'.fake = TRUE <=> FakeFabric(reason.name)
      BY <1>4, <2>2, <2>3, <2>4, FabricTraceFake DEF CheckFabric, Reasons, Inv
    <3>3. FakeFabric(reason.name)' <=> FakeFabric(reason.name)
      BY <2>1, <3>1 DEF FakeFabric
    <3> QED
      BY <2>1, <2>3, <3>1, <3>2, <3>3 DEF Verdict, Unread
  <2>5. CASE ~Sees("fabric")
    <3>1. reason' = reason /\ watchdog' \in {"WDT", "HWWDT_UNHANDLED"} /\ events' = {}
      BY <1>4, <2>3, <2>5 DEF CheckFabric
    <3>2. ~FakeFabric(reason.name)
      BY <2>2, <2>5, FabricTraceFake DEF Inv
    <3>3. FakeFabric(reason.name)' <=> FakeFabric(reason.name)
      BY <2>1, <3>1 DEF FakeFabric
    <3> QED
      BY <2>1, <2>3, <3>1, <3>2, <3>3 DEF Verdict, Unread
  <2> QED
    BY <2>4, <2>5
<1>5. CASE CheckPanic
  <2> SUFFICES ASSUME FirstStart' PROVE Verdict'
    BY DEF Verdict
  <2>1. /\ FirstStart /\ phase = "panic" /\ phase' = "panic_raised" 
        /\ found' = found /\ start' = start
    BY <1>5 DEF CheckPanic, FirstStart, RaiseAll
  <2>2. \A t \in Traces : t.at \in KernelPlaces => (t \in traces <=> t \in found)
    BY <2>1 DEF Inv, Untouched, Looking
  <2>3. /\ reason \in Reasons /\ reason.name \in {StartupReason(start), "SWUPDATE"}
        /\ reason.fake = TRUE <=> FakeFabric(reason.name)
        /\ watchdog \in {"WDT", "HWWDT_UNHANDLED"}
        /\ watchdog = "HWWDT_UNHANDLED" => events \cap FabricNames = {}
        /\ events \subseteq FabricNames
    BY <2>1
    DEF Inv, TypeOK, VerdictOK, WatchdogNames, Verdict, Unread, Fresh, FirstStart, Before
  <2>4. reason'.name = reason.name =>
          (FakeReset(reason.name)' <=> FoundFake \/ FakeFabric(reason.name))
    BY <2>1, FakeResetParts DEF FakeReset
  <2>5. CASE Sees("console") \/ Sees("ram") \/ Sees("header")
    <3>1. watchdog' = watchdog /\ reason'.name = reason.name
      BY <1>5, <2>3, <2>5 DEF CheckPanic, Reasons
    <3>2. reason'.fake = TRUE <=> (reason.fake = TRUE \/ FakePanic(PanicTrace.is))
      BY <1>5, <2>3, <2>5 DEF CheckPanic, Reasons
    <3>3. reason'.fake = TRUE <=> FoundFake \/ FakeFabric(reason.name)
      BY <2>2, <2>3, <2>5, <3>2, PanicTraceFake DEF Inv
    <3>4. events' \subseteq events \cup PanicNames \cup {"SWWDT_MISSING"}
      BY <1>5, <2>5
      DEF CheckPanic, RaiseAll, PanicType, PanicErrors, PanicNames
    <3>5. events' \cap FabricNames \subseteq events
      BY <3>4 DEF PanicNames, FabricNames
    <3> QED
      BY <2>1, <2>3, <2>4, <3>1, <3>3, <3>5 DEF Verdict, Unread
  <2>6. CASE ~(Sees("console") \/ Sees("ram") \/ Sees("header"))
    <3>1. /\ reason' = reason /\ events' = events
          /\ watchdog' \in {watchdog, "WDT_UNHANDLED"}
      BY <1>5, <2>6 DEF CheckPanic
    <3>2. ~FoundFake
      BY <2>2, <2>6, PanicTraceFake DEF Inv
    <3>3. events \cap PanicNames = {}
      BY <2>3 DEF PanicNames, FabricNames
    <3> QED
      BY <2>1, <2>3, <2>4, <3>1, <3>2, <3>3 DEF Verdict, Unread
  <2> QED
    BY <2>5, <2>6
<1>6. CASE ClearPanic \/ RemoveKdump \/ RemoveShutdown \/ RemoveRecovery
  BY <1>6, VerdictKept
  DEF ClearPanic, RemoveKdump, RemoveShutdown, RemoveRecovery, RemoveFile, FirstStart, Unread
<1>7. CASE CheckKdump
  BY <1>7, VerdictKept
  DEF CheckKdump, Raise, FirstStart, Unread, FabricNames, PanicNames
<1>8. CASE CheckShutdown
  BY <1>8, VerdictKept
  DEF CheckShutdown, CheckFile, Raise, FirstStart, Unread, FabricNames, PanicNames
<1>9. CASE CheckRecovery
  BY <1>9, VerdictKept
  DEF CheckRecovery, CheckFile, Raise, FirstStart, Unread, FabricNames, PanicNames
<1>10. CASE CheckStartupReason
  BY <1>10, VerdictKept
  DEF CheckStartupReason, Raise, FirstStart, Unread, FabricNames, PanicNames, Inv, TypeOK,
      VerdictOK, WatchdogNames
<1>11. CASE CheckRamdump
  BY <1>11, VerdictKept DEF CheckRamdump, Raise, FirstStart, Unread, FabricNames, PanicNames
<1>12. CASE RaiseReboot
  BY <1>12, VerdictKept DEF RaiseReboot, Raise, FirstStart, Unread, FabricNames, PanicNames
<1>13. CASE RaiseFlash
  BY <1>13, VerdictKept DEF RaiseFlash, Raise, FirstStart, Unread, FabricNames, PanicNames
<1>14. CASE CheckFw
  BY <1>14, VerdictKept DEF CheckFw, Raise, FirstStart, Unread, FabricNames, PanicNames
<1>15. CASE RaiseFw \/ RaiseState
  BY <1>15, VerdictKept
  DEF RaiseFw, RaiseState, Raise, FirstStart, Unread, FabricNames, PanicNames
<1>16. CASE CheckDied
  <2>1. token' # 0
    BY <1>16 DEF CheckDied, Inv, TypeOK, LifeOK
  <2> QED
    BY <2>1 DEF Verdict, FirstStart
<1>17. CASE RaiseDead
  BY <1>17 DEF RaiseDead, Inv, Fresh, Counted, Verdict, FirstStart
<1>18. CASE Dies \/ EndRamdump
  BY <1>18 DEF Dies, EndRamdump, Verdict, FirstStart
<1>19. CASE Unlock
  BY <1>19 DEF Unlock, Inv, Untouched, Verdict, FirstStart, verdict, Fresh, Before, Unread
<1>20. CASE Reboot
  BY <1>20 DEF Reboot, Verdict, FirstStart, Unread, NoReason
<1>21. CASE UNCHANGED vars
  BY <1>21 DEF Inv, Verdict, FirstStart, FakeFabric, FakeReset, verdict
<1> QED
  BY <1>1, <1>2, <1>3, <1>4, <1>5, <1>6, <1>7, <1>8, <1>9, <1>10, <1>11, <1>12, <1>13, <1>14,
     <1>15, <1>16, <1>17, <1>18, <1>19, <1>20, <1>21 DEF Next, Step

\* The watchdog event is raised once, by the check of the startup reason.
LEMMA OneNameKept ==
  ASSUME Inv, UNCHANGED <<reason, watchdog>>, FirstStart' => FirstStart,
         FirstStart' => (phase \in Judged <=> phase' \in Judged),
         FirstStart' => events' \cap WatchdogNames = events \cap WatchdogNames
  PROVE  OneName'
  BY DEF Inv, OneName

LEMMA OneNameStep == ASSUME Inv, [Next]_vars PROVE OneName'
<1> USE DEF GoTo, files, platform, raised, life, verdict, vars
<1>1. CASE Start
  <2> SUFFICES ASSUME FirstStart' PROVE events' \cap WatchdogNames = {} /\ phase' \notin Judged
    BY DEF OneName
  <2>1. phase = "down" /\ token = 0 /\ ~interrupted /\ mode = "main" /\ phase' = "build"
    BY <1>1 DEF Start, FirstStart
  <2>2. events' = {}
    BY <1>1, <2>1 DEF Start, Inv, Fresh
  <2> QED
    BY <2>1, <2>2 DEF Judged
<1>2. CASE CheckBuild \/ ResetAfterUpdate
  <2> SUFFICES ASSUME FirstStart' PROVE events' \cap WatchdogNames = {} /\ phase' \notin Judged
    BY DEF OneName
  <2>1. /\ FirstStart /\ phase \in {"build", "reset"} /\ events' = events
        /\ phase' \in {"reset", "fabric"}
    BY <1>2 DEF CheckBuild, ResetAfterUpdate, FirstStart
  <2>2. events = {}
    BY <2>1 DEF Inv, Fresh, FirstStart, Before
  <2> QED
    BY <2>1, <2>2 DEF Judged
<1>3. CASE CheckFabric
  <2> SUFFICES ASSUME FirstStart' PROVE events' \cap WatchdogNames = {} /\ phase' \notin Judged
    BY DEF OneName
  <2>1. FirstStart /\ phase = "fabric" /\ phase' = "panic"
    BY <1>3 DEF CheckFabric, FirstStart, Raise
  <2>2. events = {}
    BY <2>1 DEF Inv, Fresh, FirstStart, Before
  <2>3. events' \subseteq events \cup FabricNames
    BY <1>3 DEF CheckFabric, Raise, FabricNames
  <2> QED
    BY <2>1, <2>2, <2>3 DEF Judged, FabricNames, WatchdogNames
<1>4. CASE CheckPanic
  <2> SUFFICES ASSUME FirstStart' PROVE events' \cap WatchdogNames = {} /\ phase' \notin Judged
    BY DEF OneName
  <2>1. FirstStart /\ phase = "panic" /\ phase' = "panic_raised"
    BY <1>4 DEF CheckPanic, FirstStart, RaiseAll
  <2>2. events \subseteq FabricNames
    BY <2>1 DEF Inv, Fresh, FirstStart, Before
  <2>3. events' \subseteq events \cup PanicNames \cup {"SWWDT_MISSING"}
    BY <1>4 DEF CheckPanic, RaiseAll, PanicType, PanicErrors, PanicNames
  <2> QED
    BY <2>1, <2>2, <2>3 DEF Judged, FabricNames, PanicNames, WatchdogNames
<1>5. CASE ClearPanic \/ RemoveKdump \/ RemoveShutdown \/ RemoveRecovery
  BY <1>5, OneNameKept
  DEF ClearPanic, RemoveKdump, RemoveShutdown, RemoveRecovery, RemoveFile, FirstStart, Judged
<1>6. CASE CheckKdump
  BY <1>6, OneNameKept DEF CheckKdump, Raise, FirstStart, Judged, WatchdogNames
<1>7. CASE CheckShutdown
  BY <1>7, OneNameKept DEF CheckShutdown, CheckFile, Raise, FirstStart, Judged, WatchdogNames
<1>8. CASE CheckRecovery
  BY <1>8, OneNameKept DEF CheckRecovery, CheckFile, Raise, FirstStart, Judged, WatchdogNames
<1>9. CASE CheckStartupReason
  <2> SUFFICES ASSUME FirstStart' PROVE OneName'
    BY DEF OneName
  <2>1. FirstStart /\ phase = "wdt" /\ phase' = "recovery" /\ UNCHANGED <<reason, watchdog>>
    BY <1>9 DEF CheckStartupReason, FirstStart, Raise
  <2>2. events \cap WatchdogNames = {}
    BY <2>1 DEF Inv, OneName, Judged
  <2>3. reason.fake \in BOOLEAN /\ watchdog \in WatchdogNames
    BY DEF Inv, TypeOK, VerdictOK, Reasons
  <2>4. events' = IF IsWdt(reason.name) /\ reason.fake = FALSE THEN events \cup {watchdog}
                                                               ELSE events
    BY <1>9, <2>1, <2>3 DEF CheckStartupReason, Raise, FirstStart
  <2>5. events' \cap WatchdogNames =
          IF IsWdt(reason.name) /\ reason.fake = FALSE THEN {watchdog} ELSE {}
    BY <2>2, <2>3, <2>4
  <2> QED
    BY <2>1, <2>5 DEF OneName, Judged
<1>10. CASE CheckRamdump
  BY <1>10 DEF CheckRamdump, Inv, Untouched, OneName, FirstStart
<1>11. CASE RaiseReboot
  BY <1>11, OneNameKept DEF RaiseReboot, Raise, FirstStart, Judged, WatchdogNames
<1>12. CASE RaiseFlash
  BY <1>12, OneNameKept DEF RaiseFlash, Raise, FirstStart, Judged, WatchdogNames
<1>13. CASE CheckFw
  BY <1>13, OneNameKept DEF CheckFw, Raise, FirstStart, Judged, WatchdogNames
<1>14. CASE RaiseFw \/ RaiseState
  BY <1>14, OneNameKept DEF RaiseFw, RaiseState, Raise, FirstStart, Judged, WatchdogNames
<1>15. CASE CheckDied
  <2>1. token' # 0
    BY <1>15 DEF CheckDied, Inv, TypeOK, LifeOK
  <2> QED
    BY <2>1 DEF OneName, FirstStart
<1>16. CASE RaiseDead
  BY <1>16 DEF RaiseDead, Inv, Fresh, Counted, OneName, FirstStart
<1>17. CASE Dies \/ EndRamdump
  BY <1>17 DEF Dies, EndRamdump, OneName, FirstStart
<1>18. CASE Unlock
  BY <1>18 DEF Unlock, Inv, Untouched, OneName, FirstStart, Fresh, Judged
<1>19. CASE Reboot
  BY <1>19 DEF Reboot, OneName, FirstStart, Judged
<1>20. CASE UNCHANGED vars
  BY <1>20, OneNameKept DEF FirstStart
<1> QED
  BY <1>1, <1>2, <1>3, <1>4, <1>5, <1>6, <1>7, <1>8, <1>9, <1>10, <1>11, <1>12, <1>13, <1>14,
     <1>15, <1>16, <1>17, <1>18, <1>19, <1>20 DEF Next, Step

\* A check that will remove a trace has raised its event, unless the event was dropped.
LEMMA ToldStep == ASSUME Inv, [Next]_vars PROVE Told'
<1> USE DEF Inv, Told, GoTo, files, platform, raised, life, verdict, vars
<1>1. CASE CheckPanic
  <2>1. PanicType(PanicTrace.is) \in PanicNames
    BY DEF PanicType, PanicNames
  <2> QED
    BY <1>1, <2>1 DEF CheckPanic, RaiseAll, Sees
<1>2. CASE CheckKdump
  BY <1>2 DEF CheckKdump, Raise
<1>3. CASE CheckShutdown
  BY <1>3 DEF CheckShutdown, CheckFile, Raise
<1>4. CASE CheckRecovery
  BY <1>4 DEF CheckRecovery, CheckFile, Raise
<1>5. CASE Start \/ CheckBuild \/ ResetAfterUpdate \/ ClearPanic \/ RemoveKdump \/
           RemoveShutdown \/ RemoveRecovery \/ CheckDied \/ Dies \/ EndRamdump \/ Reboot
  BY <1>5
  DEF Start, CheckBuild, ResetAfterUpdate, ClearPanic, RemoveKdump, RemoveShutdown,
      RemoveRecovery, RemoveFile, CheckDied, Dies, EndRamdump, Reboot
<1>6. CASE CheckFabric \/ CheckStartupReason \/ CheckRamdump \/ RaiseReboot \/ RaiseFlash \/
           CheckFw \/ RaiseFw \/ RaiseState \/ RaiseDead
  BY <1>6
  DEF CheckFabric, CheckStartupReason, CheckRamdump, RaiseReboot, RaiseFlash, CheckFw, RaiseFw,
      RaiseState, RaiseDead, Raise
<1>7. CASE Unlock \/ UNCHANGED vars
  BY <1>7 DEF Unlock, Sees
<1> QED
  BY <1>1, <1>2, <1>3, <1>4, <1>5, <1>6, <1>7 DEF Next, Step

\* The parts hold together: Fresh needs the order of the phases that TypeOK types, Counted that
\* no daemon comes to the phase "dead" with an empty token, Verdict and OneName that Fresh keeps
\* the events of the earlier checks apart.
THEOREM InvHolds == Spec => []Inv
<1>1. Inv /\ [Next]_vars => Inv'
  BY PlatformStep, VerdictStep, RaisedStep, LifeStep, BoundsStep, ShownStep, FreshStep,
     CountedStep, UntouchedStep, JudgedStep, OneNameStep, ToldStep DEF Inv, TypeOK
<1> QED
  BY <1>1, InvInit, PTL DEF Spec

\* Typing, for every instance: in particular the startup reason has been read whenever a check
\* of early_check uses it.
THEOREM TypeCorrect == Spec => []TypeOK
  BY InvHolds, PTL DEF Inv

\* The token is set only after the REBOOT event of the boot, wherever the daemon stopped before.
THEOREM TokenIsLast == Spec => []TokenAfterReboot
<1>1. Inv => TokenAfterReboot
  BY DEF Inv, Shown
<1> QED
  BY <1>1, InvHolds, PTL

\* No event of early_check is raised twice in a boot unless the daemon stopped before the token.
THEOREM EachRaisedOnce == Spec => []RaisedOnce
<1>1. Inv => RaisedOnce
  BY DEF Inv, Fresh, RaisedOnce
<1> QED
  BY <1>1, InvHolds, PTL

\* check_crashlog_died reports a death only after one, and each one it can: up to three a boot.
THEOREM DeathsTold == Spec => []DeathReported
<1>1. Inv => DeathReported
  BY DEF Inv, TypeOK, LifeOK, Counted, DeathReported
<1> QED
  BY <1>1, InvHolds, PTL

\* An undisturbed first start explains the last watchdog reset: it raises one watchdog event, or a
\* trace showed that the reset was faked; the event's name fits what the panic and fabric checks
\* reported.
THEOREM ResetExplained == Spec => []WatchdogExplained
<1>1. Inv => WatchdogExplained
  <2> SUFFICES ASSUME Inv, phase = "token", FirstStart PROVE WatchdogExplained
    BY DEF WatchdogExplained, FirstStart
  <2> DEFINE wdt == events \cap WatchdogNames
  <2>1. /\ reason.name \in {StartupReason(start), "SWUPDATE"}
        /\ reason.fake = TRUE <=> FakeReset(reason.name)
        /\ watchdog = "HWWDT_UNHANDLED" => events \cap FabricNames = {}
        /\ watchdog = "WDT_UNHANDLED" => events \cap PanicNames = {}
    BY DEF Inv, Verdict, Unread
  <2>2. reason.fake \in BOOLEAN
    BY DEF Inv, TypeOK, VerdictOK, Reasons
  <2>3. wdt = IF IsWdt(reason.name) /\ reason.fake = FALSE THEN {watchdog} ELSE {}
    BY DEF Inv, OneName, Judged
  <2>4. Cardinality({watchdog}) = 1 /\ Cardinality({}) = 0
    BY FS_Singleton, FS_EmptySet
  <2>5. CASE IsWdt(reason.name) /\ reason.fake = FALSE
    <3>1. reason.name = StartupReason(start)
      BY <2>1, <2>5 DEF IsWdt, IsHwwdt
    <3>2. wdt = {watchdog} /\ ~FakeReset(reason.name) /\ reason.name # "SWUPDATE"
      BY <2>1, <2>2, <2>3, <2>5 DEF IsWdt, IsHwwdt
    <3> HIDE DEF wdt
    <3>3. Cardinality(wdt) = 1
      BY <2>4, <3>2
    <3> QED
      BY <2>1, <2>5, <3>1, <3>2, <3>3 DEF WatchdogExplained, wdt
  <2>6. CASE ~(IsWdt(reason.name) /\ reason.fake = FALSE)
    <3>1. wdt = {}
      BY <2>3, <2>6
    <3>2. ~(IsWdt(StartupReason(start)) /\ ~FakeReset(StartupReason(start)) /\ reason.name # "SWUPDATE")
      BY <2>1, <2>2, <2>6
    <3> HIDE DEF wdt
    <3>3. Cardinality(wdt) = 0
      BY <2>4, <3>1
    <3> QED
      BY <3>1, <3>2, <3>3 DEF WatchdogExplained, wdt
  <2> QED
    BY <2>5, <2>6
<1> QED
  BY <1>1, InvHolds, PTL

\* A step of the daemon removes a trace only after its event, except the file of a modem shutdown
\* when the build has changed and the firmware status.
THEOREM RemovedIsReported == Spec => TracesReported
<1>1. ASSUME Inv, Step
      PROVE  \A t \in traces \ traces' :
               \/ events \cap ReportedAs(t.at) # {} \/ lost
               \/ ResetAfterUpdate \/ t.at = "fw"
  <2> USE DEF GoTo, files, platform, raised, life, verdict, Without, ReportedAs, Inv, Told
  <2>1. CASE ClearPanic
    BY <1>1, <2>1 DEF ClearPanic, Sees
  <2>2. CASE RemoveKdump
    BY <1>1, <2>2 DEF RemoveKdump
  <2>3. CASE RemoveShutdown
    BY <1>1, <2>3 DEF RemoveShutdown, RemoveFile
  <2>4. CASE RemoveRecovery
    BY <1>1, <2>4 DEF RemoveRecovery, RemoveFile
  <2>5. CASE CheckFw
    BY <1>1, <2>5 DEF CheckFw
  <2>6. CASE Start \/ CheckBuild \/ CheckFabric \/ CheckPanic \/ CheckKdump \/ CheckShutdown \/
             CheckStartupReason \/ CheckRecovery \/ CheckRamdump \/ RaiseReboot \/ RaiseFlash \/
             RaiseFw \/ RaiseState \/ CheckDied \/ RaiseDead
    BY <2>6
    DEF Start, CheckBuild, CheckFabric, CheckPanic, CheckKdump, CheckShutdown, CheckFile,
        CheckStartupReason, CheckRecovery, CheckRamdump, RaiseReboot, RaiseFlash, RaiseFw,
        RaiseState, CheckDied, RaiseDead
  <2>7. CASE ResetAfterUpdate
    BY <2>7
  <2> QED
    BY <1>1, <2>1, <2>2, <2>3, <2>4, <2>5, <2>6, <2>7 DEF Step
<1>2. Inv /\ [Next]_vars =>
        [Step => \A t \in traces \ traces' :
                    \/ events \cap ReportedAs(t.at) # {} \/ lost
                    \/ ResetAfterUpdate \/ t.at = "fw"]_vars
  BY <1>1
<1> QED
  BY <1>2, InvHolds, PTL DEF Spec, TracesReported

=============================================================================
