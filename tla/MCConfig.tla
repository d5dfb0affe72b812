------------------------------ MODULE MCConfig ------------------------------
(***************************************************************************)
(* Files of at most MaxBlocks blocks, most of them a section with its      *)
(* lines, in any order.                                                    *)
(***************************************************************************)
EXTENDS Config

CONSTANT MaxBlocks

Start(base, label) == [kind |-> "section", base |-> base, label |-> label]
Pair(key, value)  == [kind |-> "pair", key |-> key, value |-> value]

\* A section for events of pattern p in a directory.
Events(label, event, p, dir) ==
  <<Start("INOTIFY", label), Pair("module", "modem"), Pair("eventname", event),
    Pair("matching_pattern", p), Pair("path_trigger", dir)>>

Blocks ==
  {<<Pair("uptime_frequency", "2")>>,
   <<Start("GENERAL", ""), Pair("uptime_frequency", "6"), Pair("uptime_frequency", "7"),
     Pair("check_hwwdt", "0"), [kind |-> "none"]>>,
   <<Start("GENERAL", ""), Pair("sd_size_limit", "0"), Pair("serial_device_id", "3")>>,
   Events("a", "TRACE", "istp", "logs") \o <<Pair("type", "dir"), Pair("path_linked", "crash"),
                                             Pair("event_class", "INFO")>>,
   Events("a", "DUMP", "core", "crash") \o <<Pair("sd_size_limit", "9"), Pair("event_class", "WARN")>>,
   <<Start("INOTIFY", "b"), Pair("module", "modem"), Pair("eventname", "NOPATTERN")>>,
   <<Start("INOTIFY", "c"), Pair("module", "modem"), Pair("matching_pattern", "istp"),
     Pair("eventname", "NOPATH")>>,
   <<Start("INOTIFY", ""), Pair("module", "modem"), Pair("matching_pattern", "core")>>}

MCTexts ==
  UNION {{FlattenSeq(b) : b \in [1 .. n -> Blocks]} : n \in 0 .. MaxBlocks}

MCPaths    == {"logs", "crash"}
MCInside   == [p \in MCPaths |-> {p}]
MCPatterns == {"istp", "core"}
MCNumber   == ("0" :> 0) @@ ("2" :> 2) @@ ("3" :> 3) @@ ("6" :> 6) @@ ("7" :> 7) @@ ("9" :> 9)
MCSwaps    == MCPatterns \X MCPatterns
MCDefault  == [k \in Range(Keys) |-> IF k \in Sizes THEN 12 ELSE IF k = "serial_device_id" THEN 0 ELSE 1]
=============================================================================
