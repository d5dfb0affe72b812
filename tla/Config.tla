------------------------------- MODULE Config -------------------------------
(***************************************************************************)
(* config.c, config_handler.c and process_modem_generic of modem.c: the    *)
(* file crashlog.conf, and the events of the modem it adds.                *)
(*                                                                         *)
(* The file is read line by line into a list of sections with a cursor,    *)
(* current, which is the last section that was added or looked up; every   *)
(* look-up moves it, and a search for the section it is on does not start  *)
(* again.  main.c then takes the settings from the section GENERAL, and a  *)
(* configuration from each section INOTIFY "label" until one has no        *)
(* pattern.  inotify_handler.c watches the path of each configuration, and *)
(* gives the events of directories made there to process_modem_generic:    *)
(* by the row of wd_array for the modem's own directory, whatever watch    *)
(* the configuration has, and then by the watch of the configuration.      *)
(*                                                                         *)
(* A line is what is left of it behind the trim, in pieces of MAXLEN - 3   *)
(* characters.                                                             *)
(***************************************************************************)
EXTENDS Integers, Sequences, FiniteSets, SequencesExt

CONSTANTS
  Texts,      \* the files: sequences of lines
  Paths,      \* directories
  Inside,     \* for each path, the paths that begin with it
  Patterns,   \* texts in the names of files that events are about
  ModemDir,   \* LOGS_MODEM_DIR, which rows of wd_array watch too
  Number,     \* atoi of the values of settings
  Swaps,      \* pairs of patterns of the same length
  MaxEvents   \* bound of the model: files and directories that appear

\* A line starts a section, has an '=', or is none of both (a comment, a rest).
Line == [kind : {"section"}, base : STRING, label : STRING]
          \cup [kind : {"pair"}, key : STRING, value : STRING]
          \cup [kind : {"none"}]

Undefined == "UNDEFINED"
General   == <<"GENERAL", "">>
None      == "none"

Sizes    == {"uptime_frequency", "sd_size_limit"}
Checks   == {"check_ram_panic", "check_hwwdt", "check_modem_version"}
Keys     == <<"uptime_frequency", "sd_size_limit", "serial_device_id",
              "check_ram_panic", "check_hwwdt", "check_modem_version">>

\* The values the globals start with; true checks and the sizes are positive numbers.
CONSTANT Default

ASSUME ConfigAssumption ==
  /\ Texts \subseteq Seq(Line)
  /\ None \notin Paths /\ \A p \in Paths : p \in Inside[p] /\ Inside[p] \subseteq Paths
  /\ Swaps \subseteq Patterns \X Patterns /\ \A p \in Patterns : <<p, p>> \in Swaps
  /\ Default \in [Range(Keys) -> Nat] /\ MaxEvents \in Nat

VARIABLES
  text,      \* the lines of crashlog.conf
  pos,       \* lines that were read
  sections,  \* the list from conf_handle->first: [name, kvs]
  current,   \* conf_handle->current: index in sections, 0 for NULL
  phase,     \* where load_config or the daemon is
  settings,  \* the globals
  configs,   \* the list from g_first_modem_config
  wds,       \* wd of each configuration: a path, or none
  reports    \* the events of watched directories, and what was done about each

handle == <<sections, current>>
vars   == <<text, pos, handle, phase, settings, configs, wds, reports>>
-----------------------------------------------------------------------------
(* The handle.                                                             *)

Section(n, kvs) == [name |-> n, kvs |-> kvs]

\* add_section and add_kv_pair for a line; a pair before the first section is ignored.
Added(l) ==
  CASE l.kind = "section" ->
         /\ sections' = Append(sections, Section(<<l.base, l.label>>, << >>))
         /\ current' = Len(sections) + 1
    [] l.kind = "pair" /\ current # 0 ->
         /\ sections' = [sections EXCEPT ![current].kvs = Append(@, <<l.key, l.value>>)]
         /\ UNCHANGED current
    [] OTHER -> UNCHANGED handle

\* The first of the sections from i on that Test holds of, or NULL.
FirstFrom(i, Test(_)) ==
  LET with == {j \in i .. Len(sections) : Test(sections[j].name)}
  IN  IF with = {} THEN 0 ELSE CHOOSE j \in with : \A k \in with : j <= k

\* find_section, always from the first section.
FindFirst(cur, n) == FirstFrom(1, LAMBDA m : m = n)

\* The section the cursor is on is not looked at.
FindHere(cur, n) == IF cur # 0 THEN cur ELSE FirstFrom(1, LAMBDA m : m = n)

\* find_section: the section the cursor is on, or the first one with the name.
FindSection(cur, n) ==
  IF cur # 0 /\ sections[cur].name = n THEN cur ELSE FirstFrom(1, LAMBDA m : m = n)

\* get_value: the first value of the key in section s; Undefined stands for NULL.
ValueIn(s, key) ==
  IF s = 0 THEN Undefined
  ELSE LET with == {i \in DOMAIN sections[s].kvs : sections[s].kvs[i][1] = key}
       IN  IF with = {} THEN Undefined
           ELSE sections[s].kvs[CHOOSE i \in with : \A j \in with : i <= j][2]
ValueOr(s, key, default) ==
  IF ValueIn(s, key) = Undefined THEN default ELSE ValueIn(s, key)

\* get_first_section_name and get_next_section_name.
IsBase(n)   == n[1] = "INOTIFY" /\ n[2] # ""
FirstNamed  == FirstFrom(1, IsBase)
NextNamed(s) == IF s = 0 THEN 0 ELSE FirstFrom(s + 1, IsBase)
-----------------------------------------------------------------------------
(* load_config.                                                            *)

\* init_config_file: the next line.
ReadLine ==
  /\ phase = "read" /\ pos < Len(text)
  /\ Added(text[pos + 1])
  /\ pos' = pos + 1
  /\ UNCHANGED <<text, phase, settings, configs, wds, reports>>

ReadEnd ==
  /\ phase = "read" /\ pos = Len(text)
  /\ phase' = "general" /\ pos' = 1
  /\ UNCHANGED <<text, handle, settings, configs, wds, reports>>

\* A value of the file for a setting.
Applied(key, value, old) ==
  IF Number[value] > 0 THEN (IF key \in Sizes THEN Number[value] ELSE 1)
  ELSE IF key \in Checks THEN 0 ELSE old

\* The setting Keys[pos]: sk_exists, then get_value.
LoadSetting ==
  /\ phase = "general" /\ pos <= Len(Keys)
  /\ LET key == Keys[pos]
         s   == FindSection(current, General)
     IN  /\ current' = s
         /\ settings' = IF ValueIn(s, key) = Undefined THEN settings
                        ELSE [settings EXCEPT ![key] = Applied(key, ValueIn(s, key), @)]
  /\ pos' = pos + 1
  /\ UNCHANGED <<text, sections, phase, configs, wds, reports>>

\* load_config_by_pattern on a copy of the handle.
FirstPattern ==
  /\ phase = "general" /\ pos > Len(Keys)
  /\ current' = FirstNamed
  /\ phase' = "patterns"
  /\ UNCHANGED <<text, pos, sections, settings, configs, wds, reports>>

\* event_class and type.
Class(word) == IF word \in {"ERROR", "INFO"} THEN word ELSE "CRASH"
IsDir(word) == word = "dir"

\* The configurations that store_config may make of section s.  A path that is not given
\* is what malloc left there, mostly the empty one.
Stored(s) ==
  {[event |-> ValueIn(s, "eventname"), pattern |-> ValueIn(s, "matching_pattern"),
    dir |-> IsDir(ValueOr(s, "type", "file")), path |-> path,
    linked |-> ValueOr(s, "path_linked", None),
    class |-> Class(ValueOr(s, "event_class", "CRASH"))] :
       path \in IF ValueIn(s, "path_trigger") = Undefined THEN {None, "left over"}
                ELSE {ValueIn(s, "path_trigger")}}

\* Only the modem is supported, and a configuration has a name and a pattern.
Accepted(s) ==
  /\ ValueOr(s, "module", Undefined) = "modem"
  /\ ValueIn(s, "eventname") # Undefined
  /\ ValueIn(s, "matching_pattern") # Undefined

\* store_config looks the section up again for each key; then the next section.
StorePattern ==
  /\ phase = "patterns" /\ current # 0
  /\ LET s == FindSection(current, sections[current].name)
     IN  /\ ValueIn(s, "matching_pattern") # Undefined
         /\ IF Accepted(s) THEN \E c \in Stored(s) : configs' = Append(configs, c)
            ELSE UNCHANGED configs
         /\ current' = NextNamed(s)
  /\ UNCHANGED <<text, pos, sections, phase, settings, wds, reports>>

\* No section, or one without a pattern, ends it; the handle is freed.
EndPatterns ==
  /\ phase = "patterns"
  /\ current # 0 =>
       ValueIn(FindSection(current, sections[current].name), "matching_pattern") = Undefined
  /\ sections' = << >> /\ current' = 0 /\ phase' = "loaded"
  /\ UNCHANGED <<text, pos, settings, configs, wds, reports>>
-----------------------------------------------------------------------------
(* The events.                                                             *)

\* generic_add_watch: inotify_add_watch may fail, and does on what is no path; without a
\* path there is no call, and the wd is what malloc left.
Watched(c, failing) ==
  CASE configs[c].path = None             -> Paths \cup {None}
    [] configs[c].path \in Paths \ failing -> {configs[c].path}
    [] OTHER                              -> {None}
AddWatches ==
  /\ phase = "loaded"
  /\ \E failing \in SUBSET Paths :
       wds' \in {w \in [DOMAIN configs -> Paths \cup {None}] :
                 \A c \in DOMAIN configs : w[c] \in Watched(c, failing)}
  /\ phase' = "watching"
  /\ UNCHANGED <<text, pos, handle, settings, configs, reports>>

\* get_generic_config: the first whose pattern is in the name.
GenericConfig(name) ==
  LET with == {c \in DOMAIN configs : configs[c].pattern \in name}
  IN  IF with = {} THEN 0 ELSE CHOOSE c \in with : \A d \in with : c <= d

\* The watch is not compared.
MatchAny(name, wd) == GenericConfig(name)

\* generic_match_by_wd
MatchByWd(name, wd) ==
  LET c == GenericConfig(name) IN IF c # 0 /\ wds[c] = wd THEN c ELSE 0

\* get_generic_config_by_path: the first whose path begins with the one given.
ConfigByPath(path) ==
  LET with == {c \in DOMAIN configs : configs[c].path \in Inside[path]}
  IN  IF path \notin Paths \/ with = {} THEN 0 ELSE CHOOSE c \in with : \A d \in with : c <= d

\* The copy of the linked data, of a name with the other pattern of the same length.
Linked(c) ==
  LET l == IF configs[c].linked = None THEN 0 ELSE ConfigByPath(configs[c].linked)
  IN  IF l = 0 \/ <<configs[c].pattern, configs[l].pattern>> \notin Swaps THEN << >>
      ELSE <<[from |-> configs[c].linked, pattern |-> configs[l].pattern]>>

\* process_modem_generic, with an event of a directory in dir.  Without a folder it is a
\* crash.  The copies are made for a directory, whose event is not ready before them.
Report(c, dir, found) ==
  LET copied == configs[c].dir /\ found
  IN  [by |-> c, event |-> configs[c].event,
       class |-> IF found THEN configs[c].class ELSE "CRASH", ready |-> ~copied,
       copies |-> IF copied THEN <<[from |-> dir, pattern |-> configs[c].pattern]>> \o Linked(c)
                  ELSE << >>]

One(c) == IF c = 0 THEN << >> ELSE <<c>>

\* receive_inotify_events, for a directory: by the row, when there is one, and by the watch.
Tellers(dir, name, row) ==
  One(IF row /\ dir = ModemDir THEN GenericConfig(name) ELSE 0) \o One(MatchByWd(name, dir))

\* Something whose name has the patterns appears in a directory that is watched.  A plain
\* file is for the rows, and dropped as stray without one: no configuration reports it.
Appears ==
  /\ phase = "watching" /\ Len(reports) < MaxEvents
  /\ \E dir \in {wds[c] : c \in {d \in DOMAIN wds : configs[d].path = wds[d]}} \ {None},
        name \in SUBSET Patterns, plain, row \in BOOLEAN, found \in [1 .. 2 -> BOOLEAN] :
       LET by == IF plain THEN << >> ELSE Tellers(dir, name, row)
       IN  reports' = Append(reports,
                 [dir |-> dir, name |-> name, plain |-> plain,
                  told |-> [k \in 1 .. Len(by) |-> Report(by[k], dir, found[k])]])
  /\ UNCHANGED <<text, pos, handle, phase, settings, configs, wds>>
-----------------------------------------------------------------------------
Init ==
  /\ text \in Texts
  /\ pos = 0 /\ sections = << >> /\ current = 0 /\ phase = "read"
  /\ settings = Default /\ configs = << >> /\ wds = << >> /\ reports = << >>

Next ==
  \/ ReadLine \/ ReadEnd \/ LoadSetting \/ FirstPattern \/ StorePattern \/ EndPatterns
  \/ AddWatches \/ Appears

Spec == Init /\ [][Next]_vars
-----------------------------------------------------------------------------
(* Properties.                                                             *)

\* What the text says: the heads of its sections, and the first value of a key behind one.
Heads   == {h \in DOMAIN text : text[h].kind = "section"}
Body(h)  == {i \in DOMAIN text : i > h /\ text[i].kind = "pair" /\ \A g \in Heads : g <= h \/ g > i}
Name(h)  == <<text[h].base, text[h].label>>
Given(h, key) ==
  LET with == {i \in Body(h) : text[i].key = key}
  IN  IF with = {} THEN Undefined ELSE text[CHOOSE i \in with : \A j \in with : i <= j].value

\* Whatever other sections have the same keys, and wherever the section is: if there is one
\* section GENERAL, the settings in force are those it gives, and the others keep their
\* default.
SettingsAsWritten ==
  LET general == {h \in Heads : Name(h) = General}
  IN  phase \notin {"read", "general"} /\ Cardinality(general) <= 1 =>
        \A key \in Range(Keys) :
          settings[key] =
            IF \A h \in general : Given(h, key) = Undefined THEN Default[key]
            ELSE Applied(key, Given(CHOOSE h \in general : TRUE, key), Default[key])

\* The heads of the configurations: before them each section for events has a pattern.
Configured ==
  LET events == {h \in Heads : IsBase(Name(h))}
  IN  {h \in events : /\ \A g \in events : g <= h => Given(g, "matching_pattern") # Undefined
                      /\ Given(h, "module") = "modem" /\ Given(h, "eventname") # Undefined}

\* There is one configuration for each of them, in the order of the file, and it is made of
\* the lines of that section alone, even when another one has the same name.
ConfigsAsWritten ==
  /\ Len(configs) <= Cardinality(Configured)
  /\ phase \in {"loaded", "watching"} => Len(configs) = Cardinality(Configured)
  /\ \A c \in DOMAIN configs : \E h \in Configured :
       /\ Cardinality({g \in Configured : g <= h}) = c
       /\ configs[c].event = Given(h, "eventname")
       /\ configs[c].pattern = Given(h, "matching_pattern")
       /\ configs[c].dir = (Given(h, "type") = "dir")
       /\ Given(h, "path_trigger") # Undefined => configs[c].path = Given(h, "path_trigger")
       /\ configs[c].linked = IF Given(h, "path_linked") = Undefined THEN None
                              ELSE Given(h, "path_linked")
       /\ configs[c].class = IF Given(h, "event_class") \in {"ERROR", "INFO"}
                             THEN Given(h, "event_class") ELSE "CRASH"

\* As long as each configuration has a path: a plain file is reported by none.  A directory
\* is reported by a configuration whose pattern is in the name, of the directory it appears
\* in unless that is the modem's; at most once, or in the modem's directory twice by its own
\* configuration.  It is lost to the configurations of its directory only when one of
\* another directory, before them in the file, has a pattern of the name too.
EventOfOwn ==
  (\A c \in DOMAIN configs : configs[c].path \in Paths) =>
    \A i \in DOMAIN reports :
      LET e    == reports[i]
          with == {c \in DOMAIN configs : configs[c].pattern \in e.name}
          own  == {c \in with : configs[c].path = e.dir}
      IN  /\ e.plain => e.told = << >>
          /\ \A k \in DOMAIN e.told :
               /\ e.told[k].by \in (IF e.dir = ModemDir THEN with ELSE own)
               /\ k > 1 => e.dir = ModemDir /\ k = 2 /\ e.told[1].by = e.told[2].by
                           /\ e.told[2].by \in own
          /\ ~e.plain /\ e.told = << >> =>
               \A c \in own : \E d \in with \ own : d < c
=============================================================================
