------------------------------ MODULE Inotify ------------------------------
(***************************************************************************)
(* crashlog/inotify_handler.c, with the part of dropbox.c that recognizes  *)
(* renamed files and the watches of config_handler.c.  The daemon watches  *)
(* directories; the rows of wd_array tell, for a directory and a pattern,  *)
(* which handler gets a file that was closed there or moved to it.  It     *)
(* reads the events of the kernel a buffer at a time and handles them one  *)
(* after the other, while files and directories change.                    *)
(*                                                                         *)
(* The rows are those of the nominal mode that watch directories; the file *)
(* of the uptime, and what a handler does with its file, are left out.  So *)
(* is the completion of an event cut by the end of the buffer: the kernel  *)
(* gives whole events.                                                     *)
(***************************************************************************)
EXTENDS Integers, Sequences, FiniteSets, SequencesExt

CONSTANTS
  Paths,      \* the watched directories
  Tags,       \* names of files and directories, up to their date
  Names,      \* Names[p]: those of files closed in p, in this instance
  Patterns,   \* Patterns[tag]: the patterns strstr finds in such a name
  Table,      \* wd_array: sequence of [path, pattern, kind]
  Configs,    \* the generic configurations: sequence of [path, pattern]
  SelfFlags,  \* values of IN_ISDIR the kernel may give a removed or moved directory
  MaxQueue,   \* max_queued_events
  MaxFiles,   \* bound of the model: files and directories created in watched ones
  MaxRenames, \* bound of the model: files renamed
  MaxMoves,   \* bound of the model: watched directories removed, moved or made
  MaxSteps,   \* bound of the model: the three together
  MaxFaults   \* bound of the model: faults

Rows == DOMAIN Table

\* What a handler does first: "dropbox", look for a renamed file, then whether the file
\* exists; "lost", the former only; "plain", the latter only; "modem", neither.
Kinds == {"dropbox", "lost", "plain", "modem"}

ASSUME PathsAssumption == IsFiniteSet(Paths)
ASSUME TableAssumption ==
  /\ Len(Table) \in Nat /\ Rows = 1 .. Len(Table)
  /\ Len(Configs) \in Nat /\ DOMAIN Configs = 1 .. Len(Configs)
  /\ \A r \in Rows : Table[r].path \in Paths /\ Table[r].kind \in Kinds
  /\ \A c \in DOMAIN Configs : Configs[c].path \in Paths
  /\ SelfFlags \subseteq BOOLEAN /\ \A p \in Paths : Names[p] \subseteq Tags
ASSUME BoundsAssumption ==
  /\ MaxQueue \in Nat \ {0} /\ MaxFiles \in Nat /\ MaxRenames \in Nat
  /\ MaxMoves \in Nat /\ MaxSteps \in Nat /\ MaxFaults \in Nat

VARIABLES
  at,       \* at[p]: the directory that is at p now; 0 when there is none
  away,     \* directories that were moved away, with the path they come from
  made,     \* directories made so far
  files,    \* what was created: tag, path, directory, and how often it was renamed
  watches,  \* the kernel's watches by descriptor: directory (0: removed) and IN_CREATE
  queue,    \* the kernel's event queue
  buf,      \* what the daemon has read and not handled
  wds,      \* wd of each row of wd_array
  cwds,     \* wd of each configuration
  moved,    \* previous_event_cookie
  up,       \* the daemon runs
  reports,  \* (observer) the reports: row and file; row 0 for a configuration
  noticed,  \* (observer) files whose event the kernel queued for a row or configuration
  lossy,    \* (observer) events were lost, or a directory was given up
  renames, moves, faults  \* how many of these happened

fs     == <<at, away, made>>
daemon == <<wds, cwds, moved, up>>
vars   == <<fs, files, watches, queue, buf, daemon, reports, noticed, lossy,
            renames, moves, faults>>

Fault == faults < MaxFaults /\ faults' = faults + 1
-----------------------------------------------------------------------------
(* The kernel.                                                             *)

\* What happened, under which watch, to which file (0: the directory itself) in which
\* version of its name, with which cookie and IN_ISDIR.
Event(what, wd, file, ver, cookie, isdir) ==
  [what |-> what, wd |-> wd, file |-> file, ver |-> ver, cookie |-> cookie, isdir |-> isdir]
SelfEvent(what, wd, isdir) == Event(what, wd, 0, 0, 0, isdir)

Overflow == SelfEvent("overflow", -1, FALSE)

\* A full queue takes one event that tells it, and no other.
Push(q, es) ==
  LET all == q \o es
  IN  IF Len(all) <= MaxQueue THEN all
      ELSE IF Len(q) > MaxQueue THEN q ELSE Append(SubSeq(all, 1, MaxQueue), Overflow)

\* The events es are queued for the watch wd; wd 0 is no watch.
Notify(wd, es) ==
  IF wd = 0 THEN UNCHANGED <<queue, lossy>>
  ELSE /\ queue' = Push(queue, es)
       /\ lossy' = (lossy \/ Len(queue) + Len(es) > MaxQueue)

WatchOf(dir) ==
  LET ws == {w \in DOMAIN watches : watches[w].dir = dir}
  IN  IF dir = 0 \/ ws = {} THEN 0 ELSE Min(ws)

\* inotify_rm_watch, inotify_add_watch: a directory has one watch, whose mask is replaced.
Unwatch(ws, wd) == [ws EXCEPT ![wd].dir = 0]
AddWatch(ws, dir, create) ==
  LET old == {w \in DOMAIN ws : ws[w].dir = dir}
      new == [dir |-> dir, create |-> create]
  IN  IF dir = 0 THEN [wd |-> -1, ws |-> ws]
      ELSE IF old # {} THEN [wd |-> Min(old), ws |-> [ws EXCEPT ![Min(old)] = new]]
      ELSE [wd |-> Len(ws) + 1, ws |-> Append(ws, new)]
-----------------------------------------------------------------------------
(* init_inotify_handler, generic_add_watch.                                *)

\* The rows and behind them the configurations, in the order in which they are watched.
Places ==
  [i \in 1 .. Len(Table) + Len(Configs) |->
     IF i <= Len(Table) THEN Table[i].path ELSE Configs[i - Len(Table)].path]
FirstAt(p) == Min({i \in DOMAIN Places : Places[i] = p})

\* Rows of one path share the watch of the first; a path that is missing has wd -1.  A watch
\* has here the number of the place that adds it.
WdOf(dirs, p) == IF dirs[p] = 0 THEN -1 ELSE FirstAt(p)

\* Each configuration watches its path again: the watch of the rows gets IN_CREATE.
WatchAt(dirs, i) ==
  [dir    |-> IF i = FirstAt(Places[i]) THEN dirs[Places[i]] ELSE 0,
   create |-> \E c \in DOMAIN Configs : Configs[c].path = Places[i]]

\* Init and Respawn: an empty descriptor, watches for what is there.
Watched(dirs, nwatches, nwds, ncwds) ==
  /\ nwatches = [i \in DOMAIN Places |-> WatchAt(dirs, i)]
  /\ nwds = [r \in Rows |-> WdOf(dirs, Table[r].path)]
  /\ ncwds = [c \in DOMAIN Configs |-> WdOf(dirs, Configs[c].path)]
-----------------------------------------------------------------------------
(* receive_inotify_events                                                  *)

e == Head(buf)

\* The next event of the read; or the handler failed and the rest of the read is lost.
Continue == buf' = Tail(buf) /\ UNCHANGED lossy
Abandon  == buf' = << >> /\ lossy' = (lossy \/ Len(buf) > 1)

\* read: as many events as the buffer takes, at least one.
Read ==
  /\ up /\ buf = << >> /\ queue # << >>
  /\ \E n \in 1 .. Len(queue) :
       buf' = SubSeq(queue, 1, n) /\ queue' = SubSeq(queue, n + 1, Len(queue))
  /\ UNCHANGED <<fs, files, watches, daemon, reports, noticed, lossy, renames, moves, faults>>

\* RowOf that takes the first row of the directory.
RowOfDirectory(ev) ==
  LET rs == {r \in Rows : wds[r] = ev.wd}
  IN  IF ev.file = 0 \/ rs = {} THEN 0
      ELSE IF Table[Min(rs)].pattern \in Patterns[files[ev.file].tag] THEN Min(rs) ELSE 0

\* get_event_entry: the first row with this watch and a pattern of the name; 0 if none.
RowOf(ev) ==
  LET rs == {r \in Rows : /\ wds[r] = ev.wd /\ ev.file # 0
                          /\ Table[r].pattern \in Patterns[files[ev.file].tag]}
  IN  IF rs = {} THEN 0 ELSE Min(rs)

\* The file an event names is there under that name, in the directory of the row.
Exists(r) ==
  LET f == files[e.file] IN f.ver = e.ver /\ f.dir = at[Table[r].path]

Handling == up /\ buf # << >>
Looks(r) == Table[r].kind \in {"dropbox", "lost"}

\* No row for the event: it is dropped.  That of a directory without IN_ISDIR is one.
HandleStray ==
  /\ Handling /\ ~e.isdir /\ RowOf(e) = 0
  /\ buf' = Tail(buf)
  /\ lossy' = (lossy \/ e.what \in {"delself", "moveself"})
  /\ UNCHANGED <<fs, files, watches, queue, daemon, reports, noticed, renames, moves, faults>>

\* HandleFrom that forgets the cookie.
HandleFromForgets ==
  /\ Handling /\ e.what = "from" /\ RowOf(e) # 0
  /\ Continue
  /\ UNCHANGED <<fs, files, watches, queue, daemon, reports, noticed, renames, moves, faults>>

\* manage_duplicate_dropbox_events: the old name of a file is remembered, and the new name
\* with the same cookie is no new file.
HandleFrom ==
  /\ Handling /\ e.what = "from" /\ RowOf(e) # 0
  /\ moved' = e.cookie
  /\ Continue
  /\ UNCHANGED <<fs, files, watches, queue, wds, cwds, up, reports, noticed, renames, moves,
                 faults>>

IsRenamed == e.what = "to" /\ moved # 0 /\ moved = e.cookie

HandleRenamed ==
  /\ Handling /\ IsRenamed /\ RowOf(e) # 0
  /\ moved' = 0
  /\ Continue
  /\ UNCHANGED <<fs, files, watches, queue, wds, cwds, up, reports, noticed, renames, moves,
                 faults>>

\* Any other file is reported.  The callback fails when the file is not there any more, or
\* there is no folder for it: reported too, and the rest of the read is lost.
HandleFile ==
  /\ Handling /\ e.what \in {"close", "to"} /\ ~IsRenamed /\ RowOf(e) # 0
  /\ LET r == RowOf(e)
     IN  /\ reports' = Append(reports, [row |-> r, file |-> e.file])
         /\ \/ /\ Table[r].kind \in {"dropbox", "plain"} => Exists(r)
               /\ Continue /\ UNCHANGED faults
            \/ /\ Table[r].kind \in {"dropbox", "plain"} /\ ~Exists(r)
               /\ Abandon /\ UNCHANGED faults
            \/ Fault /\ Abandon
  /\ UNCHANGED <<fs, files, watches, queue, daemon, noticed, renames, moves>>

IsSelf == e.isdir /\ e.what \in {"delself", "moveself"}
RowsOf(wd) == {r \in Rows : wds[r] = wd}

\* inotify_rm_watch of a watch that is there queues an event too.
RemoveWatch ==
  IF watches[e.wd].dir = 0 THEN Notify(0, << >>)
  ELSE Notify(e.wd, <<SelfEvent("ignored", e.wd, FALSE)>>)

\* HandleSelf that sets the new watch for one row.
HandleSelfOneRow ==
  /\ Handling /\ IsSelf /\ RowsOf(e.wd) # {}
  /\ LET p == Table[Max(RowsOf(e.wd))].path
         d == IF at[p] = 0 THEN made + 1 ELSE at[p]
         a == AddWatch(Unwatch(watches, e.wd), d, FALSE)
     IN  /\ at' = [at EXCEPT ![p] = d] /\ made' = IF at[p] = 0 THEN made + 1 ELSE made
         /\ watches' = a.ws
         /\ wds' = [wds EXCEPT ![Max(RowsOf(e.wd))] = a.wd]
  /\ RemoveWatch
  /\ buf' = Tail(buf)
  /\ UNCHANGED <<away, files, cwds, moved, up, reports, noticed, renames, moves, faults>>

\* A watched directory was removed or moved: it is made again and watched, for all its rows.
HandleSelf ==
  /\ Handling /\ IsSelf /\ RowsOf(e.wd) # {}
  /\ LET p == Table[Max(RowsOf(e.wd))].path
         d == IF at[p] = 0 THEN made + 1 ELSE at[p]
         a == AddWatch(Unwatch(watches, e.wd), d, FALSE)
     IN  /\ at' = [at EXCEPT ![p] = d] /\ made' = IF at[p] = 0 THEN made + 1 ELSE made
         /\ watches' = a.ws
         /\ wds' = [r \in Rows |-> IF wds[r] = e.wd THEN a.wd ELSE wds[r]]
  /\ RemoveWatch
  /\ buf' = Tail(buf)
  /\ UNCHANGED <<away, files, cwds, moved, up, reports, noticed, renames, moves, faults>>

\* The watch cannot be added: the rest of the read is lost, the rows keep the old watch.
HandleSelfFails ==
  /\ Handling /\ IsSelf /\ RowsOf(e.wd) # {} /\ Fault
  /\ watches' = Unwatch(watches, e.wd)
  /\ queue' = IF watches[e.wd].dir = 0 THEN queue
              ELSE Push(queue, <<SelfEvent("ignored", e.wd, FALSE)>>)
  /\ buf' = << >> /\ lossy' = TRUE
  /\ UNCHANGED <<fs, files, daemon, reports, noticed, renames, moves>>

\* No row has that watch (a configuration has it, or the directory was moved twice): the
\* callback is looked up in a row that is NULL.
HandleSelfUnknown ==
  /\ Handling /\ IsSelf /\ RowsOf(e.wd) = {}
  /\ up' = FALSE /\ lossy' = TRUE
  /\ UNCHANGED <<fs, files, watches, queue, buf, wds, cwds, moved, reports, noticed, renames,
                 moves, faults>>

\* get_generic_config: the first configuration whose pattern is in the name; 0 if none.
ConfigOf(tag) ==
  LET cs == {c \in DOMAIN Configs : Configs[c].pattern \in Patterns[tag]}
  IN  IF cs = {} THEN 0 ELSE Min(cs)

\* A directory was created: for the row of LOGS_MODEM_DIR that has the watch, and for the
\* configuration that has it.  What process_modem_generic returns is not looked at.
HandleCreated ==
  /\ Handling /\ e.isdir /\ e.what = "create"
  /\ LET c       == ConfigOf(files[e.file].tag)
         generic == [row |-> 0, file |-> e.file]
         byRow   == c # 0 /\ \E r \in RowsOf(e.wd) : Table[r].kind = "modem"
         byWatch == c # 0 /\ cwds[c] = e.wd
     IN  reports' = reports \o (IF byRow THEN <<generic>> ELSE << >>)
                            \o (IF byWatch THEN <<generic>> ELSE << >>)
  /\ Continue
  /\ UNCHANGED <<fs, files, watches, queue, daemon, noticed, renames, moves, faults>>

Handle ==
  \/ Read \/ HandleStray \/ HandleFrom \/ HandleRenamed \/ HandleFile
  \/ HandleSelf \/ HandleSelfUnknown \/ HandleCreated
-----------------------------------------------------------------------------
(* Surroundings.                                                           *)

Bounded == Len(files) + renames + moves < MaxSteps

Created(p, tag) ==
  /\ at[p] # 0 /\ Len(files) < MaxFiles /\ Bounded
  /\ files' = Append(files, [tag |-> tag, path |-> p, dir |-> at[p], ver |-> 0])
  /\ UNCHANGED <<fs, watches, buf, daemon, reports, renames, moves, faults>>

\* A file is written and closed.
CloseFile(p, tag) ==
  /\ tag \in Names[p]
  /\ Created(p, tag)
  /\ LET w == WatchOf(at[p])
     IN  /\ Notify(w, <<Event("close", w, Len(files) + 1, 0, 0, FALSE)>>)
         /\ noticed' = IF w # 0 /\ \E r \in Rows : /\ Table[r].path = p
                                                 /\ Table[r].pattern \in Patterns[tag]
                       THEN noticed \cup {Len(files) + 1} ELSE noticed

\* A directory is created in one that a configuration names.
CreateDir(p, tag) ==
  /\ ConfigOf(tag) # 0 /\ Configs[ConfigOf(tag)].path = p
  /\ Created(p, tag)
  /\ LET w  == WatchOf(at[p])
         ok == w # 0 /\ watches[w].create
     IN  /\ Notify(IF ok THEN w ELSE 0, <<Event("create", w, Len(files) + 1, 0, 0, TRUE)>>)
         /\ noticed' = IF ok THEN noticed \cup {Len(files) + 1} ELSE noticed

\* DropBoxManager renames a file: two events, one after the other.
Rename(f) ==
  /\ renames < MaxRenames /\ Bounded /\ renames' = renames + 1
  /\ files[f].dir = at[files[f].path]
  /\ \E r \in Rows : Table[r].path = files[f].path /\ Looks(r)
  /\ files' = [files EXCEPT ![f].ver = @ + 1]
  /\ LET w == WatchOf(files[f].dir)
         v == files[f].ver
     IN  Notify(w, <<Event("from", w, f, v, renames + 1, FALSE),
                     Event("to", w, f, v + 1, renames + 1, FALSE)>>)
  /\ UNCHANGED <<fs, watches, buf, daemon, reports, noticed, moves, faults>>

Move == moves < MaxMoves /\ Bounded /\ moves' = moves + 1

RemoveDir(p) ==
  /\ Move /\ at[p] # 0
  /\ at' = [at EXCEPT ![p] = 0]
  /\ LET w == WatchOf(at[p])
     IN  /\ \E isdir \in SelfFlags :
              Notify(w, <<SelfEvent("delself", w, isdir), SelfEvent("ignored", w, FALSE)>>)
         /\ watches' = IF w = 0 THEN watches ELSE Unwatch(watches, w)
  /\ UNCHANGED <<away, made, files, buf, daemon, reports, noticed, renames, faults>>

MoveDir(p) ==
  /\ Move /\ at[p] # 0
  /\ at' = [at EXCEPT ![p] = 0] /\ away' = away \cup {[path |-> p, dir |-> at[p]]}
  /\ LET w == WatchOf(at[p])
     IN  \E isdir \in SelfFlags : Notify(w, <<SelfEvent("moveself", w, isdir)>>)
  /\ UNCHANGED <<made, files, watches, buf, daemon, reports, noticed, renames, faults>>

MoveBack(m) ==
  /\ Move /\ at[m.path] = 0
  /\ at' = [at EXCEPT ![m.path] = m.dir] /\ away' = away \ {m}
  /\ LET w == WatchOf(m.dir)
     IN  \E isdir \in SelfFlags : Notify(w, <<SelfEvent("moveself", w, isdir)>>)
  /\ UNCHANGED <<made, files, watches, buf, daemon, reports, noticed, renames, faults>>

MakeDir(p) ==
  /\ Move /\ at[p] = 0
  /\ at' = [at EXCEPT ![p] = made + 1] /\ made' = made + 1
  /\ UNCHANGED <<away, files, watches, queue, buf, daemon, reports, noticed, lossy, renames,
                 faults>>

\* The daemon dies, or it did so in HandleSelfUnknown; init starts it again.
Respawn ==
  /\ IF up THEN Fault ELSE UNCHANGED faults
  /\ Watched(at, watches', wds', cwds')
  /\ queue' = << >> /\ buf' = << >> /\ moved' = 0 /\ up' = TRUE /\ lossy' = TRUE
  /\ UNCHANGED <<fs, files, reports, noticed, renames, moves>>

\* Directories at some of the paths, with numbers from 1.
Numbered(present) ==
  CHOOSE f \in [Paths -> 0 .. Cardinality(present)] :
    /\ \A p \in Paths : f[p] = 0 <=> p \notin present
    /\ \A p, q \in present : f[p] = f[q] => p = q

Init ==
  /\ \E present \in SUBSET Paths :
       /\ at = Numbered(present) /\ made = Cardinality(present)
  /\ away = {} /\ files = << >>
  /\ Watched(at, watches, wds, cwds)
  /\ queue = << >> /\ buf = << >> /\ moved = 0 /\ up = TRUE
  /\ reports = << >> /\ noticed = {} /\ lossy = FALSE
  /\ renames = 0 /\ moves = 0 /\ faults = 0

Next ==
  \/ Handle \/ HandleSelfFails \/ Respawn
  \/ \E p \in Paths :
       \/ RemoveDir(p) \/ MoveDir(p) \/ MakeDir(p)
       \/ \E tag \in Tags : CloseFile(p, tag) \/ CreateDir(p, tag)
  \/ \E f \in DOMAIN files : Rename(f)
  \/ \E m \in away : MoveBack(m)

\* do_monitor reads whenever there is something to read, and handles all it read.
Spec == Init /\ [][Next]_vars /\ WF_vars(Handle)
-----------------------------------------------------------------------------
(* Properties.                                                             *)

Events == Range(buf) \cup Range(queue)
Dirs == 0 .. Cardinality(Paths) + MaxMoves
Files == 0 .. MaxFiles
EventSet ==
  [what : {"close", "from", "to", "create", "delself", "moveself", "ignored", "overflow"},
   wd : {-1} \cup (1 .. Len(watches)), file : Files, ver : 0 .. MaxRenames,
   cookie : 0 .. MaxRenames, isdir : BOOLEAN]

\* Typing, the limit of the queue, and rows of one path with one watch.
TypeOK ==
  /\ at \in [Paths -> Dirs] /\ made \in Dirs /\ away \subseteq [path : Paths, dir : Dirs]
  /\ files \in Seq([tag : Tags, path : Paths, dir : Dirs, ver : 0 .. MaxRenames])
  /\ watches \in Seq([dir : Dirs, create : BOOLEAN])
  /\ Events \subseteq EventSet /\ Len(queue) <= MaxQueue + 1
  /\ \A r \in Rows : wds[r] \in {-1} \cup (1 .. Len(watches))
  /\ \A r, s \in Rows : Table[r].path = Table[s].path => wds[r] = wds[s]
  /\ \A c \in DOMAIN Configs : cwds[c] \in {-1} \cup (1 .. Len(watches))
  /\ moved \in 0 .. renames /\ up \in BOOLEAN /\ lossy \in BOOLEAN
  /\ reports \in Seq([row : 0 .. Len(Table), file : Files]) /\ noticed \subseteq Files
  /\ renames \in 0 .. MaxRenames /\ moves \in 0 .. MaxMoves /\ faults \in 0 .. MaxFaults

ReportsOf(f) == {i \in DOMAIN reports : reports[i].file = f /\ reports[i].row # 0}

\* A file reaches the handler of a row of the directory it was created in, the first whose
\* pattern is in its name, whatever was removed, moved, lost or restarted.
OwnRow(i) ==
  reports[i].row # 0 =>
    LET r == reports[i].row
        f == files[reports[i].file]
        Fits(s) == Table[s].path = f.path /\ Table[s].pattern \in Patterns[f.tag]
    IN  Fits(r) /\ \A s \in 1 .. r - 1 : ~Fits(s)

\* Each report is of its own row.  As long as no event was lost, a file is reported once,
\* however often it is renamed, before or after its own event is handled.
ReportedOnce ==
  /\ \A i \in DOMAIN reports : OwnRow(i)
  /\ ~lossy => \A f \in DOMAIN files : Cardinality(ReportsOf(f)) <= 1

\* A directory watched for a row stays so: the row's watch is that of the directory at its path
\* now, or an event that it was removed or moved is on its way.
DirsFollowed ==
  up /\ ~lossy =>
    \A r \in Rows : wds[r] # -1 =>
      \/ watches[wds[r]].dir = at[Table[r].path] /\ at[Table[r].path] # 0
      \/ \E ev \in Events : ev.wd = wds[r] /\ ev.what \in {"delself", "moveself"}

\* Every file or directory the kernel told of is reported, unless events are lost: again and
\* again, none is left without a report.
Answered ==
  []<>(lossy \/ \A f \in noticed : \E i \in DOMAIN reports : reports[i].file = f)
=============================================================================
