# Specifications of log_capture

TLA+ models of the Intel Android `log_capture` tools, checked with TLC, with proofs
checked by TLAPS.  The heart of the repository, and of this project, is **crashlogd**
(`crashlog/`), the daemon that detects crashes and keeps the history of a device.

## 1. The system

`crashlogd` is a single process with one main loop (`do_monitor`, main.c) over three
sources, in this order: an inotify descriptor (crash files, dropbox files, traces), the
pipe of the modem manager client, and a netlink socket (kernel events).  init starts it
at boot and again whenever it dies.  What it finds becomes an *event*: a line in
`/logs/history_event`, a file describing it, often a *crash folder* with the files that
belong to it, and a broadcast to the CrashReport application.

| component | files | state | operations | with whom |
|---|---|---|---|---|
| event history | `history.c` | `history_event`; `historycache`, `nextline`, `loop_uptime_event` | record, load, uptime, reset, mark deleted, look up | everybody who raises events; `del_hist.sh`, CMDDELETE triggers |
| event creation | `crashutils.c` | `currentbuild`..., `crashlogd.token`, reboot files | `raise_event*`, keys, crash files, notifications, cleaning of unknown folders | history, fsutils |
| crash folders | `fsutils.c` | one counter file per kind; `CRASH_DIR`, `STATS_DIR`, `APLOGS_DIR`, `BZ_DIR` | `find_new_crashlog_dir`, `rmfr`, `do_copy_tail`, `copy_dir` threads | all handlers, the SD card |
| handlers | `usercrash.c`, `anruiwdt.c`, `modem.c`, `trigger.c`, `kct_netlink.c` | none, or a packet counter | one per type of event | folders, history, dropbox |
| inotify dispatch | `inotify_handler.c` | `wd_array` | set watches, dispatch, re-add a removed directory | handlers |
| dropbox | `dropbox.c`, `dumpstate_dropbox.sh` | `gcurrent_key[2]` with two indices; `logsystemstate` service | start the service, final notification | init, inotify, CrashReport |
| modem core dumps | `mmgr_source.c`, `modem.c` | pipe, `MCD_PROCESSING` | callbacks, `mmgr_handle`, aborted dump at boot | modem manager thread |
| life cycle | `main.c` | `crashlogd.token`, build id | `early_check`, software update, main loop | all |
| boot detection | `panic.c`, `fabric.c`, `startupreason.c`, `ramdump.c`, `recovery.c`, `fw_update.c` | console and trace files of the last boot | which event a boot raises | event creation |
| configuration | `config.c`, `config_handler.c` | a list of sections with a cursor; the settings; the list of generic configurations | read, look up, store, watch, match | life cycle, inotify, modem events |
| iptrak, UEFI | `iptrak.c`, `tcs_wrapper.c`, `uefivar.c` | version files | update | life cycle |
| amtl | `amtl/` | modem configuration, modem status | apply a trace configuration, log backup | modem manager, mts service |
| backtrace | `backtrace/`, `parse_stack/`, `debug_anr/` | `StackAll`, the maps with their symbol tables; the trace file | read all stacks and maps, name addresses, live or in a trace | /proc, the ANR handler |
| other tools | scripts | none kept | one-shot | - |

### What is hard

- *Two copies of one thing*: the history is in a file and in a circular buffer; the file is
  edited, cut and removed behind the buffer.
- *Stopping anywhere*: init restarts the daemon; the files (`MCD_PROCESSING`, token, build id,
  counters, history) are all it remembers, and each is written at some point of a longer
  sequence.
- *Other actors*: the thread of the modem manager client, `copy_dir` threads that sleep
  first, the `logsystemstate` service and init, users and scripts that remove files, the SD
  card coming and going.
- *Wrap-around*: counters modulo `gmaxfiles`, a buffer modulo `MAX_RECORDS`, a ring of two.
- *Values read too early*: the four directory globals move with the SD card, and two handlers
  read them before the call that moves them.
- *Failures that are ignored*: copies, markers, appends, callbacks.
- *A system that changes while it is read*: processes end between the reading of their stacks, names
  and maps.
- *A cursor that look-ups share*: the sections of the configuration, the symbol of the last address.

### What makes each component correct

- History: the rewrite of a full buffer never meets an empty slot; the file keeps the order
  of the events, each once, whatever fails; without failures it is a bounded log.
- Folders: the files of an event stay in its folder until the number comes round, alone but for what
  late writers bring to a folder that was theirs.
- Dropbox: a key is announced once, for its own folder, eventually.
- Core dumps: one report per dump, none forgotten, no core lost.
- Boot: one start per boot looks at the traces of the last one; each is told, once.
- Dispatch: an event reaches the handler of the directory it happened in.
- Configuration: settings and configurations are what the sections of the file say, whatever was
  looked up before; a directory is reported by a configuration of the directory it appears in.
- Backtrace: an address is named with the maps of its own process and a symbol that contains it.

## 2. Modules

| module | models | state |
|---|---|---|
| `HistoryLog` | the abstract specification of the history: a bounded log | `log` |
| `History` | `history.c` and its callers in `crashutils.c`, `main.c` | `exists, file` = the file, `cache, nextline` = the buffer; `dirs`, `abortclean` = the cleaning of folders; `raised`, `dropped` observe |
| `HistoryProofs` | theorems about `History` and its refinement of `HistoryLog` | - |
| `LogDirs` | `find_new_crashlog_dir` and the handlers that use it | `counter` = counter files, `root` = the four globals, `disk` = the folders, `job` = a trigger in progress, `copies` = waiting threads, `service, shown` = `logsystemstate` and its property |
| `Dropbox` | `dropbox.c` with the service and the inotify events it lives on | `keys, prod, cons` = the ring, `watched`, `queue` = inotify, `service, shown, written` = the service |
| `CoreDump` | `mmgr_source.c`, `crashlog_check_mpanic_abort`, start and token | `marker` = `MCD_PROCESSING`, `pipe`, `job` with the step `mmgr_handle` is at, `phase` = where the daemon is |
| `CoreDumpProofs`, `DropboxProofs`, `LogDirsProofs`, `ConfigProofs`, `InotifyProofs` | theorems about the module in the name | - |
| `ToolsProofs` | theorems about the tools beside the daemon, `Amtl` and `Backtrace` | - |
| `Amtl` | `ConfigApplyFrag`, `ModemController`, `GeneralSetupFrag`, `AMTLTabLayout`, `MtsManager`, `ModemConf` of amtl | `task` = the next call of `ApplyConfTask` and its configuration, `ui` = the check the main thread is in, `status, tty, answers` = `ModemController` and what can be read, `acquired, first` = its flags, `held` = mmgr, `prefs, mts, expert` = preferences and properties, `modem` = the modem; `spoiled` is an observer |
| `Boot` | `main`, `early_check` and the checks of `fabric.c`, `panic.c`, `startupreason.c`, `ramdump.c`, `recovery.c`, `fw_update.c`, `modem.c` | `traces` = what the last boot left, `reason, watchdog` = what the checks hand on, `token`, `updated` and `stale` = the build and the logs, `phase` = the next call |
| `Inotify` | `inotify_handler.c`, `manage_duplicate_dropbox_events`, the watches of `config_handler.c` | `wds, cwds` = the descriptors in `wd_array` and in the configurations, `moved` = the remembered cookie, `buf` = the read in progress; `watches, queue` = the kernel, `at, away, files` = the directories |
| `BootProofs` | theorems about `Boot` | - |
| `Config` | `config.c`, `config_handler.c`, `process_modem_generic` | `sections, current` = the handle, `settings` = the globals, `configs` = the list, `wds` = their watches, `reports` observes |
| `Symbols` | `symbols.c`, `symbols_64.c`, the maps of `backtrace.c` | - |
| `Backtrace` | `backtrace.c`, `generate_tomb_file.c`, `parse_stack.c`, `logToFile` | `alive` = the system; `phase, pid, tid, index` = where the tool is, `all` = `StackAll`, `milist`, `file, pos` = the trace, `pending, title` = the stack in hand, `out` |
Each action is one function (or, where another actor or a stop can come in between, one
step of it); its comment names it.  The `MC*` modules are the instances for TLC.  Some
operators come in two forms, such as `Succ` and `SuccNoWrap`: the second, always placed
before the first and used by nothing, is a plausible mistake that the properties are checked
to detect.

### Choices worth knowing

- `History`: a line is a record with the number of the event in place of its key and date;
  one operator on a record `Hist` per function of the file, so that several of them compose in
  an action as they do in the code.  `FailedUpdates` has one element per place where
  `update_history_file` can stop, a daemon that dies half-way through the rewrite included.
  A restart with the token set is `Respawn`; `Boot` and `BootAfterUpdate` are the first start.
- `LogDirs`: an event carries the age of its folder, that is how many folders of its kind were
  asked for since; `ordered` tells the handlers that build the path after the call, `late` those that
  leave a late writer behind: a `copy_dir` thread, which sleeps first, or the service, which
  `start_dumpstate_srv` starts for a tombstone, a Java crash and an ANR and which writes 5 to 40 s later
  (`dumpstate_dropbox.sh`).  Both write to the path they were given, whatever event has the folder by
  then; that `dumpstate` makes a missing directory again is taken from its use (`MadeAgain`).  Nothing in
  the code prevents it, so `OwnFilesOnly` says how far it goes: only to a folder that was the writer's
  own, at least `gmaxfiles` folders of its kind ago.  A service started while init has not yet told
  of the first works in either folder (`Started`), as in `Dropbox`.
- `Dropbox`: the queue is that of the inotify descriptor.  `ServiceShown` is init setting the
  property some time after the request: until then a second crash starts the service again.
  `disturbed` remembers that something was lost, early or overwritten.
- `CoreDump`: `mmgr_handle` is split at every call after which a stop leaves a different state.
  The callbacks write to the pipe only once it exists, which is after the subscription.  Paths of cores
  are shorter than the 512 bytes of `MMGRMAXEXTRA`: the callback drops a longer one
  (mmgr_source.c:171) and that is not modelled.
- `Boot`: a trace is a record of its place and its kind.  Most checks raise an event and then remove
  what they found, so each is two steps with a possible stop in between.  Left out: the files copied
  with an event, `IPANIC_CORRUPTED`, the events that only upload logs, and the quit of `main` when
  the ramconsole OS runs without its flag.  `early` marks the boot of a locked device: its first
  start sets the token without a look at the traces.  A reason of a FDK platform carries a suffix
  (`HWWDT_RESET_x`), and `_FAKE` behind it is not the prefix `set_ipanic_crashtype_and_reason`
  compares, as in the code.
- `Amtl`: a command is two steps, the write after the check of the status and the read of whatever
  answer comes first, because the main thread and the task share the tty.  `spoiled` marks a
  configuration that did so, or was cut short by the end of the process: what it leaves is not promised
  by the code, and the properties except it until the next one.  A read of a tty that was closed fails,
  with the exception the task catches, or finds no tty and ends the process.  The modem is taken to keep
  the settings it accepted, and a destroyed activity to take its process with it (the manifest excludes
  re-creation on rotation).  The second tab asks the modem too; its check is left out, as it only
  changes its own screen.  `log_active` is stored but read by nothing; `StopIsTrue` says what it means
  when it is false.
- `Inotify`: the kernel may or may not mark the event of a removed directory with `IN_ISDIR`, on
  which `receive_inotify_events` relies; both happen in the run, and a directory given up for want
  of the mark sets `lossy`, as any lost event does.  A configuration's own directory, or a directory
  moved twice, ends in a NULL row and the death of the daemon (`HandleSelfUnknown`).  A directory
  created where a row and a configuration share the watch is processed twice (`HandleCreated`), and
  a configuration does not follow a directory that is made again: what the code does, without a
  property.  The mask of `inotify_add_watch` is kept as far as `IN_CREATE`.

- `Backtrace`: `/proc` is read in the order of the numbers.  A line of output carries the task it is
  about, which the program only shows by the place of the line; the stack of each task and the
  order in which `qsort` leaves symbols of equal address are chosen at the start.  `MaxStack` and
  `StackDepth` are constants of the code, made small.  A table is asked for only of files of the
  width the parser reads; what the 32-bit parser reads out of a 64-bit file is taken for no table.
  Stacks of a hanging application are written by `read_process_info` while tasks go on to end; a
  task that ends between `open` and `read` leaves a stack without lines, and the search for the
  word `userspace` then runs into the next process.  `Clear` names the processes to which that does not
  happen: the last stack before them in the trace has a user part.  A kernel thread, which has none,
  therefore spoils the process that comes right after it and no other.
- `Backtrace`: `StackAll` has room for `TaskNum` tasks (`TASK_NUM`, 500, made small).  Once it is full
  `read_single_stack` fails, and the tasks that follow are left out.  The code then writes the index
  of the entry behind the last one (backtrace.c:388) and reads its number (`index <= g_index`, line
  433), one place past the end of the array; the model takes that memory for one that nobody uses and
  that holds no task.
- `History` also defines what its readers see as a log (`Log`), which the refinement of `HistoryLog`
  maps `log` to: the last `MAX_RECORDS` event lines of the file.
- `Symbols`: `bsearch` is that of the C library, step by step, because which of several overlapping
  symbols it finds depends on it.  `qcompar` returns the difference of two unsigned addresses; it is
  taken for their order, which it is for symbols less than 2^31 apart.
- `Config`: a line is what the trim leaves, in pieces of `MAXLEN - 3` characters; the trim of an empty
  line reads the byte before the buffer, which changes nothing that is kept.  A configuration without
  `path_trigger` has what `malloc` left there for a path, empty or not, and a watch to match.  The
  events are directories and plain files that appear in a watched directory.  A plain file is for the
  rows of `wd_array`, or stray: no configuration reports it. A directory in the modem's own directory
  (`ModemDir`) may be taken by its row first, which asks for a configuration by name whatever its watch
  (inotify_handler.c:468, modem.c:224), and is then given to the configurations of its watch
  (`Tellers`).  So another directory's configuration may report it, and its own may report it twice;
  `EventOfOwn` says that both happen there only, and that a directory is lost to its configuration only
  when one of another directory comes before in the file and has a pattern of the name.

## 3. Runs

| run | shows | bounds |
|---|---|---|
| `history` | with every failure, edit, restart and update: the rewrite is safe, the file is in order, the cleaner spares listed folders; until the first of them `History` implements `HistoryLog` | 2 slots, 5 events: the buffer fills and goes twice round; folders symmetric |
| `history_sync` | *violation*: history.c:23 claims the buffer is synchronized on the file; a CMDDELETE or an update changes the file alone | same |
| `logdirs` | files of recent events are where they were recorded, alone but for late writers whose own folder came round | 2 folders per kind, 3 events, so that numbers come round; threads and the service as late as they like; 1 fault of any sort |
| `logdirs_created` | *violation*: trigger.c:66 says each created folder gets its logs; the triggers build the path from the storage read before the call | same |
| `dropbox` | one announcement per key, for the right folder, eventually | 5 crashes over a ring of 2: fill, overwrite, go round; 2 faults |
| `coredump` | at most one report per dump, the last one not forgotten, no core lost, the end of a dump answered | 3 dumps, 3 stops: missed, superseded and aborted dumps |
| `boot` | each boot is recorded wherever the daemon stops, no trace is removed unreported, nothing is repeated once the token is set, deaths are told, and a watchdog reset has exactly one explanation: a watchdog event of the right name, or a fake | 2 boots, 4 modes, 9 traces one at a time, 2 stops, 1 fault; and undisturbed starts with all panics and fabric errors, up to 4 at once, and 9 classes of reasons (`MCSpec` bounds what may disturb a start to those with one trace) |
| `inotify` | each file is reported once and by the handler of its directory, directories stay watched, nothing the kernel told of stays unanswered | 2 directories, 3 rows, 1 configuration, 4 steps of files, renames and directories, 1 fault, a queue of 4 |
| `amtl` | the stored index names the output and the traces of the modem and the mode of mts, a stop is a stop, the modem is acquired once, the task ends | 3 outputs and an expert configuration; 2 inputs, each a configuration applied or something that comes between (the restarts a configuration asks for are not counted); 1 event or broadcast in flight |
| `config` | the settings are those of GENERAL, each configuration is made of its own section, a directory is reported by a configuration of the directory it appears in, in the modem's by any and then by its own | files of up to 3 of 8 blocks in any order: two GENERAL, two with one label, incomplete ones, a pair before any section; 1 event, of a file or a directory, in the modem's directory or another |
| `backtrace` | an address is looked up in the maps of its own process and its name contains it, each task that was asked for and stays is reported once and in full unless `StackAll` is full, nobody else is, the tools end | 4 processes, one of them a kernel thread, and 2 threads, of which 2 tasks may end; 3 entries in `StackAll`, so that processes and threads are left out; libraries, programs, a 64-bit and a foreign file; stacks up to the limit |
| `backtrace_symbol` | *violation*: symbols.c:300 says the symbol of this frame is determined; a frame without a table keeps the one before | same |
A second slot, ring place or folder number is where wrap-around differs from the plain case, and one
event beyond the full structure is where the oldest has to go; the bounds are chosen so that both happen
at least twice.  `MaxEvents`, `MaxCrashes`, `MaxQueue`, `MaxDumps`, `MaxPipe`, `MaxFiles`, `MaxRenames`,
`MaxMoves`, `MaxSteps`, `MaxTraces`, `MaxLater`, `MaxBoots`, `MaxStops`, `MaxInputs`, `MaxLag`,
`MaxExits`, `MaxBlocks` and `MaxFaults` are bounds of the models only: the code has none of them, and
each stands in a guard of the environment, never of a handler (in `Inotify`, `MaxQueue` is the limit the
kernel has; in `Amtl`, `MaxLag` also delays `OnModemEvent` until the main thread has received the
broadcast before).  Two inputs of `Amtl` are enough for a second configuration that fails in the restart
of the first, and for a rollback that fails as well, because a modem that is down fails every later
command.  Deadlock is not checked where such a bound ends every behaviour.

### Fairness

Only where liveness is claimed.  `Dropbox` and `CoreDump` assume that the daemon's loop handles what it
has read while it lives (`WF` of `Handle`: `do_monitor` is an endless select loop in which each source
is served whenever it is ready, and no handler waits for another event). `Dropbox` also assumes that
init reports a service it started and that the script, a straight line of commands, ends.  `Boot`
assumes that init starts the daemon and that its start, a straight line of calls, goes on while the
daemon lives (`WF` of `Step`).  `Inotify` assumes of the same select loop that it reads what is there
and handles all it read (`WF` of `Handle`).  `Amtl` assumes that the thread of `ApplyConfTask` and the
main thread run (`WF` of `DoInBackground` and `MainThread`): each is a straight line of calls or the
looper's loop; the modem, mmgr and the user owe nothing.  `Backtrace` assumes that the tools, loops over
what they read, run (`WF` of `Step`); tasks end or not.  Nothing forces a crash, a boot, a restart or a
fault; the liveness properties name the losses that excuse an answer.

## 4. Proofs

The eight modules `HistoryProofs`, `BootProofs`, `CoreDumpProofs`, `DropboxProofs`, `LogDirsProofs`,
`ConfigProofs`, `InotifyProofs` and `ToolsProofs` prove the theorems below for every value of the
constants, from the assumptions named in the modules they are about: bounds are naturals, `None`,
`Null`, `NoFolder` and `NoDir` are no members of the sets they stand beside, `gmaxfiles` and
`MAX_RECORDS` are positive, a catalogue maps its indexes to outputs, the rows of `wd_array` and the
configurations name watched paths, of which there are finitely many; no two processes share a thread,
and a line of the maps, an address and a symbol are made of naturals.  Every invariant that a run checks
is the subject of a theorem, `ImplementsLog` and the properties of single steps included.  No theorem
assumes anything of what the environment does.

In each module an inductive invariant `Inv` is made of named parts.  One lemma per part, or per
operator of the model, has a step for each action that can disturb it; the temporal theorem follows
from `Init => Inv`, `Inv /\ [Next]_vars => Inv'` and the implication.

| module | theorems | the property each states |
|---|---|---|
| `HistoryProofs` | `TypeCorrect`, `RewriteIsSafe`, `FileIsChronological`, `CleaningKeepsListed`, `HistoryIsALog` | `TypeOK`, `RewriteSafe`, `Chronological`, `CleanKeepsListed`, `ImplementsLog` |
| `BootProofs` | `TypeCorrect`, `TokenIsLast`, `EachRaisedOnce`, `DeathsTold`, `ResetExplained`, `RemovedIsReported` | `TypeOK`, `TokenAfterReboot`, `RaisedOnce`, `DeathReported`, `WatchdogExplained`, `TracesReported` |
| `CoreDumpProofs` | `TypeCorrect`, `OneReport`, `LastKept`, `CoresAreKept` | `TypeOK`, `ReportedOnce`, `LastNotForgotten`, `CoreKept` |
| `DropboxProofs` | `TypeCorrect`, `KeySentOnce`, `RightKey` | `TypeOK`, `SentOnce`, `KeyMatchesFolder` |
| `LogDirsProofs` | `TypeCorrect`, `RecentKept`, `NothingElse` | `TypeOK`, `KeepsRecent`, `OwnFilesOnly` |
| `ConfigProofs` | `SettingsTrue`, `ConfigsTrue`, `OwnEvents` | `SettingsAsWritten`, `ConfigsAsWritten`, `EventOfOwn` |
| `InotifyProofs` | `TypeCorrect`, `OneReport`, `NoRowLeft` | `TypeOK`, `ReportedOnce`, `DirsFollowed` |
| `ToolsProofs`, of `Amtl` | `TypeCorrect`, `StoredIsApplied`, `StoredHasMts`, `Stops` | `TypeOK`, `IndexIsApplied`, `MtsIsSet`, `StopIsTrue` |
| `ToolsProofs`, of `Backtrace` | `MapsAreOwn`, `NamesContain`, `AllAreReported` | `OwnMaps`, `NameContains`, `AllReported` |

### `HistoryProofs`

The invariant says of the `Hist` record (`Good`) that the file has its events in order and nothing
but events after its second line (`FileOK`), and of the buffer that, going round it from
`nextline`, the empty slots come first and the used ones follow in the order of their events
(`RingOK`).  The first part of `RingOK` gives `RewriteSafe`: if the slot at `nextline` is used, no
slot is empty.  The second part is needed for `Chronological`, because the full rewrite turns the
order of the buffer into the order of the file, and because a file read back must give such a
buffer again.  There is one lemma per operator (`CacheHistoryFileGood`, `PutGood`,
`RewrittenGood`, `FailedUpdatesGood`...): it takes a good record to a good record, and `InvStep`
puts them together action by action.

`IInv` adds two parts.  `InStep`: until something parts them, the buffer is the end of the file,
slot by slot (`Mirrors`).  It makes every step a step of `HistoryLog`, the full rewrite, the reload
after a restart and the removal of the file included, so `HistoryIsALog` holds of the whole `Spec`.
`Covered` survives the edits of the file, which part the two: the buffer still has the folder of
each crash among the last lines (`Covers`), which is what the cleaning looks at.

### `BootProofs`

Only `TypeOK` is near to inductive.  `Shown` says that `REBOOT` is raised in the phases after
`reboot`, and so before the token; `Fresh`, which types of event a daemon that was not interrupted
can have raised when it comes to a phase, so that the next check raises a type that is not among
them, and that a non-empty token keeps a later start from the checks; `Counted`, that the token is
one more than the `CRASHLOG_DEAD` events and at most as long as the starts, each after a death.
`Untouched` says that an undisturbed start has before it the traces the last boot left until the
steps that clear them; `Verdict`, what the fabric and panic checks made of the startup reason and
of the name of the watchdog out of those traces; `OneName`, that no watchdog event, or the one of
that name, was raised.  Together they explain a reset at every start, not only of the first boot.
`Told` says that the event is raised when a check comes to the step that removes its trace.

### `CoreDumpProofs`

The messages about the dumps are ranked: `START_CD` of a dump before its `MPANIC`, and both before
those of the next dump.  The job and the pipe keep that order, and what can still bring a report, a
message, `MCD_PROCESSING`, the abort in hand or the dump that runs, is about a later dump than every
report (`Order`).  So neither a restart that finds the file nor a second message repeats one.
`CoresOK` says which cores are left, and `LifeOK` in which phases there is a pipe and a job.

### `DropboxProofs`

`SentOnce` rests on keys that are new (`Fresh`) and leave the ring when they are sent (`RingOK`);
it holds whatever is lost or overwritten.  `KeyMatchesFolder` rests on `Matched`: as long as nothing
was disturbed, the closed files still to come, those in the queue and behind them the last file of
the service, are as many as the keys in the ring and come in the order of the keys from
`index_cons` on.

### `LogDirsProofs`

The folder of an event that is *a* folders old has the number that comes *a* + 1 before the next one,
modulo `gmaxfiles` (`Numbers`).  So the number a call recycles is not that of a recent event, wherever
the folders are and whether or not the call succeeds.  `Writing` says that a thread or a service that
still writes has the folder its event was recorded in, which is why it can only reach the event that
has this folder now; `Newest`, that no two recent events have one folder.

### `ConfigProofs`

While the file is read there is a growing function from the sections of the list to the heads of the
lines read, and each section gives the values that the lines behind its head give (`Parse`, `Reading`).
The sections a look-up finds are therefore lines of the file wherever the cursor was: the settings
looked for so far are as written (`Setting`), and as many configurations were made as the file has
before the section the cursor is on, the c-th out of the c-th (`Taken`, `Storing`). `Watches` and
`Answers` say that the watches are those of one round of calls, so that two configurations of a path
have the same or none, and that every report is what the row and `generic_match_by_wd` make of a watched
directory.  The first element that the code finds in a list is a `CHOOSE` of a least number: that there
is one follows from the well-foundedness of `<`.

### `InotifyProofs`

What is in the buffer of the daemon and behind it in the queue of the kernel is one sequence
(`Stream`): `read` only moves the border, and handling takes its head.  Two facts about it are behind
`ReportedOnce`, as long as nothing was lost (`Order`): a file's `IN_CLOSE_WRITE` is in it once and
only before its report (`ClosedOnce`, `NotYet`, `Single`); and an `IN_MOVED_TO` comes right behind
the `IN_MOVED_FROM` with its cookie (`Paired`), so that when it is the head, the daemon remembers
that cookie or no row takes the file (`Expected`), and it is not reported as a new one.

That the row is that of the file's own directory holds whatever is lost (`OwnRows`).  It needs a
history that no variable keeps, so the invariant says that one exists (`HomeOK`): there are a function
from the directories that were ever made to their paths, and one from the descriptors to the paths they
were added for, which agree with the tree, the watches, the rows and the events under way
(`HomeOf`).  A step extends the functions and never changes them: a directory that is moved away and
back keeps its path, and a descriptor is not used again.

`DirsFollowed` is inductive with the help of `DirsOK` (a directory has at most one watch, directories
that are made have new numbers) and of the bound of `CountOK` on how many there can be, which is what
`TypeOK` needs: `HandleSelf` makes a directory only where one was removed or moved away.

### `ToolsProofs`: amtl

As long as nobody shared the tty (`~spoiled`), what can be read is the answer to what was asked last
(`Answered`); so a step behind the task has had its effect on the modem and on mts (`Applied`), the
answers to the main thread are not older than what the modem has (`Checked`), which keeps `updateUi`
from stopping an mts that is needed, and a task that takes the logs down has no index (`Stopping`,
`Forgotten`).  `Waiting` says who may read, `Holding` that `acquireModem` and `releaseModem` take
turns.

### `ToolsProofs`: backtrace

*The search.*  `Bsearch` is a recursive function, on a table, an address and a part of the table.
That it satisfies its definition follows from the well-foundedness of `<` on the length of the part:
there is one function that searches parts of any length (`AllSearches`), since any two agree where
both are defined (`OneSearch`), and it is what the `CHOOSE` behind a recursive function takes
(`SearchIs`).  Then two arguments by the least length that would be a counterexample: what is found
contains the address, whatever the table (`SearchFinds`); and in a sorted table whose symbols do not
overlap a symbol that contains the address is never in the half that is dropped (`SearchMisses`).

*The maps.*  `StackInv` says which maps the tool holds.  Live, an entry of `StackAll` that is a thread
comes behind one of the same process, so that the maps kept for it are its own: they can be those of
an earlier process only if its own process is gone, and then it is passed over (`LiveOK`).  In a
trace, each line is followed by one that may follow it (`Trace`, `Follows`, `Piece`) and the tool
reads between `PID START` and `PID END` with what that process mapped (`ReadOK`), unless a stack
ran into the process from the one before (`Clear`).  So a frame that is printed is right (`OutOK`).

*The report.*  `ReportInv` adds six parts.  Live: `StackAll` has each task that was passed and still
lives, once, or is full (`EntriesOK`), and the output has the entries before `index` once and in full,
and nothing of those behind it (`ShownOK`).  One process: `AnrOK`.  A trace: each task that was passed
has its lines in one block of the file, at a place nobody else writes to (`FileOK`); and at every line
that is read, what the output and the addresses that wait show of a block is exactly its lines up to
there (`ReadUp`, `TraceOK`), also when the search for a user part runs into it from a stack before.
When the file ends nothing waits (`WaitOK`).  The limit of a stack is the reason for the two conditions
on lengths: with a stack beyond it somewhere, the end of another one can be written in its place.

### What is only model-checked

- Liveness, because fairness and `ENABLED` are out of the prover's reach: every property of the runs
  that says something happens at last.
- The three expected violations are counterexamples of small instances and need no proof.

## 5. Findings

- `history_sync`: the comment at history.c:23 does not hold after a deletion or an update of the
  software; the next full rewrite brings back the lines that were edited or cut.
- `logdirs_created`: `process_log_event` and the kernel event handler read `APLOGS_DIR`, `BZ_DIR`,
  `STATS_DIR` before `find_new_crashlog_dir` sets them; after a change of storage their files miss
  the folder that was created, or land in one that belongs to another event.
- `backtrace_symbol`: the loops that print a stack keep `sym` from one address to the next, so an address
  in no mapping, or in a file without symbols, gets the name of the address before it.
- `backtrace`: parse_stack.c:50 announces "parse all stack" for `-a`, but `read_all_stack` leaves out each
  process whose number starts with 9 (backtrace.c:384), and `read_single_stack` the tasks beyond the
  `TASK_NUM` entries of `StackAll` (line 277), both without a word.  `AllReported` says that the tool
  prints nothing of the first, and that it is only for want of an entry that it leaves out another.

## 6. Not modelled, and the plan

| next | module | question |
|---|---|---|
| 1 | `Boot` | the reset after an update of a daemon that stops at once (main.c:212: the build is stored first) |
| 2 | `Uptime`, `Iptrak` | hours arithmetic, version files |

Not planned: the formatting of files, damaged ELF files, the scripts, the configuration of the build,
the rest of the user interface of amtl: sequential work on
data, without a state that several steps share.  The tests and stubs are used as a reference.
