------------------------------ MODULE History ------------------------------
(***************************************************************************)
(* crashlog/history.c: the event history of crashlogd.                     *)
(*                                                                         *)
(* /logs/history_event holds two header lines and then one line per event. *)
(* The daemon mirrors it in historycache, a circular buffer of MAX_RECORDS *)
(* slots whose next free or oldest slot is nextline (-1 until first use).  *)
(* An event goes to the buffer and is appended to the file while the       *)
(* buffer has room; once it is full each event rewrites the whole file.    *)
(*                                                                         *)
(* Every operation of history.c works on the same four pieces of state, so *)
(* each is an operator on one record, Hist, and the actions below name the *)
(* callers.  Each event line carries the number of the event in place of   *)
(* its hash key and date.                                                  *)
(***************************************************************************)
EXTENDS Integers, Sequences, FiniteSets

CONSTANTS
  MaxRecords,  \* MAX_RECORDS, privconfig.h
  MaxClean,    \* folders one clean_crashlog_in_sd call may remove
  Dirs,        \* crash folders on the SD card
  NoDir,       \* "this event has no folder"
  Null,        \* an empty slot of historycache
  MaxEvents    \* bound of the model: events ever raised

Kinds  == {"CRASH", "DELETE", "OTHER"}
Record == [id : 1..MaxEvents, kind : Kinds, dir : Dirs \cup {NoDir}]
Slots  == 0 .. MaxRecords - 1

ASSUME SizesAssumption ==
  MaxRecords \in Nat \ {0} /\ MaxClean \in Nat \ {0} /\ MaxEvents \in Nat
ASSUME NoDirAssumption == NoDir \notin Dirs

\* The lines that are no event: the CURRENTUPTIME line, the column titles, and
\* what is left of an event line whose start add_uptime_event overwrote.
Header(kind) == [id |-> 0, kind |-> kind, dir |-> NoDir]
First == Header("FIRST")
Title == Header("TITLE")
Torn  == Header("TORN")
Line  == Record \cup {First, Title, Torn}

ASSUME NullAssumption == Null \notin Line

VARIABLES
  exists,      \* HISTORY_FILE exists
  file,        \* its lines
  cache,       \* historycache
  nextline,    \* nextline
  raised,      \* events raised so far
  dirs,        \* crash folders present on the SD card
  abortclean,  \* gabortcleansd
  dropped,     \* an event was dropped since this process started (observer)
  disturbed    \* a failure or an edit has parted file and buffer (observer)

vars == <<exists, file, cache, nextline, raised, dirs, abortclean, dropped, disturbed>>

Hist == [there |-> exists, file |-> file, ring |-> cache, next |-> nextline]

Become(h) ==
  exists' = h.there /\ file' = h.file /\ cache' = h.ring /\ nextline' = h.next

Blank   == <<First, Title>>
NoCache == [s \in Slots |-> Null]
-----------------------------------------------------------------------------
(* The file read back into the buffer.                                     *)

\* cache_file(HISTORY_FILE, historycache, MAX_RECORDS, CACHE_TAIL, 2): the last
\* MAX_RECORDS lines after the second one, oldest first; it clears the buffer.
CacheFile(f) ==
  LET skip == IF Len(f) <= MaxRecords + 2 THEN 2 ELSE Len(f) - MaxRecords
  IN  [s \in Slots |-> IF skip + s + 1 <= Len(f) THEN f[skip + s + 1] ELSE Null]

\* CacheNext with the position forgotten.
CacheNextZero(f) == 0

\* nextline = res % MAX_RECORDS, res being the number of lines read.
CacheNext(f) == IF Len(f) < 2 \/ Len(f) >= MaxRecords + 2 THEN 0 ELSE Len(f) - 2

\* cache_history_file: creates a missing file with its two header lines.
CacheHistoryFile(h) ==
  LET f == IF h.there THEN h.file ELSE Blank
  IN  [there |-> TRUE, file |-> f, ring |-> CacheFile(f), next |-> CacheNext(f)]

\* Loaded without the reset for a missing file: the file alone is created again.
LoadedStale(h) ==
  IF h.next < 0 THEN CacheHistoryFile(h)
  ELSE IF h.there THEN h ELSE [h EXCEPT !.there = TRUE, !.file = Blank]

\* The prologue of update_history_file: a missing file resets the cache, a cache
\* never loaded is loaded.
Loaded(h) == IF ~h.there \/ h.next < 0 THEN CacheHistoryFile(h) ELSE h
-----------------------------------------------------------------------------
(* Recording an event.                                                     *)

\* Succ without going round.
SuccNoWrap(s) == s + 1

Succ(s) == (s + 1) % MaxRecords

\* The buffer with line r put at nextline.
Put(h, r) ==
  [h EXCEPT !.ring = [h.ring EXCEPT ![h.next] = r], !.next = Succ(h.next)]

\* Rewritten in the order of the slots.
RewrittenInSlotOrder(h) == Blank \o [s \in 1 .. MaxRecords |-> h.ring[s - 1]]

\* The whole file written from the buffer: from nextline to the end of the
\* buffer, then from 0 to nextline.
Rewritten(h) ==
  Blank \o [s \in 1 .. MaxRecords - h.next |-> h.ring[h.next + s - 1]]
        \o [s \in 1 .. h.next |-> h.ring[s - 1]]

\* update_history_file(r) when every system call succeeds.
UpdateFile(h, r) ==
  LET l == Loaded(h)
      p == Put(l, r)
  IN  IF l.ring[l.next] = Null
      THEN [p EXCEPT !.file = Append(@, r)]
      ELSE [p EXCEPT !.file = Rewritten(p)]

\* update_history_file(r) when a system call fails: where it can stop, and what it
\* leaves.  reset_history_cache has freed the buffer when the file cannot be
\* recreated; strdup fails with the slot already free; a write that fails, or a
\* daemon that dies during the rewrite, leaves a beginning of the new file.
FailedUpdates(h, r) ==
  LET l == Loaded(h)
      p == Put(l, r)
  IN  (IF h.there THEN {} ELSE {[h EXCEPT !.ring = IF h.next > 0 THEN NoCache ELSE @]})
      \cup {[l EXCEPT !.ring = [l.ring EXCEPT ![l.next] = Null]]}
      \cup {p}
      \cup (IF l.ring[l.next] = Null THEN {}
            ELSE {[p EXCEPT !.file = SubSeq(Rewritten(p), 1, n)] : n \in 0 .. MaxRecords + 1})
-----------------------------------------------------------------------------
(* The other operations.                                                   *)

\* uptime_history, at boot: turns the uptime on the first line into an event line
\* of the file.  The buffer is not loaded yet and will read it back.
UptimeHistory(h, r) ==
  IF h.there /\ h.file # << >> /\ h.file[1] = First
  THEN [h EXCEPT !.file = Append(@, r)] ELSE h

\* reset_uptime_history: the buffer is loaded from the old file, which is then
\* cut down to its two header lines.
ResetUptimeHistory(h) ==
  LET l == IF h.next < 0 THEN CacheHistoryFile(h) ELSE h
  IN  [l EXCEPT !.there = TRUE, !.file = Blank]

\* add_uptime_event writes the current uptime over the first line, in place.
WriteFirstLine(f) ==
  CASE f = << >>             -> <<First>>
    [] f # << >> /\ f[1] = First -> f
    [] OTHER                 -> <<First, Torn>> \o Tail(f)

\* HasEvent with a loop that stops one slot early.
HasEventButLast(ring, d) ==
  \E s \in Slots \ {MaxRecords - 1} : ring[s] # Null /\ ring[s].dir = d

\* history_has_event(d) for a folder name d, on a loaded buffer.
HasEvent(ring, d) == \E s \in Slots : ring[s] # Null /\ ring[s].dir = d

\* update_history_on_cmd_delete for a set of event numbers: the lines it changes.
Marked(f, ids) ==
  [i \in DOMAIN f |-> IF f[i].kind = "CRASH" /\ f[i].id \in ids
                      THEN [f[i] EXCEPT !.kind = "DELETE"] ELSE f[i]]
MarkedDirs(f, ids) ==
  {f[i].dir : i \in {j \in DOMAIN f : f[j].kind = "CRASH" /\ f[j].id \in ids}}
-----------------------------------------------------------------------------
(* Actions.                                                                *)

Init ==
  /\ exists = FALSE /\ file = << >> /\ cache = NoCache /\ nextline = -1
  /\ raised = 0 /\ dirs \in SUBSET Dirs /\ abortclean = FALSE
  /\ dropped = FALSE /\ disturbed = FALSE

\* The next event line of the given kind and folder.
NewLine(kind, d) == [id |-> raised + 1, kind |-> kind, dir |-> d]

CanRaise == raised < MaxEvents   \* bound of the model

\* priv_raise_event records an event; the folder of a crash was made just before.
RaiseEvent ==
  /\ CanRaise
  /\ \/ \E d \in Dirs : /\ Become(UpdateFile(Hist, NewLine("CRASH", d)))
                        /\ dirs' = dirs \cup {d}
     \/ /\ Become(UpdateFile(Hist, NewLine("OTHER", NoDir)))
        /\ UNCHANGED dirs
  /\ raised' = raised + 1
  /\ UNCHANGED <<abortclean, dropped, disturbed>>

\* The same, with a failing system call: the caller drops the event.
RaiseFails ==
  /\ CanRaise
  /\ \E d \in Dirs :
       /\ \E h \in FailedUpdates(Hist, NewLine("CRASH", d)) : Become(h)
       /\ dirs' = dirs \cup {d}
  /\ raised' = raised + 1
  /\ dropped' = TRUE /\ disturbed' = TRUE
  /\ UNCHANGED abortclean

\* add_uptime_event: cleans up to MaxClean folders the history does not know,
\* writes the first line, and, when due, records an UPTIME event.
AddUptimeEvent(due) ==
  /\ exists
  /\ due => CanRaise
  /\ LET scan == ~abortclean /\ dirs # {}
         h    == IF scan THEN Loaded(Hist) ELSE Hist
         w    == [h EXCEPT !.file = WriteFirstLine(@)]
         legacy == IF scan THEN {d \in dirs : ~HasEvent(h.ring, d)} ELSE {}
     IN  /\ \E gone \in SUBSET legacy :
              /\ gone = legacy \/ Cardinality(gone) = MaxClean
              /\ Cardinality(gone) <= MaxClean
              /\ dirs' = dirs \ gone
              /\ abortclean' = (abortclean \/ Cardinality(gone) < MaxClean)
         /\ Become(IF due THEN UpdateFile(w, NewLine("OTHER", NoDir)) ELSE w)
         /\ raised' = IF due THEN raised + 1 ELSE raised
  /\ UNCHANGED <<dropped, disturbed>>

\* update_history_on_cmd_delete: edits the file and removes the folders; the
\* buffer keeps its CRASH lines.
CmdDelete ==
  /\ exists
  /\ \E ids \in SUBSET (1 .. raised) :
       /\ file' = Marked(file, ids)
       /\ dirs' = dirs \ MarkedDirs(file, ids)
  /\ disturbed' = TRUE
  /\ UNCHANGED <<exists, cache, nextline, raised, abortclean, dropped>>

\* A new process: its buffer is empty.  early_check runs only on the first start
\* after a boot, and resets the history after a software update.
Fresh == [Hist EXCEPT !.ring = NoCache, !.next = -1]

Respawn ==
  /\ Become(Fresh)
  /\ abortclean' = FALSE /\ dropped' = FALSE
  /\ UNCHANGED <<raised, dirs, disturbed>>

Boot ==
  /\ CanRaise
  /\ Become(UptimeHistory(Fresh, NewLine("OTHER", NoDir)))
  /\ raised' = raised + 1
  /\ abortclean' = FALSE /\ dropped' = FALSE
  /\ UNCHANGED <<dirs, disturbed>>

BootAfterUpdate ==
  /\ Become(ResetUptimeHistory(Fresh))
  /\ abortclean' = FALSE /\ dropped' = FALSE /\ disturbed' = TRUE
  /\ UNCHANGED <<raised, dirs>>

\* Someone removes the history file while the daemon runs.
RemoveFile ==
  /\ exists
  /\ exists' = FALSE /\ file' = << >>
  /\ UNCHANGED <<cache, nextline, raised, dirs, abortclean, dropped, disturbed>>

\* del_hist.sh keeps the first line only.
DelHist ==
  /\ exists
  /\ file' = IF file = << >> THEN file ELSE <<file[1]>>
  /\ disturbed' = TRUE
  /\ UNCHANGED <<exists, cache, nextline, raised, dirs, abortclean, dropped>>

\* Events, uptime ticks, restarts and the file removed: all that the bounded log of
\* HistoryLog accounts for.
NextLog ==
  \/ RaiseEvent
  \/ \E due \in BOOLEAN : AddUptimeEvent(due)
  \/ Respawn
  \/ Boot
  \/ RemoveFile

\* With the operations that edit or cut the file behind the buffer.
NextMaintained == NextLog \/ CmdDelete \/ BootAfterUpdate

\* With failing system calls and the maintenance script.
Next == NextMaintained \/ RaiseFails \/ DelHist

SpecMaintained == Init /\ [][NextMaintained]_vars
Spec           == Init /\ [][Next]_vars
-----------------------------------------------------------------------------
(* Properties.                                                             *)

TypeOK ==
  /\ exists \in BOOLEAN
  /\ file \in Seq(Line) /\ (~exists => file = << >>)
  /\ cache \in [Slots -> Record \cup {Null}]
  /\ nextline \in {-1} \cup Slots
  /\ raised \in 0 .. MaxEvents
  /\ dirs \in SUBSET Dirs
  /\ abortclean \in BOOLEAN
  /\ dropped \in BOOLEAN /\ disturbed \in BOOLEAN

\* How far slot s is ahead of slot n, going round the buffer.
Offset(s, n) == IF s >= n THEN s - n ELSE s - n + MaxRecords

\* The full rewrite of update_history_file dereferences every slot of the buffer, and
\* it is taken as soon as the slot at nextline is in use: no slot may be empty then.
RewriteSafe ==
  nextline >= 0 /\ cache[nextline] # Null => \A s \in Slots : cache[s] # Null

\* Whatever fails, stops half-way, restarts or is removed, the events in the file
\* are in the order they were raised, none twice.
Chronological ==
  \A i, j \in DOMAIN file :
    i < j /\ file[i].id > 0 /\ file[j].id > 0 => file[i].id < file[j].id

\* The file starts with its two header lines.
HeaderIntact == Len(file) >= 2 /\ file[1] = First /\ file[2] = Title

\* The last MAX_RECORDS events of file f, after its two header lines.
LastLines(f) ==
  SubSeq(f, IF Len(f) <= MaxRecords + 2 THEN 3 ELSE Len(f) - MaxRecords + 1, Len(f))

\* The crash d has a folder that one of the last MAX_RECORDS lines of the file names.
Lists(f, d) ==
  \E i \in DOMAIN f :
    i > Len(f) - MaxRecords /\ f[i].kind = "CRASH" /\ f[i].dir = d

\* The cleaning of "legacy" folders done at each uptime event never removes the folder
\* of a crash that the history file still lists, provided its header lines are intact
\* and no event was dropped since the buffer was loaded.
CleanKeepsListed ==
  [][(\E due \in BOOLEAN : AddUptimeEvent(due)) /\ HeaderIntact /\ ~dropped
       => \A d \in dirs \ dirs' : ~Lists(file, d)]_vars

\* The buffer read from its oldest slot.
Oldest(h) ==
  IF h.ring[h.next] = Null
  THEN [s \in 1 .. h.next |-> h.ring[s - 1]]
  ELSE [s \in 1 .. MaxRecords |-> h.ring[(h.next + s - 1) % MaxRecords]]

\* The log its readers see, up to the first failure or edit.
Log == IF exists /\ ~disturbed THEN LastLines(file) ELSE << >>

HL == INSTANCE HistoryLog WITH log <- Log

\* "A circular buffer locally defined has its content synchronized on the history file
\* content" (history.c:23): once loaded, the buffer holds the last lines of the file.
Synchronized ==
  exists /\ nextline >= 0 => Oldest(Hist) = LastLines(file)

\* Until the first deletion, update of the software, failure or maintenance edit, and
\* whatever restarts or removes the file, the history file is a bounded log: what
\* HistoryLog specifies.  A buffer out of step with the file breaks it at the next
\* full rewrite.
ImplementsLog == HL!Spec
=============================================================================
