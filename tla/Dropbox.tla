------------------------------ MODULE Dropbox ------------------------------
(***************************************************************************)
(* crashlog/dropbox.c: after a java crash, an ANR or a tombstone crashlogd *)
(* starts the logsystemstate service, which takes half a minute to write   *)
(* its files into the folder of the crash.  The daemon watches the folder, *)
(* keeps the key of the event in a ring of two, and when the last file,    *)
(* dropbox-<date>.txt, is closed it tells CrashReport that the logs of     *)
(* that event are complete.                                                *)
(*                                                                         *)
(* The ring holds keys and not folders: the folder a file was closed in    *)
(* plays no part in the choice of the key.  Crashes are numbered; a number *)
(* stands for the folder and for the key of its event.                     *)
(***************************************************************************)
EXTENDS Integers, Sequences, FiniteSets

CONSTANTS
  None,        \* an empty place of the ring
  MaxCrashes,  \* bound of the model: crashes
  MaxQueue,    \* bound of the model: events waiting in the inotify descriptor
  MaxFaults    \* bound of the model: faults

Crashes == 1 .. MaxCrashes
Size    == 2
Places  == 0 .. Size - 1

ASSUME BoundsAssumption ==
  MaxCrashes \in Nat /\ MaxQueue \in Nat /\ MaxFaults \in Nat
ASSUME NoneAssumption == None \notin Nat

Event(type, e) == [type |-> type, crash |-> e]

VARIABLES
  keys, prod, cons,  \* gcurrent_key, index_prod, index_cons
  watched,           \* folders with a watch
  queue,             \* inotify events not handled yet
  service,           \* the folder logsystemstate works in; None when it is stopped
  shown,             \* init has set PROP_LOGSYSTEMSTATE to running
  written,           \* the service has closed its last file
  booted,            \* the boot is complete (PROP_BOOT_STATUS)
  crashes,           \* crashes so far
  sent,              \* broadcasts: the folder of the file and the key sent
  pending,           \* (observer) folders whose key was put in the ring, not yet closed
  forgotten,         \* (observer) the folders pending when the daemon started again
  disturbed,         \* (observer) something was lost or overwritten, see below
  faults             \* faults so far

ring == <<keys, prod, cons>>
srv  == <<service, shown, written>>
vars == <<ring, watched, queue, srv, booted, crashes, sent,
          pending, forgotten, disturbed, faults>>

Fault == faults < MaxFaults /\ faults' = faults + 1
-----------------------------------------------------------------------------
(* The ring.                                                               *)

\* NextPlace that does not go round.
NextPlaceUnbounded(i) == i + 1

NextPlace(i) == (i + 1) % Size

\* start_dumpstate_srv: the key goes to index_prod, whatever is there.
PutKey(e) ==
  /\ keys' = [keys EXCEPT ![prod] = e]
  /\ prod' = NextPlace(prod)
  /\ UNCHANGED cons

\* TakeKey that leaves the key in its place, that stays at its place, and that reads the
\* place of the producer.
TakeKeyKept(e) ==
  IF keys[cons] # None /\ booted
  THEN /\ sent' = sent \cup {[folder |-> e, key |-> keys[cons]]}
       /\ cons' = NextPlace(cons)
       /\ UNCHANGED <<keys, prod>>
  ELSE UNCHANGED <<sent, ring>>
TakeKeyInPlace(e) ==
  IF keys[cons] # None /\ booted
  THEN /\ sent' = sent \cup {[folder |-> e, key |-> keys[cons]]}
       /\ keys' = [keys EXCEPT ![cons] = None]
       /\ UNCHANGED <<cons, prod>>
  ELSE UNCHANGED <<sent, ring>>
TakeLastKey(e) ==
  LET last == (prod + 1) % Size
  IN  IF keys[last] # None /\ booted
      THEN /\ sent' = sent \cup {[folder |-> e, key |-> keys[last]]}
           /\ keys' = [keys EXCEPT ![last] = None]
           /\ cons' = NextPlace(cons)
           /\ UNCHANGED prod
      ELSE UNCHANGED <<sent, ring>>

\* finalize_dropbox_pending_event for a file closed in folder e: nothing when there is no
\* key at index_cons or the boot is not complete.
TakeKey(e) ==
  IF keys[cons] # None /\ booted
  THEN /\ sent' = sent \cup {[folder |-> e, key |-> keys[cons]]}
       /\ keys' = [keys EXCEPT ![cons] = None]
       /\ cons' = NextPlace(cons)
       /\ UNCHANGED prod
  ELSE UNCHANGED <<sent, ring>>
-----------------------------------------------------------------------------
(* The daemon handles the first event of the queue.                        *)

Head1(type) == queue # << >> /\ queue[1].type = type

\* start_dumpstate_srv: PROP_LOGSYSTEMSTATE tells that the service runs.
Busy == service # None /\ shown

\* A crash: the event is raised and its key handed to start_dumpstate_srv, which does
\* nothing while the service runs.  When init has started it but not told so yet, the
\* start is a second one: the service works once, in the old folder or in the new one.
HandleCrash ==
  /\ Head1("crash")
  /\ queue' = Tail(queue)
  /\ LET e == queue[1].crash
     IN  IF Busy
         THEN UNCHANGED <<ring, watched, srv, pending, disturbed>>
         ELSE /\ service' \in (IF service = None THEN {e} ELSE {service, e})
              /\ UNCHANGED <<shown, written>>
              /\ watched' = watched \cup {e}
              /\ PutKey(e)
              /\ pending' = pending \cup {e}
              /\ disturbed' = (disturbed \/ keys[prod] # None \/ service # None)
  /\ UNCHANGED <<booted, crashes, sent, faults, forgotten>>

\* The same with an event that was dropped (no key: the service is not started), or a
\* watch that cannot be added (the service runs, its key is not kept).
HandleCrashFails ==
  /\ Head1("crash") /\ service = None /\ Fault
  /\ queue' = Tail(queue)
  /\ service' \in {None, queue[1].crash}
  /\ UNCHANGED <<shown, written, ring, watched, booted, crashes, sent, pending, disturbed,
                 forgotten>>

\* receive_inotify_events: a file dropbox-* was closed.
HandleClosed ==
  /\ Head1("closed")
  /\ queue' = Tail(queue)
  /\ LET e == queue[1].crash
     IN  /\ watched' = watched \ {e}
         /\ TakeKey(e)
         /\ pending' = pending \ {e}
         /\ disturbed' = (disturbed \/ ~booted)
  /\ UNCHANGED <<srv, booted, crashes, faults, forgotten>>

\* A callback fails: the rest of the events read with it are lost.
HandleFails ==
  /\ Head1("crash") /\ Fault
  /\ \E n \in 1 .. Len(queue) :
       /\ queue' = SubSeq(queue, n + 1, Len(queue))
       /\ disturbed' = (disturbed \/ \E i \in 1 .. n : queue[i].type = "closed")
  /\ UNCHANGED <<ring, watched, srv, booted, crashes, sent, pending, forgotten>>

Handle == HandleCrash \/ HandleClosed
-----------------------------------------------------------------------------
(* Surroundings.                                                           *)

\* A crash file appears.
Crash ==
  /\ crashes < MaxCrashes /\ Len(queue) < MaxQueue
  /\ crashes' = crashes + 1
  /\ queue' = Append(queue, Event("crash", crashes + 1))
  /\ UNCHANGED <<ring, watched, srv, booted, sent, pending, disturbed, faults, forgotten>>

\* init tells that the service runs; then logsystemstate closes dropbox-<date>.txt, and
\* ends.
ServiceShown ==
  /\ service # None /\ ~shown
  /\ shown' = TRUE
  /\ UNCHANGED <<ring, watched, queue, service, written, booted, crashes, sent, pending,
                 disturbed, faults, forgotten>>

ServiceWrites ==
  /\ Busy /\ ~written
  /\ written' = TRUE
  /\ queue' = IF service \in watched THEN Append(queue, Event("closed", service)) ELSE queue
  /\ UNCHANGED <<ring, watched, service, shown, booted, crashes, sent, pending, disturbed,
                 faults, forgotten>>

ServiceEnds ==
  /\ Busy /\ written
  /\ service' = None /\ shown' = FALSE /\ written' = FALSE
  /\ UNCHANGED <<ring, watched, queue, booted, crashes, sent, pending, disturbed, faults, forgotten>>

\* It ends without its last file: killed, the partition is full, or the build is a user
\* build, where the script does nothing.
ServiceDies ==
  /\ Busy /\ ~written /\ Fault
  /\ service' = None /\ shown' = FALSE
  /\ disturbed' = (disturbed \/ service \in watched)
  /\ UNCHANGED <<ring, watched, queue, written, booted, crashes, sent, pending, forgotten>>

BootCompletes ==
  /\ ~booted /\ booted' = TRUE
  /\ UNCHANGED <<ring, watched, queue, srv, crashes, sent, pending, disturbed, faults, forgotten>>

\* The daemon starts again: ring, watches and queue are new; the service goes on.
Respawn ==
  /\ Fault
  /\ keys' = [i \in Places |-> None] /\ prod' = 0 /\ cons' = 0
  /\ watched' = {} /\ queue' = << >> /\ pending' = {}
  /\ forgotten' = forgotten \cup pending
  /\ disturbed' = FALSE
  /\ UNCHANGED <<srv, booted, crashes, sent>>

Init ==
  /\ keys = [i \in Places |-> None] /\ prod = 0 /\ cons = 0
  /\ watched = {} /\ queue = << >> /\ service = None /\ shown = FALSE
  /\ written = FALSE /\ booted \in BOOLEAN /\ crashes = 0 /\ sent = {} /\ pending = {}
  /\ forgotten = {}
  /\ disturbed = FALSE /\ faults = 0

Next ==
  \/ HandleCrash \/ HandleCrashFails \/ HandleClosed \/ HandleFails
  \/ Crash \/ ServiceShown \/ ServiceWrites \/ ServiceEnds \/ ServiceDies
  \/ BootCompletes \/ Respawn

\* The daemon's loop handles what it reads; a service that was started is shown to run,
\* writes and ends.
Fairness ==
  /\ WF_vars(Handle) /\ WF_vars(ServiceShown)
  /\ WF_vars(ServiceWrites) /\ WF_vars(ServiceEnds)

Spec == Init /\ [][Next]_vars /\ Fairness
-----------------------------------------------------------------------------
(* Properties.                                                             *)

TypeOK ==
  /\ keys \in [Places -> Crashes \cup {None}]
  /\ prod \in Places /\ cons \in Places
  /\ watched \subseteq Crashes
  /\ queue \in Seq([type : {"crash", "closed"}, crash : Crashes])
  /\ service \in Crashes \cup {None}
  /\ shown \in BOOLEAN /\ written \in BOOLEAN /\ booted \in BOOLEAN
  /\ crashes \in 0 .. MaxCrashes
  /\ sent \subseteq [folder : Crashes, key : Crashes]
  /\ pending \subseteq Crashes /\ forgotten \subseteq Crashes
  /\ disturbed \in BOOLEAN /\ faults \in 0 .. MaxFaults

\* CrashReport is told of a key at most once, whatever was lost, overwritten or restarted.
SentOnce == \A b, c \in sent : b.key = c.key => b = c

\* As long as no closed file was lost or came before the end of the boot, no service died
\* without one or was started twice, and no key was overwritten, the key sent is that of the folder the file
\* was closed in.
KeyMatchesFolder ==
  [][\A b \in sent' \ sent : ~disturbed => b.key = b.folder]_vars

\* Every pending folder is answered, unless one of those things happens or the daemon
\* starts again.
Answered ==
  \A e \in Crashes :
    e \in pending ~> ((\E b \in sent : b.key = e) \/ disturbed \/ e \in forgotten)
=============================================================================
