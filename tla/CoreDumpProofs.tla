--------------------------- MODULE CoreDumpProofs ---------------------------
(***************************************************************************)
(* Proofs about CoreDump, for every number of dumps, messages and stops.   *)
(*                                                                         *)
(* The argument is one of order.  The messages about the dumps are ranked, *)
(* START_CD of a dump before its MPANIC and both before those of the next  *)
(* dump; the job and the pipe keep that order (InOrder).  Whatever can     *)
(* still bring a report, a message, the file MCD_PROCESSING, the abort     *)
(* that is being reported or the dump that runs, is about a later dump     *)
(* than every report (Sent, MarkerOK, AbortOK, ReportsOK): so no dump is   *)
(* reported twice.                                                         *)
(***************************************************************************)
EXTENDS CoreDump, SequenceTheorems, TLAPS

Jobs == {StartCd(d) : d \in Dumps}
        \cup {Mpanic(d, ok, step) : d \in Dumps, ok \in BOOLEAN, step \in Steps}

Rank(m) == 2 * m.dump + (IF m.type = "MPANIC" THEN 1 ELSE 0)

\* Every report is about an earlier dump than d.
AfterReports(d) == \A i \in DOMAIN reports : reports[i].dump < d

\* A message that was sent: about a dump that started, not yet reported, behind the one whose
\* START_CD last made the file, and without a core in its place if there is none to take.
Sent(m) ==
  /\ m.dump <= dumps /\ AfterReports(m.dump)
  /\ running # None => Rank(m) <= 2 * running
  /\ announced # None => Rank(m) > 2 * announced
  /\ m.type = "MPANIC" /\ ~m.ok => m.dump \notin cores

LifeOK ==
  /\ phase \in {"subscribed", "loop"} => token
  /\ phase \in {"early", "abort"} => ~token
  /\ phase # "loop" => pipe = << >> /\ job = NoJob
  /\ phase = "abort" <=> aborting # None

InOrder ==
  /\ \A i, j \in DOMAIN pipe : i < j => Rank(pipe[i]) < Rank(pipe[j])
  /\ job # NoJob => \A i \in DOMAIN pipe : Rank(job) < Rank(pipe[i])

MessagesOK ==
  /\ \A i \in DOMAIN pipe : Sent(pipe[i])
  /\ job # NoJob => Sent(job)

\* The file is about a dump of an earlier boot when the daemon has not run in this one.
MarkerOK ==
  marker # None =>
    /\ marker <= dumps /\ AfterReports(marker)
    /\ ~token /\ running # None => marker < running
    /\ job.type = "MPANIC" => job.step = "read"

AbortOK ==
  aborting # None =>
    /\ aborting <= dumps /\ AfterReports(aborting) /\ marker = None
    /\ running # None => aborting < running

ReportsOK ==
  /\ \A i, j \in DOMAIN reports : i < j => reports[i].dump < reports[j].dump
  /\ \A i \in DOMAIN reports : reports[i].dump <= dumps
  /\ running # None => running = dumps /\ AfterReports(running)

\* Cores are left by dumps that ended; mmgr_handle removes the one it copied, or could not.
CoresOK ==
  /\ \A d \in cores : d <= dumps /\ d # running
  /\ At("remove") => job.dump \in saved \cup badcopies
  /\ At("raise") => job.dump \notin cores

Order ==
  /\ InOrder /\ MessagesOK /\ MarkerOK /\ AbortOK /\ ReportsOK
  /\ announced # None => announced <= dumps

Inv == TypeOK /\ LifeOK /\ Order /\ CoresOK /\ LastNotForgotten
-----------------------------------------------------------------------------
(* Sequences.                                                              *)

LEMMA AppendFacts ==
  ASSUME NEW S, NEW s \in Seq(S), NEW e \in S
  PROVE  /\ Append(s, e) \in Seq(S)
         /\ Len(Append(s, e)) = Len(s) + 1 /\ DOMAIN Append(s, e) = 1 .. Len(s) + 1
         /\ \A i \in DOMAIN s : Append(s, e)[i] = s[i]
         /\ Append(s, e)[Len(s) + 1] = e
  BY AppendProperties, LenProperties

LEMMA TailFacts ==
  ASSUME NEW S, NEW s \in Seq(S), s # << >>
  PROVE  /\ Len(s) > 0 /\ Head(s) = s[1] /\ s[1] \in S
         /\ Tail(s) \in Seq(S) /\ Len(Tail(s)) = Len(s) - 1 /\ DOMAIN Tail(s) = 1 .. Len(s) - 1
         /\ \A i \in DOMAIN Tail(s) : Tail(s)[i] = s[i + 1]
  BY HeadTailProperties, LenProperties, EmptySeq
-----------------------------------------------------------------------------
(* Messages and jobs.                                                      *)

LEMMA DumpsFacts == Dumps \subseteq Nat /\ None \notin Dumps /\ \A d \in Dumps : d <= MaxDumps /\ d > 0
  BY BoundsAssumption, NoneAssumption DEF Dumps

\* What is in the pipe, and what mmgr_handle works on.
LEMMA MessageFacts ==
  /\ \A d \in Dumps : StartCd(d) \in Messages
  /\ \A d \in Dumps, ok \in BOOLEAN : Mpanic(d, ok, "read") \in Messages
  /\ Messages \subseteq Jobs
  /\ NoJob \notin Jobs /\ NoJob.type = "none"
  <1>1. /\ \A d \in Dumps : StartCd(d) \in Messages /\ StartCd(d) \in Jobs
        /\ \A d \in Dumps, ok \in BOOLEAN : Mpanic(d, ok, "read") \in Messages
        /\ \A d \in Dumps, ok \in BOOLEAN, step \in Steps : Mpanic(d, ok, step) \in Jobs
    BY DEF Messages, Jobs
  <1>2. ASSUME NEW m \in Messages PROVE m \in Jobs
    <2>1. "read" \in Steps
      BY DEF Steps
    <2>2. (\E d \in Dumps : m = StartCd(d)) \/ (\E d \in Dumps, ok \in BOOLEAN : m = Mpanic(d, ok, "read"))
      BY DEF Messages
    <2>3. QED
      BY <1>1, <2>1, <2>2
  <1>3. NoJob.type = "none"
    BY DEF NoJob
  <1>4. ASSUME NEW m \in Jobs PROVE m # NoJob
    <2>1. m.type = "START_CD" \/ m.type = "MPANIC"
      BY DEF Jobs, StartCd, Mpanic
    <2>2. QED
      BY <1>3, <2>1
  <1>5. QED
    BY <1>1, <1>2, <1>3, <1>4

LEMMA JobFacts ==
  ASSUME NEW m \in Jobs
  PROVE  /\ m.dump \in Dumps
         /\ \/ m.type = "START_CD" /\ m = StartCd(m.dump)
            \/ /\ m.type = "MPANIC" /\ m.ok \in BOOLEAN /\ m.step \in Steps
               /\ m = Mpanic(m.dump, m.ok, m.step)
  BY DEF Jobs, StartCd, Mpanic

LEMMA RankFacts ==
  ASSUME NEW m \in Jobs
  PROVE  /\ Rank(m) \in Nat /\ m.dump \in Nat
         /\ Rank(m) = 2 * m.dump \/ Rank(m) = 2 * m.dump + 1
         /\ m.type = "MPANIC" => Rank(m) = 2 * m.dump + 1
         /\ m.type = "START_CD" => Rank(m) = 2 * m.dump
  <1>1. m.dump \in Nat /\ (m.type = "START_CD" \/ m.type = "MPANIC")
    BY JobFacts, DumpsFacts
  <1>2. CASE m.type = "MPANIC"
    BY <1>1, <1>2 DEF Rank
  <1>3. CASE m.type = "START_CD"
    <2>1. Rank(m) = 2 * m.dump + 0
      BY <1>3 DEF Rank
    <2>2. QED
      BY <1>1, <1>3, <2>1
  <1>4. QED
    BY <1>1, <1>2, <1>3

\* A step of mmgr_handle keeps the dump and whether it left a core.
LEMMA GoToFacts ==
  ASSUME job \in Jobs, job.type = "MPANIC", NEW step \in Steps, GoTo(step)
  PROVE  /\ job' = Mpanic(job.dump, job.ok, step)
         /\ job' \in Jobs /\ job' # NoJob
         /\ job'.type = "MPANIC" /\ job'.dump = job.dump /\ job'.ok = job.ok
         /\ job'.step = step
  BY JobFacts, MessageFacts DEF GoTo, Mpanic, Jobs

Entries == [kind : {"MPANIC", "CRASH", "ABORT"}, dump : Dumps]

\* The parts of the type invariant that the steps below use.
LEMMA TypeFacts ==
  ASSUME TypeOK
  PROVE  /\ job = NoJob \/ job \in Jobs
         /\ pipe \in Seq(Messages) /\ DOMAIN pipe = 1 .. Len(pipe) /\ Len(pipe) \in Nat
         /\ \A i \in DOMAIN pipe : pipe[i] \in Messages /\ pipe[i] \in Jobs
         /\ reports \in Seq(Entries)
         /\ DOMAIN reports = 1 .. Len(reports) /\ Len(reports) \in Nat
         /\ \A i \in DOMAIN reports : reports[i].dump \in Dumps
         /\ dumps \in Nat /\ (running # None => running \in Dumps)
         /\ (marker # None => marker \in Dumps) /\ (aborting # None => aborting \in Dumps)
         /\ (announced # None => announced \in Dumps)
  <1>1. job = NoJob \/ job \in Jobs
    BY DEF TypeOK, Jobs
  <1>2. pipe \in Seq(Messages) /\ reports \in Seq(Entries)
    BY DEF TypeOK, Entries
  <1>3. /\ DOMAIN pipe = 1 .. Len(pipe) /\ Len(pipe) \in Nat
        /\ \A i \in DOMAIN pipe : pipe[i] \in Messages
    BY <1>2, LenProperties, ElementOfSeq
  <1>4. /\ DOMAIN reports = 1 .. Len(reports) /\ Len(reports) \in Nat
        /\ \A i \in DOMAIN reports : reports[i] \in Entries
    BY <1>2, LenProperties, ElementOfSeq
  <1>5. \A i \in DOMAIN reports : reports[i].dump \in Dumps
    BY <1>4 DEF Entries
  <1>6. dumps \in Nat
    BY BoundsAssumption DEF TypeOK
  <1>7. Messages \subseteq Jobs
    BY MessageFacts
  <1>8. /\ running # None => running \in Dumps
        /\ marker # None => marker \in Dumps
        /\ aborting # None => aborting \in Dumps
        /\ announced # None => announced \in Dumps
    BY DEF TypeOK
  <1>9. QED
    BY <1>1, <1>2, <1>3, <1>4, <1>5, <1>6, <1>7, <1>8

\* The raising of an event about a dump.
LEMMA RaiseType ==
  ASSUME TypeOK, NEW d \in Dumps, NEW kind \in {"MPANIC", "CRASH", "ABORT"}, Raise(kind, d)
  PROVE  /\ reports' \in Seq(Entries) /\ lost' \subseteq Dumps
         /\ \/ /\ reports' = Append(reports, [kind |-> kind, dump |-> d]) /\ lost' = lost
               /\ DOMAIN reports' = 1 .. Len(reports) + 1
               /\ \A i \in DOMAIN reports : reports'[i] = reports[i]
               /\ reports'[Len(reports) + 1].dump = d
               /\ reports'[Len(reports) + 1].kind = kind
            \/ reports' = reports /\ lost' = lost \cup {d}
  <1> DEFINE r == [kind |-> kind, dump |-> d]
  <1>1. r \in Entries /\ r.dump = d /\ r.kind = kind
    BY DEF Entries
  <1>2. reports \in Seq(Entries) /\ lost \subseteq Dumps
    BY TypeFacts DEF TypeOK
  <1>3. CASE reports' = Append(reports, r) /\ UNCHANGED lost
    <2> HIDE DEF r
    <2>1. QED
      BY <1>1, <1>2, <1>3, AppendFacts DEF r
  <1>4. CASE lost' = lost \cup {d} /\ UNCHANGED reports
    BY <1>2, <1>4
  <1>5. QED
    BY <1>3, <1>4 DEF Raise

LEMMA InitInv == Init => Inv
  <1> SUFFICES ASSUME Init PROVE Inv
    OBVIOUS
  <1>1. TypeOK
    <2>1. << >> \in Seq(Messages) /\ << >> \in Seq([kind : {"MPANIC", "CRASH", "ABORT"}, dump : Dumps])
      BY EmptySeq
    <2>2. 0 \in 0 .. MaxDumps /\ 0 \in 0 .. MaxStops
      BY BoundsAssumption
    <2>3. phase \in Phases /\ token \in BOOLEAN
      BY DEF Init, Phases
    <2>4. job = NoJob /\ marker = None /\ aborting = None /\ running = None /\ announced = None
      BY DEF Init
    <2>5. cores = {} /\ saved = {} /\ badcopies = {} /\ lost = {} /\ missed = {}
      BY DEF Init
    <2>6. pipe = << >> /\ reports = << >> /\ dumps = 0 /\ stops = 0
      BY DEF Init
    <2>7. QED
      BY <2>1, <2>2, <2>3, <2>4, <2>5, <2>6 DEF TypeOK
  <1>2. DOMAIN pipe = {} /\ DOMAIN reports = {}
    BY DEF Init
  <1>3. LifeOK /\ InOrder /\ MessagesOK /\ MarkerOK /\ AbortOK /\ ReportsOK
    BY <1>2 DEF Init, LifeOK, InOrder, MessagesOK, MarkerOK, AbortOK, ReportsOK
  <1>4. CoresOK /\ LastNotForgotten
    BY DEF Init, CoresOK, At, NoJob, LastNotForgotten
  <1>5. QED
    BY <1>1, <1>3, <1>4 DEF Inv, Init, Order

\* Type correctness: mmgr_handle only takes a core when there is one, and an abort is reported
\* only for a dump.
LEMMA TypeStep == ASSUME Inv, [Next]_vars PROVE TypeOK'
  <1> USE DEF vars, life, handling, modem, outcome
  <1>0. TypeOK /\ LifeOK
    BY DEF Inv
  <1>1. CASE DumpStarts
    <2>1. dumps + 1 \in Dumps /\ dumps + 1 \in 0 .. MaxDumps
      BY <1>0, <1>1, BoundsAssumption DEF DumpStarts, Dumps, TypeOK
    <2>2. pipe' \in Seq(Messages)
      BY <1>0, <1>1, <2>1, MessageFacts, AppendFacts DEF DumpStarts, Notify, TypeOK
    <2>3. QED
      BY <1>0, <1>1, <2>1, <2>2 DEF DumpStarts, TypeOK
  <1>2. CASE DumpEnds
    <2>1. running \in Dumps
      BY <1>0, <1>2 DEF DumpEnds, TypeOK
    <2>2. cores' \subseteq Dumps
      BY <1>0, <1>2, <2>1 DEF DumpEnds, TypeOK
    <2>3. pipe' \in Seq(Messages)
      BY <1>0, <1>2, <2>1, MessageFacts, AppendFacts DEF DumpEnds, Notify, TypeOK
    <2>4. QED
      BY <1>0, <1>2, <2>2, <2>3 DEF DumpEnds, TypeOK
  <1>3. CASE Read
    <2>1. pipe' \in Seq(Messages) /\ job' \in Messages
      BY <1>0, <1>3, TailFacts DEF Read, TypeOK
    <2>2. job' \in Jobs
      BY <2>1, MessageFacts
    <2>3. QED
      BY <1>0, <1>3, <2>1, <2>2 DEF Read, Jobs, TypeOK
  <1>4. CASE HandleStart
    <2>1. job.dump \in Dumps
      BY <1>0, <1>4, TypeFacts, JobFacts, MessageFacts DEF HandleStart, TypeOK
    <2>2. QED
      BY <1>0, <1>4, <2>1 DEF HandleStart, TypeOK
  <1>5. CASE RemoveMarker \/ FindFolder \/ CopyCore \/ RemoveCore \/ RaiseMpanic
    <2>1. job.type = "MPANIC" /\ job \in Jobs /\ job.dump \in Dumps
      BY <1>0, <1>5, TypeFacts, JobFacts, MessageFacts
      DEF RemoveMarker, FindFolder, CopyCore, RemoveCore, RaiseMpanic, At, TypeOK
    <2>2. job' = NoJob \/ job' \in Jobs
      BY <1>5, <2>1, GoToFacts DEF RemoveMarker, FindFolder, CopyCore, RemoveCore, RaiseMpanic, Steps
    <2>3. reports' \in Seq(Entries) /\ lost' \subseteq Dumps
      <3>1. reports \in Seq(Entries) /\ lost \subseteq Dumps
        BY <1>0, TypeFacts DEF TypeOK
      <3>2. CASE Raise("CRASH", job.dump) \/ Raise("MPANIC", job.dump)
        BY <1>0, <2>1, <3>2, RaiseType
      <3>3. CASE UNCHANGED <<reports, lost>>
        BY <3>1, <3>3
      <3>4. QED
        BY <1>5, <3>2, <3>3 DEF RemoveMarker, FindFolder, CopyCore, RemoveCore, RaiseMpanic
    <2>4. marker' \in Dumps \cup {None} /\ cores' \subseteq Dumps
      BY <1>0, <1>5 DEF RemoveMarker, FindFolder, CopyCore, RemoveCore, RaiseMpanic, TypeOK
    <2>5. saved' \subseteq Dumps /\ badcopies' \subseteq Dumps
      BY <1>0, <1>5, <2>1 DEF RemoveMarker, FindFolder, CopyCore, RemoveCore, RaiseMpanic, TypeOK
    <2>6. UNCHANGED <<phase, token, pipe, aborting, running, dumps, announced, missed, stops>>
      BY <1>5 DEF RemoveMarker, FindFolder, CopyCore, RemoveCore, RaiseMpanic
    <2>7. QED
      BY <1>0, <2>2, <2>3, <2>4, <2>5, <2>6 DEF Jobs, Entries, TypeOK
  <1>6. CASE Start
    BY <1>0, <1>6 DEF Start, Phases, TypeOK
  <1>7. ASSUME NEW updated \in BOOLEAN, EarlyCheck(updated) PROVE TypeOK'
    <2>1. cores' \subseteq Dumps
      BY <1>0, <1>7 DEF EarlyCheck, TypeOK
    <2>2. phase' \in Phases
      BY <1>7 DEF EarlyCheck, Phases
    <2>3. QED
      BY <1>0, <1>7, <2>1, <2>2 DEF EarlyCheck, TypeOK
  <1>8. CASE RaiseAbort
    <2>1. aborting \in Dumps
      BY <1>0, <1>8 DEF LifeOK, RaiseAbort, TypeOK
    <2>2. reports' \in Seq(Entries) /\ lost' \subseteq Dumps
      <3>1. Raise("ABORT", aborting)
        BY <1>8 DEF RaiseAbort
      <3>2. QED
        BY <1>0, <2>1, <3>1, RaiseType
    <2>3. QED
      BY <1>0, <1>8, <2>2 DEF RaiseAbort, Phases, Entries, TypeOK
  <1>9. CASE CheckDied
    BY <1>0, <1>9 DEF CheckDied, Phases, TypeOK
  <1>10. CASE CreatePipe
    BY <1>0, <1>10 DEF CreatePipe, Phases, TypeOK
  <1>11. CASE Dies \/ Reboot
    <2>1. Stopped
      BY <1>11 DEF Dies, Reboot
    <2>2. stops' \in 0 .. MaxStops
      BY <1>0, <2>1, BoundsAssumption DEF Stopped, TypeOK
    <2>3. lost' \subseteq Dumps /\ missed' \subseteq Dumps
      BY <1>0, <2>1 DEF Stopped, InHand, Waiting, TypeOK
    <2>4. pipe' \in Seq(Messages)
      BY <2>1, EmptySeq DEF Stopped
    <2>5. token' \in BOOLEAN
      <3>1. token' = token \/ token' = FALSE
        BY <1>11 DEF Dies, Reboot
      <3>2. token \in BOOLEAN
        BY <1>0 DEF TypeOK
      <3>3. CASE token' = token
        BY <3>2, <3>3
      <3>4. CASE token' = FALSE
        BY <3>4
      <3>5. QED
        BY <3>1, <3>3, <3>4
    <2>6. running' \in Dumps \cup {None}
      BY <1>0, <1>11 DEF Dies, Reboot, TypeOK
    <2>7. QED
      BY <1>0, <2>1, <2>2, <2>3, <2>4, <2>5, <2>6 DEF Stopped, Phases, TypeOK
  <1>12. CASE UNCHANGED vars
    BY <1>0, <1>12 DEF TypeOK
  <1>13. QED
    BY <1>1, <1>2, <1>3, <1>4, <1>5, <1>6, <1>7, <1>8, <1>9, <1>10, <1>11, <1>12 DEF Next, Handle

\* What a stop leaves: nothing of the daemon, and the dump that runs unless the platform stops.
LEMMA StopFacts ==
  ASSUME Dies \/ Reboot
  PROVE  /\ phase' = "down" /\ pipe' = << >> /\ job' = NoJob /\ aborting' = None
         /\ UNCHANGED <<marker, dumps, cores, saved, badcopies, reports, announced>>
         /\ lost' = lost \cup InHand
         /\ (token' = token /\ running' = running) \/ (token' = FALSE /\ running' = None)
  <1>1. Stopped
    BY DEF Dies, Reboot
  <1>2. /\ phase' = "down" /\ pipe' = << >> /\ job' = NoJob /\ aborting' = None
        /\ UNCHANGED <<marker, dumps, cores, saved, badcopies, reports, announced>>
        /\ lost' = lost \cup InHand
    BY <1>1 DEF Stopped
  <1>3. CASE Dies
    BY <1>2, <1>3 DEF Dies
  <1>4. CASE Reboot
    BY <1>2, <1>4 DEF Reboot
  <1>5. QED
    BY <1>3, <1>4

LEMMA LifeStep == ASSUME Inv, [Next]_vars PROVE LifeOK'
  <1> USE DEF vars, life, handling, modem, outcome, LifeOK
  <1>0. TypeOK /\ LifeOK
    BY DEF Inv
  <1>1. CASE DumpStarts \/ DumpEnds
    BY <1>0, <1>1 DEF DumpStarts, DumpEnds, Notify
  <1>2. CASE Handle
    <2>1. phase = "loop"
      <3>1. CASE Read
        BY <3>1 DEF Read
      <3>2. CASE ~Read
        <4>1. job # NoJob
          BY <1>2, <3>2, MessageFacts
          DEF Handle, HandleStart, RemoveMarker, FindFolder, CopyCore, RemoveCore, RaiseMpanic, At
        <4>2. QED
          BY <1>0, <4>1
      <3>3. QED
        BY <3>1, <3>2
    <2>2. UNCHANGED <<phase, token, aborting>>
      BY <1>2
      DEF Handle, Read, HandleStart, RemoveMarker, FindFolder, CopyCore, RemoveCore, RaiseMpanic
    <2>3. QED
      BY <1>0, <2>1, <2>2
  <1>3. CASE Start
    BY <1>0, <1>3 DEF Start
  <1>4. ASSUME NEW updated \in BOOLEAN, EarlyCheck(updated) PROVE LifeOK'
    BY <1>0, <1>4 DEF EarlyCheck
  <1>5. CASE RaiseAbort
    BY <1>0, <1>5 DEF RaiseAbort
  <1>6. CASE CheckDied \/ CreatePipe
    BY <1>0, <1>6 DEF CheckDied, CreatePipe
  <1>7. CASE Dies \/ Reboot
    BY <1>0, <1>7, StopFacts
  <1>8. CASE UNCHANGED vars
    BY <1>0, <1>8
  <1>9. QED
    BY <1>1, <1>2, <1>3, <1>4, <1>5, <1>6, <1>7, <1>8 DEF Next

\* A message that is sent now comes behind all others, and a dump that is running has sent
\* nothing but its START_CD.
LEMMA NewMessage ==
  ASSUME Inv, NEW m \in Messages, Notify(m), UNCHANGED <<job, phase>>,
         \A n \in Jobs : Sent(n) => Rank(n) < Rank(m)
  PROVE  InOrder' /\ \A i \in DOMAIN pipe' : (i \in DOMAIN pipe /\ pipe'[i] = pipe[i]) \/ pipe'[i] = m
  <1>0. TypeOK /\ InOrder /\ MessagesOK
    BY DEF Inv, Order
  <1>1. CASE phase # "loop"
    BY <1>0, <1>1 DEF Notify, InOrder
  <1>2. CASE phase = "loop"
    <2>1. /\ pipe' = Append(pipe, m) /\ pipe \in Seq(Messages)
          /\ DOMAIN pipe' = 1 .. Len(pipe) + 1
          /\ \A i \in DOMAIN pipe : pipe'[i] = pipe[i]
          /\ pipe'[Len(pipe) + 1] = m
      BY <1>0, <1>2, TypeFacts, AppendFacts DEF Notify
    <2>2. DOMAIN pipe = 1 .. Len(pipe) /\ Len(pipe) \in Nat /\ \A i \in DOMAIN pipe : pipe[i] \in Jobs
      BY <1>0, TypeFacts
    <2>3. \A i \in DOMAIN pipe : Rank(pipe[i]) < Rank(m)
      BY <1>0, <2>2 DEF MessagesOK
    <2>4. job # NoJob => Rank(job) < Rank(m)
      BY <1>0, TypeFacts DEF MessagesOK
    <2>5. QED
      BY <1>0, <2>1, <2>2, <2>3, <2>4 DEF InOrder
  <1>3. QED
    BY <1>1, <1>2

\* The same as numbers, for the comparisons below.
LEMMA Numbers ==
  ASSUME TypeOK
  PROVE  /\ dumps \in Nat
         /\ running # None => running \in Nat
         /\ marker # None => marker \in Nat
         /\ aborting # None => aborting \in Nat
         /\ announced # None => announced \in Nat
         /\ \A i \in DOMAIN reports : reports[i].dump \in Nat
         /\ \A i \in DOMAIN pipe : pipe[i] \in Jobs
         /\ job # NoJob => job \in Jobs
  BY TypeFacts, DumpsFacts

\* mmgr_handle works in the main loop.
LEMMA HandleFacts ==
  ASSUME Inv, Handle, ~Read
  PROVE  /\ phase = "loop" /\ token /\ aborting = None
         /\ job \in Jobs /\ job # NoJob /\ Sent(job)
         /\ UNCHANGED <<phase, token, aborting, pipe, running, dumps>>
  <1>1. job # NoJob
    BY MessageFacts
    DEF Handle, HandleStart, RemoveMarker, FindFolder, CopyCore, RemoveCore, RaiseMpanic, At
  <1>2. job \in Jobs /\ Sent(job)
    BY <1>1, TypeFacts DEF Inv, Order, MessagesOK
  <1>3. phase = "loop" /\ token /\ aborting = None
    BY <1>1 DEF Inv, LifeOK
  <1>4. UNCHANGED <<phase, token, aborting, pipe, running, dumps>>
    BY DEF Handle, HandleStart, RemoveMarker, FindFolder, CopyCore, RemoveCore, RaiseMpanic,
           life, handling, modem, outcome
  <1>5. QED
    BY <1>1, <1>2, <1>3, <1>4

\* A report about a dump that comes after all reports and before the one that runs.
LEMMA ReportStep ==
  ASSUME Inv, NEW d \in Dumps, NEW kind \in {"MPANIC", "CRASH", "ABORT"}, Raise(kind, d),
         AfterReports(d), d <= dumps, running # None => d < running,
         UNCHANGED <<dumps, running>>
  PROVE  /\ ReportsOK'
         /\ \A x \in Nat : AfterReports(x) /\ d < x => AfterReports(x)'
  <1>0. TypeOK /\ ReportsOK
    BY DEF Inv, Order
  <1>1. CASE reports' = reports
    BY <1>0, <1>1 DEF ReportsOK, AfterReports
  <1>2. CASE reports' # reports
    <2>1. /\ DOMAIN reports' = 1 .. Len(reports) + 1
          /\ \A i \in DOMAIN reports : reports'[i] = reports[i]
          /\ reports'[Len(reports) + 1].dump = d
      BY <1>0, <1>2, RaiseType
    <2>2. /\ DOMAIN reports = 1 .. Len(reports) /\ Len(reports) \in Nat
          /\ \A i \in DOMAIN reports : reports[i].dump \in Nat
          /\ d \in Nat /\ dumps \in Nat /\ (running # None => running \in Nat)
      BY <1>0, TypeFacts, DumpsFacts
    <2>3. \A i \in DOMAIN reports' :
            \/ i \in DOMAIN reports /\ reports'[i].dump = reports[i].dump /\ reports[i].dump < d
            \/ i = Len(reports) + 1 /\ reports'[i].dump = d
      BY <2>1, <2>2 DEF AfterReports
    <2>4. \A i, j \in DOMAIN reports' : i < j => reports'[i].dump < reports'[j].dump
      BY <1>0, <2>1, <2>2, <2>3 DEF ReportsOK
    <2>5. \A i \in DOMAIN reports' : reports'[i].dump <= dumps /\ (running # None => reports'[i].dump < running)
      BY <1>0, <2>2, <2>3 DEF ReportsOK, AfterReports
    <2>6. ASSUME NEW x \in Nat, AfterReports(x), d < x PROVE AfterReports(x)'
      BY <2>3, <2>6 DEF AfterReports
    <2>7. QED
      BY <1>0, <2>4, <2>5, <2>6 DEF ReportsOK, AfterReports
  <1>3. QED
    BY <1>1, <1>2

LEMMA StartsStep == ASSUME Inv, DumpStarts PROVE Order'
  <1>0. /\ TypeOK /\ LifeOK /\ InOrder /\ MessagesOK /\ MarkerOK /\ AbortOK /\ ReportsOK
        /\ announced # None => announced <= dumps
    BY DEF Inv, Order
  <1>1. /\ running = None /\ running' = dumps + 1 /\ dumps' = dumps + 1
        /\ Notify(StartCd(dumps + 1))
        /\ UNCHANGED <<phase, token, marker, job, aborting, cores, reports, announced>>
        /\ dumps \in Nat /\ dumps + 1 \in Dumps /\ None # dumps + 1
    BY <1>0, TypeFacts, BoundsAssumption, NoneAssumption
    DEF DumpStarts, life, outcome, Dumps
  <1>a. PICK m \in Messages : m = StartCd(dumps + 1)
    BY <1>1, MessageFacts
  <1>2. m \in Jobs /\ m.dump = dumps + 1 /\ m.type = "START_CD" /\ Rank(m) = 2 * dumps + 2 /\ Notify(m)
    <2>1. m.dump = dumps + 1 /\ m.type = "START_CD" /\ m \in Jobs
      BY <1>a, MessageFacts DEF StartCd
    <2>3. QED
      BY <1>1, <1>a, <2>1, RankFacts
  <1>3. ASSUME NEW n \in Jobs, Sent(n) PROVE Rank(n) < Rank(m) /\ Sent(n)'
    <2>1. Rank(n) \in Nat /\ n.dump \in Nat /\ n.dump <= dumps /\ Rank(n) <= 2 * dumps + 1
      BY <1>1, <1>3, RankFacts DEF Sent
    <2>2. QED
      BY <1>1, <1>2, <1>3, <2>1 DEF Sent, AfterReports
  <1>n. /\ announced # None => announced \in Nat /\ announced <= dumps
        /\ marker # None => marker \in Nat
        /\ aborting # None => aborting \in Nat
        /\ \A i \in DOMAIN reports : reports[i].dump \in Nat /\ reports[i].dump < dumps + 1
        /\ \A i \in DOMAIN pipe : pipe[i] \in Jobs
        /\ job # NoJob => job \in Jobs
    BY <1>0, <1>1, Numbers DEF ReportsOK
  <1>4. Sent(m)'
    BY <1>1, <1>2, <1>n DEF Sent, AfterReports
  <1>5. InOrder' /\ \A i \in DOMAIN pipe' : (i \in DOMAIN pipe /\ pipe'[i] = pipe[i]) \/ pipe'[i] = m
    BY <1>1, <1>2, <1>3, NewMessage
  <1>6. MessagesOK'
    BY <1>0, <1>1, <1>3, <1>4, <1>5, <1>n DEF MessagesOK
  <1>7. MarkerOK'
    BY <1>0, <1>1, <1>n DEF MarkerOK, AfterReports
  <1>8. AbortOK'
    BY <1>0, <1>1, <1>n DEF AbortOK, AfterReports
  <1>9. ReportsOK'
    BY <1>0, <1>1, <1>n DEF ReportsOK, AfterReports
  <1>10. announced' # None => announced' <= dumps'
    BY <1>0, <1>1, <1>n
  <1>11. QED
    BY <1>5, <1>6, <1>7, <1>8, <1>9, <1>10 DEF Order

LEMMA EndsStep == ASSUME Inv, DumpEnds PROVE Order'
  <1>0. /\ TypeOK /\ LifeOK /\ InOrder /\ MessagesOK /\ MarkerOK /\ AbortOK /\ ReportsOK /\ CoresOK
        /\ announced # None => announced <= dumps
    BY DEF Inv, Order
  <1>1. PICK ok \in BOOLEAN :
          /\ cores' = IF ok THEN cores \cup {running} ELSE cores
          /\ Notify(Mpanic(running, ok, "read"))
    BY DEF DumpEnds
  <1>2. /\ running # None /\ running' = None
        /\ UNCHANGED <<phase, token, marker, job, aborting, dumps, reports, announced>>
    BY DEF DumpEnds, life, outcome
  <1>3. /\ running \in Nat /\ running \in Dumps /\ dumps \in Nat /\ running = dumps /\ AfterReports(running)
        /\ announced # None => announced \in Nat /\ announced <= dumps
        /\ \A i \in DOMAIN pipe : pipe[i] \in Jobs
        /\ job # NoJob => job \in Jobs
    BY <1>0, <1>2, Numbers, TypeFacts DEF ReportsOK
  <1>4. PICK m \in Messages : m = Mpanic(running, ok, "read")
    BY <1>3, MessageFacts
  <1>5. /\ m \in Jobs /\ m.dump = running /\ m.type = "MPANIC" /\ m.ok = ok
        /\ Rank(m) = 2 * running + 1 /\ Notify(m)
    <2>1. m.dump = running /\ m.type = "MPANIC" /\ m.ok = ok /\ m \in Jobs
      BY <1>4, MessageFacts DEF Mpanic
    <2>2. QED
      BY <1>1, <1>4, <2>1, RankFacts
  <1>6. ASSUME NEW n \in Jobs, Sent(n) PROVE Rank(n) < Rank(m) /\ Sent(n)'
    <2>1. /\ Rank(n) \in Nat /\ n.dump \in Nat /\ n.dump <= dumps /\ Rank(n) <= 2 * running
          /\ n.type = "MPANIC" => n.dump < running
      BY <1>2, <1>3, <1>6, RankFacts DEF Sent
    <2>2. n.type = "MPANIC" /\ ~n.ok => n.dump \notin cores'
      BY <1>1, <1>3, <1>6, <2>1 DEF Sent
    <2>3. QED
      BY <1>2, <1>3, <1>5, <1>6, <2>1, <2>2 DEF Sent, AfterReports
  <1>7. Sent(m)'
    <2>1. ~ok => running \notin cores'
      BY <1>0, <1>1 DEF CoresOK
    <2>2. QED
      BY <1>2, <1>3, <1>5, <2>1 DEF Sent, AfterReports
  <1>8. InOrder' /\ \A i \in DOMAIN pipe' : (i \in DOMAIN pipe /\ pipe'[i] = pipe[i]) \/ pipe'[i] = m
    BY <1>2, <1>5, <1>6, NewMessage
  <1>9. MessagesOK'
    BY <1>0, <1>2, <1>3, <1>6, <1>7, <1>8 DEF MessagesOK
  <1>10. MarkerOK' /\ AbortOK' /\ ReportsOK'
    BY <1>0, <1>2 DEF MarkerOK, AbortOK, ReportsOK, AfterReports
  <1>11. QED
    BY <1>0, <1>2, <1>8, <1>9, <1>10 DEF Order

LEMMA ReadStep == ASSUME Inv, Read PROVE Order'
  <1>0. /\ TypeOK /\ LifeOK /\ InOrder /\ MessagesOK /\ MarkerOK /\ AbortOK /\ ReportsOK
        /\ announced # None => announced <= dumps
    BY DEF Inv, Order
  <1>1. /\ job' = Head(pipe) /\ pipe' = Tail(pipe) /\ pipe # << >>
        /\ UNCHANGED <<phase, token, marker, aborting, running, dumps, cores, reports, announced>>
    BY DEF Read, life, modem, outcome
  <1>2. /\ Len(pipe) \in Nat /\ Len(pipe) > 0 /\ DOMAIN pipe = 1 .. Len(pipe)
        /\ job' = pipe[1] /\ pipe[1] \in Messages
        /\ DOMAIN pipe' = 1 .. Len(pipe) - 1
        /\ \A i \in DOMAIN pipe' : pipe'[i] = pipe[i + 1]
    BY <1>0, <1>1, TypeFacts, TailFacts
  <1>3. job'.type = "MPANIC" => job'.step = "read"
    BY <1>2 DEF Messages, StartCd, Mpanic
  <1>4. InOrder'
    BY <1>0, <1>2 DEF InOrder
  <1>5. \A n : Sent(n) => Sent(n)'
    BY <1>1 DEF Sent, AfterReports
  <1>6. MessagesOK'
    BY <1>0, <1>2, <1>5 DEF MessagesOK
  <1>7. MarkerOK' /\ AbortOK' /\ ReportsOK'
    BY <1>0, <1>1, <1>3 DEF MarkerOK, AbortOK, ReportsOK, AfterReports
  <1>8. QED
    BY <1>0, <1>1, <1>4, <1>6, <1>7 DEF Order

LEMMA HandleStartStep == ASSUME Inv, HandleStart PROVE Order'
  <1>0. /\ TypeOK /\ LifeOK /\ InOrder /\ MessagesOK /\ MarkerOK /\ AbortOK /\ ReportsOK
        /\ announced # None => announced <= dumps
    BY DEF Inv, Order
  <1>1. ~Read /\ job.type = "START_CD"
    BY MessageFacts DEF HandleStart, Read
  <1>2. /\ token /\ aborting = None /\ job \in Jobs /\ job # NoJob /\ Sent(job)
        /\ UNCHANGED <<token, aborting, pipe, running, dumps>>
    BY <1>1, HandleFacts DEF Handle
  <1>3. /\ job' = NoJob /\ UNCHANGED <<cores, reports>>
        /\ (marker' = job.dump /\ announced' = job.dump) \/ UNCHANGED <<marker, announced>>
    BY DEF HandleStart, modem, outcome
  <1>4. Rank(job) = 2 * job.dump /\ job.dump \in Nat /\ job.dump <= dumps /\ AfterReports(job.dump)
    BY <1>1, <1>2, RankFacts DEF Sent
  <1>5. \A i \in DOMAIN pipe : Sent(pipe[i])'
    <2>1. \A i \in DOMAIN pipe : Sent(pipe[i]) /\ Rank(pipe[i]) > 2 * job.dump
      <3>1. \A i \in DOMAIN pipe : Rank(pipe[i]) \in Nat
        BY <1>0, Numbers, RankFacts
      <3>2. QED
        BY <1>0, <1>2, <1>4, <3>1 DEF InOrder, MessagesOK
    <2>2. QED
      BY <1>2, <1>3, <2>1 DEF Sent, AfterReports
  <1>6. InOrder' /\ MessagesOK'
    BY <1>0, <1>2, <1>3, <1>5 DEF InOrder, MessagesOK
  <1>7. MarkerOK'
    BY <1>0, <1>2, <1>3, <1>4, MessageFacts DEF MarkerOK, AfterReports
  <1>8. AbortOK' /\ ReportsOK'
    BY <1>0, <1>2, <1>3 DEF AbortOK, ReportsOK, AfterReports
  <1>9. QED
    BY <1>0, <1>2, <1>3, <1>4, <1>6, <1>7, <1>8 DEF Order

\* mmgr_handle goes on with an MPANIC whose file is removed.
LEMMA GoStep ==
  ASSUME Inv, Handle, ~Read, job.type = "MPANIC", NEW step \in Steps, GoTo(step), marker' = None,
         cores' \subseteq cores, UNCHANGED <<reports, announced>>
  PROVE  Order'
  <1>0. /\ TypeOK /\ InOrder /\ MessagesOK /\ AbortOK /\ ReportsOK
        /\ announced # None => announced <= dumps
    BY DEF Inv, Order
  <1>1. /\ aborting = None /\ job \in Jobs /\ job # NoJob /\ Sent(job)
        /\ UNCHANGED <<token, aborting, pipe, running, dumps>>
    BY HandleFacts
  <1>2. job' # NoJob /\ job'.type = job.type /\ job'.dump = job.dump /\ job'.ok = job.ok
    BY <1>1, GoToFacts
  <1>3. Rank(job)' = Rank(job)
    BY <1>2 DEF Rank
  <1>4. InOrder'
    BY <1>0, <1>1, <1>2, <1>3 DEF InOrder
  <1>5. \A i \in DOMAIN pipe : Sent(pipe[i])'
    BY <1>0, <1>1 DEF MessagesOK, Sent, AfterReports
  <1>6. Sent(job)'
    BY <1>1, <1>2, <1>3 DEF Sent, AfterReports
  <1>7. MessagesOK'
    BY <1>1, <1>5, <1>6 DEF MessagesOK
  <1>8. MarkerOK' /\ AbortOK' /\ ReportsOK'
    BY <1>0, <1>1 DEF MarkerOK, AbortOK, ReportsOK, AfterReports
  <1>9. QED
    BY <1>0, <1>1, <1>4, <1>7, <1>8 DEF Order

\* mmgr_handle raises its event: the messages behind it are about later dumps.
LEMMA EndStep ==
  ASSUME Inv, Handle, ~Read, job.type = "MPANIC", job.step # "read",
         NEW kind \in {"MPANIC", "CRASH", "ABORT"}, Raise(kind, job.dump),
         job' = NoJob, UNCHANGED <<marker, cores, announced>>
  PROVE  Order'
  <1>0. /\ TypeOK /\ InOrder /\ MessagesOK /\ MarkerOK /\ AbortOK /\ ReportsOK
        /\ announced # None => announced <= dumps
    BY DEF Inv, Order
  <1>1. /\ aborting = None /\ job \in Jobs /\ job # NoJob /\ Sent(job) /\ marker = None
        /\ UNCHANGED <<token, aborting, pipe, running, dumps>>
    BY <1>0, HandleFacts DEF MarkerOK
  <1>2. /\ job.dump \in Dumps /\ job.dump \in Nat /\ Rank(job) = 2 * job.dump + 1
        /\ AfterReports(job.dump) /\ job.dump <= dumps
    BY <1>1, RankFacts, JobFacts DEF Sent
  <1>3. running # None => job.dump < running
    BY <1>0, <1>1, <1>2, Numbers DEF Sent
  <1>4. ReportsOK' /\ \A x \in Nat : AfterReports(x) /\ job.dump < x => AfterReports(x)'
    BY <1>1, <1>2, <1>3, ReportStep
  <1>5. ASSUME NEW i \in DOMAIN pipe PROVE Sent(pipe[i])'
    <2>1. pipe[i] \in Jobs /\ Sent(pipe[i]) /\ Rank(job) < Rank(pipe[i])
      BY <1>0, <1>1, Numbers DEF InOrder, MessagesOK
    <2>2. pipe[i].dump \in Nat /\ job.dump < pipe[i].dump
      BY <1>2, <2>1, RankFacts
    <2>3. AfterReports(pipe[i].dump)'
      <3>1. PICK x \in Nat : x = pipe[i].dump
        BY <2>2
      <3>2. AfterReports(x)'
        BY <1>4, <2>1, <2>2, <3>1 DEF Sent
      <3>3. QED
        BY <1>1, <3>1, <3>2 DEF AfterReports
    <2>4. QED
      BY <1>1, <2>1, <2>3 DEF Sent
  <1>6. InOrder' /\ MessagesOK'
    BY <1>0, <1>1, <1>5 DEF InOrder, MessagesOK
  <1>7. MarkerOK' /\ AbortOK'
    BY <1>1 DEF MarkerOK, AbortOK
  <1>8. QED
    BY <1>0, <1>1, <1>4, <1>6, <1>7 DEF Order

LEMMA HandleStep == ASSUME Inv, Handle PROVE Order'
  <1>0. Inv
    OBVIOUS
  <1> USE DEF life, handling, modem, outcome
  <1>1. CASE Read
    BY <1>1, ReadStep
  <1>2. CASE HandleStart
    BY <1>2, HandleStartStep
  <1>3. CASE ~Read /\ ~HandleStart
    <2>1. job.type = "MPANIC" /\ (job.step # "read" => marker = None)
      <3>1. job.type = "MPANIC"
        BY <1>3 DEF Handle, RemoveMarker, FindFolder, CopyCore, RemoveCore, RaiseMpanic, At
      <3>2. QED
        BY <3>1 DEF Inv, Order, MarkerOK
    <2>2. CASE RemoveMarker
      BY <1>3, <2>1, <2>2, GoStep DEF RemoveMarker, Handle, Steps
    <2>3. CASE FindFolder /\ ~(Raise("CRASH", job.dump) /\ job' = NoJob)
      <3>1. /\ GoTo(IF job.ok THEN "copy" ELSE "raise") /\ job.step = "find"
            /\ UNCHANGED <<marker, cores, reports, announced>>
        BY <2>3 DEF FindFolder, At
      <3>2. (IF job.ok THEN "copy" ELSE "raise") \in Steps
        BY DEF Steps
      <3>3. marker' = None
        BY <2>1, <3>1
      <3>4. QED
        BY <1>3, <2>1, <3>1, <3>2, <3>3, GoStep
    <2>4. CASE FindFolder /\ Raise("CRASH", job.dump) /\ job' = NoJob
      BY <1>3, <2>1, <2>4, EndStep DEF FindFolder, At
    <2>5. CASE CopyCore
      BY <1>3, <2>1, <2>5, GoStep DEF CopyCore, At, Steps
    <2>6. CASE RemoveCore
      BY <1>3, <2>1, <2>6, GoStep DEF RemoveCore, At, Steps
    <2>7. CASE RaiseMpanic
      BY <1>3, <2>1, <2>7, EndStep DEF RaiseMpanic, At
    <2>8. QED
      BY <1>3, <2>2, <2>3, <2>4, <2>5, <2>6, <2>7 DEF Handle
  <1>4. QED
    BY <1>1, <1>2, <1>3

\* Outside the main loop there is no message.
LEMMA NoMessages ==
  ASSUME pipe' = << >>, job' = NoJob
  PROVE  InOrder' /\ MessagesOK'
  <1>1. DOMAIN pipe' = {}
    OBVIOUS
  <1>2. QED
    BY <1>1 DEF InOrder, MessagesOK

LEMMA OrderStep == ASSUME Inv, [Next]_vars PROVE Order'
  <1>0. /\ TypeOK /\ LifeOK /\ InOrder /\ MessagesOK /\ MarkerOK /\ AbortOK /\ ReportsOK
        /\ announced # None => announced <= dumps
    BY DEF Inv, Order
  <1> USE DEF vars, life, handling, modem, outcome
  <1>1. CASE DumpStarts
    BY <1>1, StartsStep
  <1>2. CASE DumpEnds
    BY <1>2, EndsStep
  <1>3. CASE Handle
    BY <1>3, HandleStep
  <1>4. CASE Start \/ CheckDied \/ CreatePipe
    <2>1. /\ pipe = << >> /\ job = NoJob /\ (token' = token \/ token' = TRUE)
          /\ UNCHANGED <<marker, pipe, job, aborting, running, dumps, reports, announced>>
      BY <1>0, <1>4 DEF Start, CheckDied, CreatePipe, LifeOK
    <2>2. InOrder' /\ MessagesOK'
      BY <2>1, NoMessages
    <2>3. MarkerOK' /\ AbortOK' /\ ReportsOK'
      BY <1>0, <2>1 DEF MarkerOK, AbortOK, ReportsOK, AfterReports
    <2>4. QED
      BY <1>0, <2>1, <2>2, <2>3 DEF Order
  <1>5. ASSUME NEW updated \in BOOLEAN, EarlyCheck(updated) PROVE Order'
    <2>1. /\ pipe = << >> /\ job = NoJob /\ ~token /\ aborting' = marker /\ marker' = None
          /\ UNCHANGED <<token, pipe, job, running, dumps, reports, announced>>
      BY <1>0, <1>5 DEF EarlyCheck, LifeOK
    <2>2. InOrder' /\ MessagesOK'
      BY <2>1, NoMessages
    <2>3. MarkerOK' /\ AbortOK' /\ ReportsOK'
      BY <1>0, <2>1 DEF MarkerOK, AbortOK, ReportsOK, AfterReports
    <2>4. QED
      BY <1>0, <2>1, <2>2, <2>3 DEF Order
  <1>6. CASE RaiseAbort
    <2>1. /\ pipe = << >> /\ job = NoJob /\ Raise("ABORT", aborting) /\ aborting' = None
          /\ UNCHANGED <<token, marker, pipe, job, running, dumps, announced>>
          /\ aborting # None
      BY <1>0, <1>6 DEF RaiseAbort, LifeOK
    <2>2. aborting \in Dumps
      BY <1>0, <2>1, TypeFacts
    <2>3. ReportsOK'
      BY <1>0, <2>1, <2>2, ReportStep DEF AbortOK
    <2>4. InOrder' /\ MessagesOK'
      BY <2>1, NoMessages
    <2>5. MarkerOK' /\ AbortOK'
      BY <1>0, <2>1 DEF MarkerOK, AbortOK
    <2>6. QED
      BY <1>0, <2>1, <2>3, <2>4, <2>5 DEF Order
  <1>7. CASE Dies \/ Reboot
    <2>1. InOrder' /\ MessagesOK'
      BY <1>7, StopFacts, NoMessages
    <2>2. /\ UNCHANGED <<marker, dumps, reports, announced>> /\ aborting' = None /\ job' = NoJob
          /\ (token' = token /\ running' = running) \/ (token' = FALSE /\ running' = None)
      BY <1>7, StopFacts
    <2>3. MarkerOK' /\ AbortOK' /\ ReportsOK'
      BY <1>0, <2>2, MessageFacts DEF MarkerOK, AbortOK, ReportsOK, AfterReports
    <2>4. QED
      BY <1>0, <2>1, <2>2, <2>3 DEF Order
  <1>8. CASE UNCHANGED vars
    <2>1. \A n : Sent(n)' <=> Sent(n)
      BY <1>8 DEF Sent, AfterReports
    <2>2. MessagesOK'
      BY <1>0, <1>8, <2>1 DEF MessagesOK
    <2>3. QED
      BY <1>0, <1>8, <2>2 DEF Order, InOrder, MarkerOK, AbortOK, ReportsOK, AfterReports
  <1>9. QED
    BY <1>1, <1>2, <1>3, <1>4, <1>5, <1>6, <1>7, <1>8 DEF Next

LEMMA CoresStep == ASSUME Inv, [Next]_vars PROVE CoresOK'
  <1>0. TypeOK /\ LifeOK /\ MessagesOK /\ ReportsOK /\ CoresOK
    BY DEF Inv, Order
  <1>a. /\ cores \subseteq Nat /\ None \notin cores /\ dumps \in Nat
        /\ running # None => running \in Nat
    <2>1. cores \subseteq Dumps
      BY <1>0 DEF TypeOK
    <2>2. QED
      BY <1>0, <2>1, DumpsFacts, Numbers
  <1> USE DEF vars, life, handling, modem, outcome
  <1>1. CASE DumpStarts
    BY <1>0, <1>1, <1>a DEF DumpStarts, CoresOK, At
  <1>2. CASE DumpEnds
    <2>1. /\ running # None /\ running' = None /\ running = dumps
          /\ cores' \subseteq cores \cup {running}
          /\ UNCHANGED <<job, dumps, saved, badcopies>>
      BY <1>0, <1>2 DEF DumpEnds, ReportsOK
    <2>2. \A d \in cores' : d <= dumps /\ d # running'
      BY <1>0, <1>a, <2>1, DumpsFacts, NoneAssumption DEF CoresOK
    <2>3. At("raise") => job.dump \notin cores'
      <3>1. SUFFICES ASSUME At("raise") PROVE job.dump # running
        BY <1>0, <2>1 DEF CoresOK
      <3>2. job \in Jobs /\ Sent(job) /\ job.type = "MPANIC"
        BY <1>0, <3>1, Numbers, MessageFacts DEF MessagesOK, At
      <3>3. QED
        BY <1>a, <2>1, <3>2, RankFacts DEF Sent
    <2>4. QED
      BY <1>0, <2>1, <2>2, <2>3 DEF CoresOK, At
  <1>3. CASE Handle /\ ~Read
    <2>1. job \in Jobs /\ Sent(job) /\ UNCHANGED <<running, dumps>>
      BY <1>3, HandleFacts
    <2>2. CASE HandleStart \/ RaiseMpanic
      <3>1. job' = NoJob /\ UNCHANGED cores
        BY <2>2 DEF HandleStart, RaiseMpanic
      <3>2. QED
        BY <1>0, <2>1, <3>1, MessageFacts DEF CoresOK, At
    <2>3. CASE RemoveMarker
      <3>1. UNCHANGED cores /\ job'.step = "find"
        BY <2>1, <2>3, GoToFacts DEF RemoveMarker, Steps, At
      <3>2. QED
        BY <1>0, <2>1, <3>1 DEF CoresOK, At
    <2>4. CASE FindFolder
      <3>1. UNCHANGED cores
        BY <2>4 DEF FindFolder
      <3>2. CASE job' = NoJob
        BY <1>0, <2>1, <3>1, <3>2, MessageFacts DEF CoresOK, At
      <3>3. CASE job' # NoJob
        <4>1. GoTo(IF job.ok THEN "copy" ELSE "raise") /\ job.type = "MPANIC"
          BY <2>4, <3>3 DEF FindFolder, At
        <4>2. CASE job.ok
          <5>1. job'.step = "copy"
            BY <2>1, <4>1, <4>2, GoToFacts DEF Steps
          <5>2. QED
            BY <1>0, <2>1, <3>1, <5>1 DEF CoresOK, At
        <4>3. CASE ~job.ok
          <5>1. job'.step = "raise" /\ job'.dump = job.dump
            BY <2>1, <4>1, <4>3, GoToFacts DEF Steps
          <5>2. job.dump \notin cores
            BY <2>1, <4>1, <4>3 DEF Sent
          <5>3. QED
            BY <1>0, <2>1, <3>1, <5>1, <5>2 DEF CoresOK, At
        <4>4. QED
          BY <4>2, <4>3
      <3>4. QED
        BY <3>2, <3>3
    <2>5. CASE CopyCore
      <3>1. job'.step = "remove" /\ job'.dump = job.dump /\ UNCHANGED cores
        BY <2>1, <2>5, GoToFacts DEF CopyCore, Steps, At
      <3>2. job.dump \in saved' \cup badcopies'
        BY <2>5 DEF CopyCore
      <3>3. QED
        BY <1>0, <2>1, <3>1, <3>2 DEF CoresOK, At
    <2>6. CASE RemoveCore
      <3>1. job'.step = "raise" /\ job'.dump = job.dump /\ cores' = cores \ {job.dump}
        BY <2>1, <2>6, GoToFacts DEF RemoveCore, Steps, At
      <3>2. QED
        BY <1>0, <2>1, <3>1 DEF CoresOK, At
    <2>7. QED
      BY <1>3, <2>2, <2>3, <2>4, <2>5, <2>6 DEF Handle
  <1>4. CASE Read
    <2>1. job' \in Messages /\ UNCHANGED <<running, dumps, cores>>
      BY <1>0, <1>4, TypeFacts, TailFacts DEF Read
    <2>2. job'.type = "MPANIC" => job'.step = "read"
      BY <2>1 DEF Messages, StartCd, Mpanic
    <2>3. QED
      BY <1>0, <2>1, <2>2 DEF CoresOK, At
  <1>5. ASSUME NEW updated \in BOOLEAN, EarlyCheck(updated) PROVE CoresOK'
    <2>1. job' = NoJob /\ cores' \subseteq cores /\ UNCHANGED <<running, dumps>>
      BY <1>0, <1>5 DEF EarlyCheck, LifeOK
    <2>2. QED
      BY <1>0, <2>1, MessageFacts DEF CoresOK, At
  <1>6. CASE Start \/ RaiseAbort \/ CheckDied \/ CreatePipe
    BY <1>0, <1>6 DEF Start, RaiseAbort, CheckDied, CreatePipe, CoresOK, At
  <1>7. CASE Dies \/ Reboot
    BY <1>0, <1>7, <1>a, StopFacts, MessageFacts DEF CoresOK, At
  <1>8. CASE UNCHANGED vars
    BY <1>0, <1>8 DEF CoresOK, At
  <1>9. QED
    BY <1>1, <1>2, <1>3, <1>4, <1>5, <1>6, <1>7, <1>8 DEF Next

\* A dump that was taken up stays so: what leaves the hands of the daemon is reported or lost.
LEMMA TakenUpStep ==
  ASSUME Inv, [Next]_vars, NEW d \in Dumps, TakenUp(d)
  PROVE  TakenUp(d)'
  <1>0. TypeOK /\ LifeOK
    BY DEF Inv
  <1> USE DEF vars, life, handling, modem, outcome
  <1>1. CASE UNCHANGED <<job, aborting, reports, lost>>
    BY <1>1 DEF TakenUp, InHand, Reported
  <1>2. ASSUME NEW x \in Dumps, NEW kind \in {"MPANIC", "CRASH", "ABORT"}, Raise(kind, x)
        PROVE  Reported(x)' \/ x \in lost'
    <2>1. CASE x \in lost'
      BY <2>1
    <2>2. CASE x \notin lost'
      <3>1. /\ DOMAIN reports' = 1 .. Len(reports) + 1 /\ Len(reports) \in Nat
            /\ reports'[Len(reports) + 1].dump = x
        BY <1>0, <1>2, <2>2, RaiseType, TypeFacts
      <3>2. QED
        BY <3>1 DEF Reported
    <2>3. QED
      BY <2>1, <2>2
  <1>3. ASSUME NEW x \in Dumps, NEW kind \in {"MPANIC", "CRASH", "ABORT"}, Raise(kind, x)
        PROVE  (Reported(d) \/ d \in lost) => (Reported(d)' \/ d \in lost')
    <2>1. lost' = lost \/ lost' = lost \cup {x}
      BY <1>0, <1>3, RaiseType
    <2>2. CASE reports' = reports
      BY <2>1, <2>2 DEF Reported
    <2>3. CASE reports' # reports
      <3>1. /\ DOMAIN reports' = 1 .. Len(reports) + 1
            /\ \A i \in DOMAIN reports : reports'[i] = reports[i]
        BY <1>0, <1>3, <2>3, RaiseType
      <3>2. DOMAIN reports \subseteq DOMAIN reports'
        BY <1>0, <3>1, TypeFacts
      <3>3. QED
        BY <2>1, <3>1, <3>2 DEF Reported
    <2>4. QED
      BY <2>2, <2>3
  <1>4. CASE DumpStarts \/ DumpEnds \/ Start \/ CheckDied \/ CreatePipe \/ UNCHANGED vars
    BY <1>1, <1>4 DEF DumpStarts, DumpEnds, Start, CheckDied, CreatePipe
  <1>5. CASE Handle
    <2>1. aborting = None /\ UNCHANGED aborting /\ aborting # d
      BY <1>0, <1>5, DumpsFacts, HandleFacts DEF Handle, Read, LifeOK
    <2>2. CASE Read \/ HandleStart
      <3>1. UNCHANGED <<reports, lost>> /\ job.type # "MPANIC"
        BY <2>2, MessageFacts DEF Read, HandleStart
      <3>2. QED
        BY <2>1, <3>1 DEF TakenUp, InHand, Reported
    <2>3. CASE ~Read /\ job.type = "MPANIC" /\ UNCHANGED <<reports, lost>> /\ \E step \in Steps \ {"read"} : GoTo(step)
      <3>1. job'.type = "MPANIC" /\ job'.dump = job.dump /\ job'.step # "read"
        BY <1>5, <2>3, HandleFacts, GoToFacts
      <3>2. QED
        BY <2>1, <2>3, <3>1 DEF TakenUp, InHand, Reported
    <2>4. CASE ~Read /\ \E kind \in {"MPANIC", "CRASH", "ABORT"} : Raise(kind, job.dump)
      <3>1. job.dump \in Dumps
        BY <1>5, <2>4, HandleFacts, JobFacts
      <3>2. QED
        BY <1>2, <1>3, <2>1, <2>4, <3>1 DEF TakenUp, InHand
    <2>5. RemoveMarker => job.type = "MPANIC" /\ UNCHANGED <<reports, lost>> /\ GoTo("find")
      BY DEF RemoveMarker, At
    <2>6. FindFolder =>
            \/ /\ job.type = "MPANIC" /\ UNCHANGED <<reports, lost>>
               /\ GoTo("copy") \/ GoTo("raise")
            \/ Raise("CRASH", job.dump)
      BY DEF FindFolder, At
    <2>7. CopyCore => job.type = "MPANIC" /\ UNCHANGED <<reports, lost>> /\ GoTo("remove")
      BY DEF CopyCore, At
    <2>8. RemoveCore => job.type = "MPANIC" /\ UNCHANGED <<reports, lost>> /\ GoTo("raise")
      BY DEF RemoveCore, At
    <2>9. RaiseMpanic => Raise("MPANIC", job.dump)
      BY DEF RaiseMpanic
    <2>10. {"find", "copy", "remove", "raise"} \subseteq Steps \ {"read"}
      BY DEF Steps
    <2>11. QED
      BY <1>5, <2>2, <2>3, <2>4, <2>5, <2>6, <2>7, <2>8, <2>9, <2>10 DEF Handle
  <1>6. ASSUME NEW updated \in BOOLEAN, EarlyCheck(updated) PROVE TakenUp(d)'
    <2>1. job = NoJob /\ aborting = None /\ UNCHANGED <<reports, lost>>
      BY <1>0, <1>6 DEF EarlyCheck, LifeOK
    <2>2. QED
      BY <2>1, MessageFacts, DumpsFacts DEF TakenUp, InHand, Reported
  <1>7. CASE RaiseAbort
    <2>1. aborting \in Dumps /\ Raise("ABORT", aborting) /\ job = NoJob
      BY <1>0, <1>7, TypeFacts DEF RaiseAbort, LifeOK
    <2>2. QED
      BY <1>2, <1>3, <2>1, MessageFacts DEF TakenUp, InHand
  <1>8. CASE Dies \/ Reboot
    BY <1>8, StopFacts DEF TakenUp, Reported
  <1>9. QED
    BY <1>4, <1>5, <1>6, <1>7, <1>8 DEF Next

\* The file goes only when a dump that is not earlier is taken up.
LEMMA LastStep == ASSUME Inv, [Next]_vars PROVE LastNotForgotten'
  <1>0. TypeOK /\ LifeOK /\ MessagesOK /\ LastNotForgotten
    BY DEF Inv, Order
  <1> USE DEF vars, life, handling, modem, outcome
  <1>1. \A d \in Dumps : TakenUp(d) => TakenUp(d)'
    BY TakenUpStep
  <1>2. announced # None => announced \in Nat /\ announced .. MaxDumps \subseteq Dumps
    BY <1>0, TypeFacts, BoundsAssumption DEF Dumps
  <1>3. CASE UNCHANGED <<marker, announced>>
    BY <1>0, <1>1, <1>2, <1>3 DEF LastNotForgotten
  <1>4. CASE HandleStart
    BY <1>3, <1>4 DEF HandleStart, LastNotForgotten
  <1>5. CASE RemoveMarker
    <2>1. ~Read /\ job.type = "MPANIC" /\ UNCHANGED announced /\ GoTo("find")
      BY <1>5, MessageFacts DEF RemoveMarker, At, Read
    <2>2. job \in Jobs /\ Sent(job)
      BY <1>5, <2>1, HandleFacts DEF Handle
    <2>3. job'.type = "MPANIC" /\ job'.dump = job.dump /\ job'.step = "find" /\ job.dump \in Dumps
      BY <2>1, <2>2, GoToFacts, JobFacts DEF Steps
    <2>4. TakenUp(job.dump)'
      BY <2>3 DEF TakenUp, InHand
    <2>5. announced # None => job.dump \in announced .. MaxDumps
      BY <1>2, <2>1, <2>2, <2>3, RankFacts, DumpsFacts, BoundsAssumption DEF Sent
    <2>6. QED
      BY <2>1, <2>3, <2>4, <2>5 DEF LastNotForgotten
  <1>6. ASSUME NEW updated \in BOOLEAN, EarlyCheck(updated) PROVE LastNotForgotten'
    <2>1. aborting' = marker /\ UNCHANGED announced
      BY <1>6 DEF EarlyCheck
    <2>2. CASE announced # None /\ marker = announced
      <3>1. announced \in Dumps /\ announced \in announced .. MaxDumps
        <4>1. announced \in Dumps
          BY <1>0, <2>2, TypeFacts
        <4>2. QED
          BY <4>1, BoundsAssumption DEF Dumps
      <3>2. \A d \in Dumps : d = announced => TakenUp(d)'
        BY <2>1, <2>2 DEF TakenUp, InHand
      <3>3. QED
        BY <2>1, <3>1, <3>2 DEF LastNotForgotten
    <2>3. CASE announced # None /\ marker # announced
      BY <1>0, <1>1, <1>2, <2>1, <2>3 DEF LastNotForgotten
    <2>4. QED
      BY <2>1, <2>2, <2>3 DEF LastNotForgotten
  <1>7. QED
    BY <1>3, <1>4, <1>5, <1>6, StopFacts
    DEF Next, Handle, DumpStarts, DumpEnds, Read, FindFolder, CopyCore, RemoveCore, RaiseMpanic,
        Start, RaiseAbort, CheckDied, CreatePipe
-----------------------------------------------------------------------------
(* The theorems.                                                           *)

\* The inductive invariant.
THEOREM Invariant == Spec => []Inv
  <1>1. Inv /\ [Next]_vars => Inv'
    BY TypeStep, LifeStep, OrderStep, CoresStep, LastStep DEF Inv
  <1>2. QED
    BY <1>1, InitInv, PTL DEF Spec

\* mmgr_handle, early_check and crashlog_check_mpanic_abort keep every variable in its type:
\* what is raised is about a dump, whatever stopped the daemon and when.
THEOREM TypeCorrect == Spec => []TypeOK
  <1>1. Inv => TypeOK
    BY DEF Inv
  <1>2. QED
    BY <1>1, Invariant, PTL

\* No dump is reported twice: not by MPANIC and by ABORT after a restart, and not by two of
\* the messages that wait in the pipe.
THEOREM OneReport == Spec => []ReportedOnce
  <1>1. ASSUME Inv PROVE ReportedOnce
    <2>1. TypeOK /\ ReportsOK
      BY <1>1 DEF Inv, Order
    <2>2. DOMAIN reports \subseteq Nat /\ \A i \in DOMAIN reports : reports[i].dump \in Nat
      BY <2>1, TypeFacts, Numbers
    <2>3. SUFFICES ASSUME NEW i \in DOMAIN reports, NEW j \in DOMAIN reports,
                          reports[i].dump = reports[j].dump
                   PROVE  i = j
      BY DEF ReportedOnce
    <2>4. ~(i < j) /\ ~(j < i)
      BY <2>1, <2>2, <2>3 DEF ReportsOK
    <2>5. QED
      BY <2>2, <2>4
  <1>2. QED
    BY <1>1, Invariant, PTL

\* The file MCD_PROCESSING of the last dump that made it is there until a dump that is not
\* earlier is in hand, and then that dump is reported or known to be lost.
THEOREM LastKept == Spec => []LastNotForgotten
  <1>1. Inv => LastNotForgotten
    BY DEF Inv
  <1>2. QED
    BY <1>1, Invariant, PTL

\* rmfr(cd_path) follows the copy and comes before raise_event.
THEOREM CoresAreKept == Spec => CoreKept
  <1> DEFINE Kept == /\ \A d \in cores \ cores' : d \in saved \cup badcopies \/ EarlyCheck(TRUE)
                     /\ \A i \in DOMAIN reports' \ DOMAIN reports :
                          reports'[i].kind = "MPANIC" => reports'[i].dump \notin cores
  <1>1. ASSUME Inv, Next PROVE Kept
    <2> USE DEF life, handling, modem, outcome
    <2>1. TypeOK /\ CoresOK
      BY <1>1 DEF Inv
    <2>2. CASE UNCHANGED <<cores, reports>>
      BY <2>2
    <2>3. CASE RemoveCore
      BY <2>1, <2>3 DEF RemoveCore, CoresOK
    <2>4. CASE DumpEnds
      BY <2>4 DEF DumpEnds
    <2>5. ASSUME NEW updated \in BOOLEAN, EarlyCheck(updated) PROVE Kept
      BY <2>5 DEF EarlyCheck
    <2>6. ASSUME NEW d \in Dumps, NEW kind \in {"MPANIC", "CRASH", "ABORT"}, Raise(kind, d),
                 UNCHANGED cores, kind = "MPANIC" => d \notin cores
          PROVE  Kept
      <3>1. CASE reports' = reports
        BY <2>6, <3>1
      <3>2. CASE reports' # reports
        <4>1. /\ DOMAIN reports' = 1 .. Len(reports) + 1
              /\ DOMAIN reports = 1 .. Len(reports) /\ Len(reports) \in Nat
              /\ reports'[Len(reports) + 1].dump = d
              /\ reports'[Len(reports) + 1].kind = kind
          BY <2>1, <2>6, <3>2, RaiseType, TypeFacts
        <4>2. \A i \in DOMAIN reports' \ DOMAIN reports : i = Len(reports) + 1
          BY <4>1
        <4>3. QED
          BY <2>6, <4>1, <4>2
      <3>3. QED
        BY <3>1, <3>2
    <2>7. CASE (FindFolder \/ RaiseMpanic) /\ ~(UNCHANGED <<cores, reports>>)
      <3>1. job \in Jobs /\ job.dump \in Dumps
        BY <1>1, <2>7, HandleFacts, JobFacts, MessageFacts DEF Handle, Read, FindFolder, RaiseMpanic, At
      <3>2. CASE FindFolder
        <4>1. Raise("CRASH", job.dump) /\ UNCHANGED cores
          BY <2>7, <3>2 DEF FindFolder
        <4>2. QED
          BY <2>6, <3>1, <4>1
      <3>3. CASE RaiseMpanic
        <4>1. Raise("MPANIC", job.dump) /\ UNCHANGED cores /\ job.dump \notin cores
          BY <2>1, <3>3 DEF RaiseMpanic, CoresOK
        <4>2. QED
          BY <2>6, <3>1, <4>1
      <3>4. QED
        BY <2>7, <3>2, <3>3
    <2>8. CASE RaiseAbort
      <3>1. aborting \in Dumps /\ Raise("ABORT", aborting) /\ UNCHANGED cores
        BY <1>1, <2>1, <2>8, TypeFacts DEF RaiseAbort, Inv, LifeOK
      <3>2. QED
        BY <2>6, <3>1
    <2>9. QED
      BY <1>1, <2>2, <2>3, <2>4, <2>5, <2>7, <2>8, StopFacts
      DEF Next, Handle, DumpStarts, Read, HandleStart, RemoveMarker, CopyCore,
          Start, CheckDied, CreatePipe
  <1>2. ASSUME Inv, UNCHANGED vars PROVE Kept
    BY <1>2 DEF vars, modem, outcome
  <1>3. Inv /\ [Next]_vars => [Kept]_vars
    BY <1>1
  <1>4. QED
    BY <1>3, Invariant, PTL DEF Spec, CoreKept
=============================================================================
