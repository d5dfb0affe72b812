---------------------------- MODULE LogDirsProofs ----------------------------
(***************************************************************************)
(* Proofs about LogDirs, for every number of folders, every set of modes   *)
(* and every bound.                                                        *)
(*                                                                         *)
(* The numbers go round: the folder of an event that is a folders old has  *)
(* the number that comes a + 1 before the next one, modulo gmaxfiles       *)
(* (Numbers).  So the folder that a call recycles is not the one of an     *)
(* event that stays recent, whatever the place the folders are in and      *)
(* whether the call succeeds.  A late writer comes back to the folder of   *)
(* its own event (Writing), and of the events that recorded one folder     *)
(* only the newest can still be recent (Newest).                           *)
(***************************************************************************)
EXTENDS LogDirs, SequenceTheorems, TLAPS

Entries == [folder : Folders \cup {NoFolder}, age : 0 .. MaxFiles,
            ordered : BOOLEAN, late : BOOLEAN]
Counters == [Kinds -> -1 .. MaxFiles - 1]
Places   == {"EMMC", "SD"}
Jobs     == [left : 0 .. Packets, base : Places]

DiskOK == /\ DOMAIN disk \subseteq Folders
          /\ \A d \in DOMAIN disk : disk[d] \subseteq DOMAIN log

\* What may still write into a folder.
Writers == copies \cup service

Typing ==
  /\ counter \in Counters /\ root \in Places /\ sd \in BOOLEAN /\ log \in Seq(Entries)
  /\ DiskOK /\ job \in Jobs /\ Writers \subseteq (DOMAIN log) \X Folders /\ shown \in BOOLEAN
  /\ faults \in 0 .. MaxFaults

\* The number that comes after those of n folders, from number m on, is c.
Reaches(m, n, c) == m + n = c \/ m + n = c + MaxFiles

\* A folder of its kind was made age times since that of event e.
Follows(e) ==
  LET c == counter[log[e].folder.kind]
  IN  c # -1 /\ Reaches(log[e].folder.num, log[e].age + 1, c)

Numbers == \A e \in DOMAIN log : Recent(e) => Follows(e)

\* It comes from the event that recorded that folder.
Writing == \A w \in Writers : log[w[1]].late /\ log[w[1]].folder = w[2]

Newest ==
  \A e, o \in DOMAIN log :
    Recent(e) /\ o # e /\ log[o].folder = log[e].folder => o < e /\ ~Recent(o)

\* Why the files of event o are in the folder of event e.
Excused(o, e) ==
  \/ ~log[o].ordered
  \/ log[o].late /\ log[o].folder = log[e].folder /\ o < e /\ ~Recent(o)

Inv == Typing /\ Numbers /\ Writing /\ Newest /\ KeepsRecent /\ OwnFilesOnly
-----------------------------------------------------------------------------
(* Numbers, and what a call does to the log.                               *)

LEMMA NextNumberFacts ==
  ASSUME NEW n \in 0 .. MaxFiles - 1
  PROVE  /\ NextNumber(n) \in 0 .. MaxFiles - 1
         /\ NextNumber(n) = IF n + 1 = MaxFiles THEN 0 ELSE n + 1
  <1>0. MaxFiles \in Nat \ {0} /\ n \in Nat
    BY SizesAssumption
  <1>1. CASE n + 1 = MaxFiles
    <2>1. MaxFiles % MaxFiles = 0
      BY <1>0
    <2>2. QED
      BY <1>0, <1>1, <2>1 DEF NextNumber
  <1>2. CASE n + 1 # MaxFiles
    <2>1. n + 1 \in 0 .. MaxFiles - 1
      BY <1>0, <1>2
    <2>2. (n + 1) % MaxFiles = n + 1
      BY <1>0, <2>1
    <2>3. QED
      BY <1>2, <2>1, <2>2 DEF NextNumber
  <1>3. QED
    BY <1>1, <1>2

\* A call with number c, and the folder with number m that is age + 1 old after it.
LEMMA Turn ==
  ASSUME NEW c \in 0 .. MaxFiles - 1, NEW m \in 0 .. MaxFiles - 1, NEW age \in 0 .. MaxFiles,
         Reaches(m, age + 1, c), age + 1 < MaxFiles
  PROVE  /\ m # c
         /\ Reaches(m, age + 1 + 1, NextNumber(c))
  <1>0. MaxFiles \in Nat /\ c \in Int /\ m \in Int /\ age \in Int /\ m < MaxFiles /\ m >= 0
    BY SizesAssumption
  <1>1. m # c
    BY <1>0 DEF Reaches
  <1>2. Reaches(m, age + 1 + 1, NextNumber(c))
    <2>1. CASE c + 1 = MaxFiles
      BY <1>0, <2>1, NextNumberFacts DEF Reaches
    <2>2. CASE c + 1 # MaxFiles
      BY <1>0, <2>2, NextNumberFacts DEF Reaches
    <2>3. QED
      BY <2>1, <2>2
  <1>3. QED
    BY <1>1, <1>2

LEMMA NewTurn ==
  ASSUME NEW c \in 0 .. MaxFiles - 1
  PROVE  Reaches(c, 0 + 1, NextNumber(c))
  <1>1. c \in Int /\ MaxFiles \in Int
    BY SizesAssumption
  <1>2. QED
    BY <1>1, NextNumberFacts DEF Reaches

LEMMA LogFacts ==
  ASSUME Typing
  PROVE  /\ log \in Seq(Entries) /\ Len(log) \in Nat /\ DOMAIN log = 1 .. Len(log)
         /\ \A e \in DOMAIN log :
              /\ log[e] \in Entries
              /\ log[e].folder \in Folders \cup {NoFolder} /\ log[e].age \in 0 .. MaxFiles
              /\ log[e].ordered \in BOOLEAN /\ log[e].late \in BOOLEAN
  <1>1. log \in Seq(Entries)
    BY DEF Typing
  <1>2. \A e \in DOMAIN log : log[e] \in Entries
    BY <1>1, LenProperties, ElementOfSeq
  <1>3. QED
    BY <1>1, <1>2, LenProperties, ElementOfSeq DEF Entries

LEMMA FolderFacts ==
  ASSUME NEW f \in Folders
  PROVE  f.root \in Roots /\ f.kind \in Kinds /\ f.num \in 0 .. MaxFiles - 1 /\ f # NoFolder
  BY NoFolderAssumption DEF Folders

\* A log with the same events.
LEMMA SameEvents ==
  ASSUME Typing, NEW l, l = [e \in DOMAIN log |-> l[e]], \A e \in DOMAIN log : l[e] \in Entries
  PROVE  l \in Seq(Entries) /\ DOMAIN l = DOMAIN log /\ Len(l) = Len(log)
  <1>1. Len(log) \in Nat /\ DOMAIN log = 1 .. Len(log)
    BY LogFacts
  <1>2. l = [e \in 1 .. Len(log) |-> l[e]] /\ \A e \in 1 .. Len(log) : l[e] \in Entries
    BY <1>1
  <1>3. [e \in 1 .. Len(log) |-> l[e]] \in Seq(Entries)
    BY <1>1, <1>2, IsASeq
  <1>4. l \in Seq(Entries)
    BY <1>2, <1>3
  <1>5. QED
    BY <1>1, <1>2, <1>4, LenProperties

\* The age of e after a call of a mode of kind k.
Later(e, k) ==
  IF log[e].folder # NoFolder /\ log[e].folder.kind = k /\ log[e].age < MaxFiles
  THEN log[e].age + 1 ELSE log[e].age

LEMMA AgedFacts ==
  ASSUME Typing, NEW mode
  PROVE  /\ Aged(mode) \in Seq(Entries) /\ DOMAIN Aged(mode) = DOMAIN log
         /\ Len(Aged(mode)) = Len(log)
         /\ \A e \in DOMAIN log :
              /\ Aged(mode)[e].folder = log[e].folder /\ Aged(mode)[e].ordered = log[e].ordered
              /\ Aged(mode)[e].late = log[e].late
              /\ Aged(mode)[e].age = Later(e, KindOf(mode))
  <1>1. ASSUME NEW e \in DOMAIN log
        PROVE  /\ Aged(mode)[e] \in Entries
               /\ Aged(mode)[e].folder = log[e].folder /\ Aged(mode)[e].ordered = log[e].ordered
               /\ Aged(mode)[e].late = log[e].late
               /\ Aged(mode)[e].age = Later(e, KindOf(mode))
    <2>1. PICK a \in 0 .. MaxFiles : a = Later(e, KindOf(mode))
      BY LogFacts, SizesAssumption DEF Later
    <2>2. Aged(mode)[e] = [log[e] EXCEPT !.age = a]
      BY <2>1, LogFacts DEF Aged, Later, Entries
    <2>3. QED
      BY <2>1, <2>2, LogFacts DEF Entries
  <1>2. Aged(mode) = [e \in DOMAIN log |-> Aged(mode)[e]]
    BY DEF Aged
  <1>3. QED
    BY <1>1, <1>2, SameEvents

LEMMA ExpiredFacts ==
  ASSUME Typing, NEW es
  PROVE  /\ Expired(es) \in Seq(Entries) /\ DOMAIN Expired(es) = DOMAIN log
         /\ Len(Expired(es)) = Len(log)
         /\ \A e \in DOMAIN log :
              /\ Expired(es)[e].folder = log[e].folder /\ Expired(es)[e].ordered = log[e].ordered
              /\ Expired(es)[e].late = log[e].late
              /\ Expired(es)[e].age = IF e \in es THEN MaxFiles ELSE log[e].age
  <1>1. ASSUME NEW e \in DOMAIN log
        PROVE  /\ Expired(es)[e] \in Entries
               /\ Expired(es)[e].folder = log[e].folder /\ Expired(es)[e].ordered = log[e].ordered
               /\ Expired(es)[e].late = log[e].late
               /\ Expired(es)[e].age = IF e \in es THEN MaxFiles ELSE log[e].age
    <2>1. PICK a \in 0 .. MaxFiles : a = IF e \in es THEN MaxFiles ELSE log[e].age
      BY LogFacts, SizesAssumption
    <2>2. Expired(es)[e] = [log[e] EXCEPT !.age = a]
      BY <2>1, LogFacts DEF Expired, Entries
    <2>3. QED
      BY <2>1, <2>2, LogFacts DEF Entries
  <1>2. Expired(es) = [e \in DOMAIN log |-> Expired(es)[e]]
    BY DEF Expired
  <1>3. QED
    BY <1>1, <1>2, SameEvents
-----------------------------------------------------------------------------
(* A call, and the folders.                                                *)

LEMMA DiskFacts ==
  ASSUME NEW d
  PROVE  /\ DOMAIN FreshDir(d) = DOMAIN disk \cup {d} /\ FreshDir(d)[d] = {}
         /\ \A f \in DOMAIN disk \ {d} : FreshDir(d)[f] = disk[f]
         /\ DOMAIN Without(d) = DOMAIN disk \ {d}
         /\ \A f \in DOMAIN disk \ {d} : Without(d)[f] = disk[f]
  <1>1. DOMAIN Without(d) = DOMAIN disk \ {d} /\ \A f \in DOMAIN disk \ {d} : Without(d)[f] = disk[f]
    BY DEF Without
  <1>2. QED
    BY <1>1 DEF FreshDir, With

LEMMA WrittenFacts ==
  ASSUME NEW c, NEW n
  PROVE  /\ DOMAIN Written(c, n) = DOMAIN c
         /\ \A f \in DOMAIN c : f # n => Written(c, n)[f] = c[f]
         /\ n \in DOMAIN c => Written(c, n)[n] = c[n] \cup {This}
  <1>1. CASE n \in DOMAIN c
    BY <1>1 DEF Written, With
  <1>2. CASE n \notin DOMAIN c
    BY <1>2 DEF Written
  <1>3. QED
    BY <1>1, <1>2

LEMMA CounterFacts ==
  ASSUME Typing, NEW mode, KindOf(mode) \in Kinds
  PROVE  /\ ReadFile(mode) \in 0 .. MaxFiles - 1
         /\ [counter EXCEPT ![KindOf(mode)] = NextNumber(ReadFile(mode))] \in Counters
         /\ [counter EXCEPT ![KindOf(mode)] = ReadFile(mode)] \in Counters
         /\ \A k \in Kinds : counter[k] \in -1 .. MaxFiles - 1
         /\ counter[KindOf(mode)] # -1 => ReadFile(mode) = counter[KindOf(mode)]
  <1>0. MaxFiles \in Nat \ {0}
    BY SizesAssumption
  <1>1. \A k \in Kinds : counter[k] \in -1 .. MaxFiles - 1
    BY DEF Typing, Counters
  <1>2. ReadFile(mode) \in 0 .. MaxFiles - 1
    BY <1>0, <1>1 DEF ReadFile
  <1>3. NextNumber(ReadFile(mode)) \in 0 .. MaxFiles - 1
    BY <1>2, NextNumberFacts
  <1>4. \A n \in 0 .. MaxFiles - 1 : n \in -1 .. MaxFiles - 1
    BY <1>0
  <1>5. QED
    BY <1>1, <1>2, <1>3, <1>4 DEF ReadFile, Typing, Counters

\* A call makes the folders of its kind older; it recycles none that is recent after it.
LEMMA CallFacts ==
  ASSUME Typing, Numbers, NEW mode, KindOf(mode) \in Kinds,
         counter' = [counter EXCEPT ![KindOf(mode)] = NextNumber(ReadFile(mode))],
         NEW e \in DOMAIN log, log'[e].folder = log[e].folder,
         log'[e].age = Later(e, KindOf(mode)), Recent(e)'
  PROVE  /\ Recent(e) /\ Follows(e)'
         /\ log[e].folder.kind = KindOf(mode) => log[e].folder.num # ReadFile(mode)
  <1> DEFINE k == KindOf(mode)
             c == ReadFile(mode)
  <1>0. MaxFiles \in Nat \ {0} /\ counter \in Counters
    BY SizesAssumption DEF Typing
  <1>1. PICK f \in Folders : f = log[e].folder /\ f = log'[e].folder
    BY LogFacts DEF Recent
  <1>2. f.kind \in Kinds /\ f.num \in 0 .. MaxFiles - 1 /\ f # NoFolder
    BY <1>1, FolderFacts
  <1>3. PICK a \in 0 .. MaxFiles : a = log[e].age
    BY LogFacts
  <1>4. log'[e].age < MaxFiles
    BY DEF Recent
  <1>5. Recent(e) /\ Follows(e)
    BY <1>0, <1>1, <1>2, <1>3, <1>4 DEF Later, Recent, Numbers
  <1>6. counter[f.kind] # -1 /\ Reaches(f.num, a + 1, counter[f.kind])
    BY <1>1, <1>3, <1>5 DEF Follows
  <1>7. CASE f.kind = k
    <2>1. a + 1 < MaxFiles /\ log'[e].age = a + 1
      BY <1>0, <1>1, <1>2, <1>3, <1>4, <1>5, <1>7 DEF Later, Recent
    <2>2. c \in 0 .. MaxFiles - 1 /\ c = counter[k] /\ counter'[k] = NextNumber(c)
      BY <1>0, <1>6, <1>7, CounterFacts DEF Counters
    <2>3. f.num # c /\ Reaches(f.num, a + 1 + 1, NextNumber(c))
      BY <1>2, <1>6, <1>7, <2>1, <2>2, Turn
    <2>4. NextNumber(c) \in 0 .. MaxFiles - 1
      BY <2>2, NextNumberFacts
    <2>5. NextNumber(c) # -1
      BY <1>0, <2>4
    <2>6. Follows(e)'
      BY <1>1, <1>7, <2>1, <2>2, <2>3, <2>5 DEF Follows
    <2>7. QED
      BY <1>1, <1>5, <2>3, <2>6
  <1>8. CASE f.kind # k
    <2>1. log'[e].age = a /\ counter'[f.kind] = counter[f.kind]
      BY <1>0, <1>1, <1>2, <1>3, <1>8 DEF Later, Counters
    <2>2. Follows(e)'
      BY <1>1, <1>6, <2>1 DEF Follows
    <2>3. QED
      BY <1>1, <1>5, <1>8, <2>2
  <1>9. QED
    BY <1>7, <1>8

\* A report: folder d is made, and the event is recorded with folder n of the same number.
LEMMA ReportInv ==
  ASSUME Inv, NEW mode, NEW d \in Folders, Finds(mode, d),
         NEW n \in Folders, n.kind = d.kind, n.num = d.num,
         NEW r \in {NoFolder, n}, NEW ordered \in BOOLEAN, NEW late \in BOOLEAN,
         disk' = FreshDir(d) \/ disk' = Written(FreshDir(d), n),
         ordered /\ r # NoFolder => n = d /\ disk' = Written(FreshDir(d), n),
         log' = Append(Aged(mode), Entry(r, ordered, late)),
         \/ Writers' \subseteq Writers
         \/ late /\ r = d /\ Writers' \subseteq Writers \cup {<<This, d>>},
         job' \in Jobs, UNCHANGED <<sd, shown, faults>>
  PROVE  Inv'
  <1> DEFINE k == KindOf(mode)
             c == ReadFile(mode)
  <1>0. Typing /\ Numbers /\ Writing /\ Newest /\ KeepsRecent /\ OwnFilesOnly /\ DiskOK
    BY DEF Inv, Typing
  <1>1. d.kind = k /\ d.num = c /\ k \in Kinds
    BY FolderFacts DEF Finds, Path
  <1>2. PICK len \in Nat : len = Len(log) /\ DOMAIN log = 1 .. len
    BY <1>0, LogFacts
  <1>3. Entry(r, ordered, late) \in Entries
    BY SizesAssumption DEF Entry, Entries
  <1>4. /\ log' \in Seq(Entries) /\ DOMAIN log' = 1 .. len + 1
        /\ \A e \in 1 .. len : log'[e] = Aged(mode)[e]
        /\ log'[len + 1] = Entry(r, ordered, late)
    BY <1>0, <1>2, <1>3, AgedFacts, AppendProperties, LenProperties
  <1>5. \A e \in DOMAIN log :
          /\ e \in DOMAIN log' /\ e # len + 1
          /\ log'[e].folder = log[e].folder /\ log'[e].ordered = log[e].ordered
          /\ log'[e].late = log[e].late /\ log'[e].age = Later(e, k)
    BY <1>0, <1>2, <1>4, AgedFacts
  <1>6. /\ len + 1 \in DOMAIN log' /\ This = len + 1
        /\ log'[len + 1].folder = r /\ log'[len + 1].age = 0
        /\ log'[len + 1].ordered = ordered /\ log'[len + 1].late = late
    BY <1>2, <1>4 DEF Entry, This
  <1>7. \A e \in DOMAIN log' : e \in DOMAIN log \/ e = len + 1
    BY <1>2, <1>4
  <1>8. counter' = [counter EXCEPT ![k] = NextNumber(c)] /\ root' \in Places
    BY DEF Finds, SdcardPaths, Places
  \* The disk.
  <1>9. PICK g : g = FreshDir(d)
    OBVIOUS
  <1>10. DOMAIN g = DOMAIN disk \cup {d} /\ g[d] = {} /\ \A f \in DOMAIN disk \ {d} : g[f] = disk[f]
    BY <1>9, DiskFacts
  <1>11. /\ DOMAIN disk' = DOMAIN disk \cup {d}
         /\ \A f \in DOMAIN disk : f # d /\ f # n => disk'[f] = disk[f]
         /\ \A f \in DOMAIN disk' : disk'[f] \subseteq (IF f = d THEN {} ELSE disk[f]) \cup {len + 1}
         /\ n = d /\ disk' = Written(FreshDir(d), n) => disk'[d] = {len + 1}
    <2>1. CASE disk' = g
      <3>1. disk' = Written(FreshDir(d), n) /\ n = d => disk'[d] = {len + 1}
        BY <1>6, <1>9, <1>10, WrittenFacts
      <3>2. QED
        BY <1>10, <2>1, <3>1
    <2>2. CASE disk' = Written(g, n)
      <3>1. /\ DOMAIN disk' = DOMAIN g
            /\ \A f \in DOMAIN g : f # n => disk'[f] = g[f]
            /\ n \in DOMAIN g => disk'[n] = g[n] \cup {len + 1}
        BY <1>6, <2>2, WrittenFacts
      <3>2. \A f \in DOMAIN disk' : disk'[f] \subseteq g[f] \cup {len + 1}
        BY <3>1
      <3>3. QED
        BY <1>10, <3>1, <3>2
    <2>3. QED
      BY <1>9, <2>1, <2>2
  <1>12. n = d /\ disk' = Written(FreshDir(d), n) => disk'[d] = {len + 1}
    BY <1>11
  \* The parts of the invariant.
  <1>13. Typing'
    <2>1. counter' \in Counters
      BY <1>0, <1>1, <1>8, CounterFacts
    <2>2. DiskOK'
      <3>1. DOMAIN disk' \subseteq Folders
        BY <1>0, <1>11 DEF DiskOK
      <3>2. \A f \in DOMAIN disk' : disk'[f] \subseteq DOMAIN log'
        BY <1>0, <1>5, <1>6, <1>11 DEF DiskOK
      <3>3. QED
        BY <3>1, <3>2 DEF DiskOK
    <2>3. Writers' \subseteq (DOMAIN log') \X Folders
      <3>1. Writers \subseteq (DOMAIN log) \X Folders
        BY <1>0 DEF Typing
      <3>2. <<This, d>> \in (DOMAIN log') \X Folders
        BY <1>6
      <3>3. (DOMAIN log) \X Folders \subseteq (DOMAIN log') \X Folders
        BY <1>5
      <3>4. QED
        BY <3>1, <3>2, <3>3
    <2>4. QED
      BY <1>0, <1>4, <1>8, <2>1, <2>2, <2>3 DEF Typing
  <1>14. Numbers'
    <2>1. ASSUME NEW e \in DOMAIN log', Recent(e)' PROVE Follows(e)'
      <3>1. CASE e \in DOMAIN log
        BY <1>0, <1>1, <1>5, <1>8, <2>1, <3>1, CallFacts
      <3>2. CASE e = len + 1
        <4>1. r = n
          BY <1>6, <2>1, <3>2 DEF Recent
        <4>2. c \in 0 .. MaxFiles - 1 /\ counter'[k] = NextNumber(c)
          BY <1>0, <1>1, <1>8, CounterFacts DEF Typing, Counters
        <4>3. NextNumber(c) # -1 /\ Reaches(c, 0 + 1, NextNumber(c))
          <5>1. NextNumber(c) \in 0 .. MaxFiles - 1
            BY <4>2, NextNumberFacts
          <5>2. NextNumber(c) # -1
            BY <5>1, SizesAssumption
          <5>3. QED
            BY <4>2, <5>2, NewTurn
        <4>4. log'[e].folder.num = c /\ log'[e].folder.kind = k /\ log'[e].age = 0
          BY <1>1, <1>6, <3>2, <4>1
        <4>5. QED
          BY <4>2, <4>3, <4>4 DEF Follows
      <3>3. QED
        BY <1>7, <3>1, <3>2
    <2>2. QED
      BY <2>1 DEF Numbers
  <1>15. Writing'
    <2>1. SUFFICES ASSUME NEW w \in Writers' PROVE log'[w[1]].late /\ log'[w[1]].folder = w[2]
      BY DEF Writing
    <2>2. CASE w \in Writers
      <3>1. w[1] \in DOMAIN log /\ log[w[1]].late /\ log[w[1]].folder = w[2]
        BY <1>0, <2>2 DEF Typing, Writing
      <3>2. QED
        BY <1>5, <3>1
    <2>3. CASE w \notin Writers
      <3>1. w = <<len + 1, d>> /\ late /\ r = d
        BY <1>6, <2>1, <2>3
      <3>2. w[1] = len + 1 /\ w[2] = d
        BY <3>1
      <3>3. QED
        BY <1>6, <3>1, <3>2
    <2>4. QED
      BY <2>2, <2>3
  \* An event that stays recent, and the new one, have folders that differ.
  <1>20. ASSUME NEW e \in DOMAIN log, Recent(e)'
         PROVE  Recent(e) /\ (log[e].folder.kind = k => log[e].folder.num # c)
    BY <1>0, <1>1, <1>5, <1>8, <1>20, CallFacts
  <1>21. Newest'
    <2>1. ASSUME NEW e \in DOMAIN log', NEW o \in DOMAIN log', Recent(e)', o # e,
                 log'[o].folder = log'[e].folder
          PROVE  o < e /\ ~Recent(o)'
      <3>1. CASE e \in DOMAIN log /\ o \in DOMAIN log
        <4>1. Recent(e) /\ log[o].folder = log[e].folder
          BY <1>5, <1>20, <2>1, <3>1
        <4>2. o < e /\ ~Recent(o)
          BY <1>0, <2>1, <3>1, <4>1 DEF Newest
        <4>3. QED
          BY <1>20, <3>1, <4>2
      <3>2. CASE e = len + 1 /\ o \in DOMAIN log
        <4>1. log[o].folder.kind = k /\ log[o].folder.num = c
          BY <1>1, <1>5, <1>6, <2>1, <3>2 DEF Recent
        <4>2. ~Recent(o)'
          BY <1>20, <3>2, <4>1
        <4>3. o < e
          BY <1>2, <3>2
        <4>4. QED
          BY <4>2, <4>3
      <3>3. CASE o = len + 1 /\ e \in DOMAIN log
        <4>1. log[e].folder # NoFolder /\ log[e].folder = r
          BY <1>5, <1>6, <2>1, <3>3 DEF Recent
        <4>2. log[e].folder.kind = k /\ log[e].folder.num = c
          BY <1>1, <4>1
        <4>3. QED
          BY <1>20, <2>1, <3>3, <4>2
      <3>4. QED
        BY <1>7, <2>1, <3>1, <3>2, <3>3
    <2>2. QED
      BY <2>1 DEF Newest
  \* A recent event has another folder than those of this call.
  <1>16. ASSUME NEW e \in DOMAIN log, Recent(e)', log'[e].ordered
         PROVE  /\ Recent(e) /\ log[e].ordered /\ HasFiles(e)
                /\ log[e].folder \in DOMAIN disk' /\ disk'[log[e].folder] = disk[log[e].folder]
    <2>1. Recent(e) /\ (log[e].folder.kind = k => log[e].folder.num # c)
      BY <1>16, <1>20
    <2>2. log[e].folder # d /\ log[e].folder # n
      BY <1>1, <2>1
    <2>3. log[e].ordered /\ HasFiles(e)
      BY <1>0, <1>5, <1>16, <2>1 DEF KeepsRecent
    <2>4. QED
      BY <1>11, <2>1, <2>2, <2>3 DEF HasFiles
  <1>17. KeepsRecent'
    <2>1. ASSUME NEW e \in DOMAIN log', Recent(e)', log'[e].ordered PROVE HasFiles(e)'
      <3>1. CASE e \in DOMAIN log
        BY <1>5, <1>16, <2>1, <3>1 DEF HasFiles
      <3>2. CASE e = len + 1
        <4>1. ordered /\ r # NoFolder
          BY <1>6, <2>1, <3>2 DEF Recent
        <4>2. r = d /\ disk'[d] = {len + 1}
          BY <1>12, <4>1
        <4>3. QED
          BY <1>6, <1>11, <3>2, <4>2 DEF HasFiles
      <3>3. QED
        BY <1>7, <3>1, <3>2
    <2>2. QED
      BY <2>1 DEF KeepsRecent
  <1>18. OwnFilesOnly'
    <2>1. ASSUME NEW e \in DOMAIN log', Recent(e)', log'[e].ordered,
                 NEW o \in disk'[log'[e].folder] \ {e}
          PROVE  Excused(o, e)'
      <3>1. CASE e \in DOMAIN log
        <4>1. /\ Recent(e) /\ log[e].ordered /\ log[e].folder \in DOMAIN disk
              /\ o \in disk[log[e].folder] \ {e}
          BY <1>5, <1>16, <2>1, <3>1 DEF HasFiles
        <4>2. o \in DOMAIN log
          BY <1>0, <4>1 DEF DiskOK
        <4>3. Excused(o, e)
          BY <1>0, <3>1, <4>1 DEF OwnFilesOnly, Excused
        <4>4. QED
          BY <1>5, <1>20, <3>1, <4>2, <4>3 DEF Excused
      <3>2. CASE e = len + 1
        <4>1. ordered /\ r # NoFolder
          BY <1>6, <2>1, <3>2 DEF Recent
        <4>2. r = d /\ disk'[d] = {len + 1}
          BY <1>12, <4>1
        <4>3. QED
          BY <1>6, <2>1, <3>2, <4>2
      <3>3. QED
        BY <1>7, <3>1, <3>2
    <2>2. QED
      BY <2>1 DEF OwnFilesOnly, Excused
  <1>19. QED
    BY <1>13, <1>14, <1>15, <1>17, <1>18, <1>21 DEF Inv
-----------------------------------------------------------------------------
(* The other steps.                                                        *)

\* What raises no event: the folder of an event that stays recent is left alone, but for
\* what a late writer brings to it.
LEMMA StaysInv ==
  ASSUME Inv, Typing', DOMAIN log' = DOMAIN log, Writers' \subseteq Writers,
         \A e \in DOMAIN log :
           /\ log'[e].folder = log[e].folder /\ log'[e].ordered = log[e].ordered
           /\ log'[e].late = log[e].late,
         \A e \in DOMAIN log : Recent(e)' =>
           /\ Recent(e) /\ Follows(e)'
           /\ log[e].folder \in DOMAIN disk =>
                /\ log[e].folder \in DOMAIN disk'
                /\ disk[log[e].folder] \subseteq disk'[log[e].folder]
                /\ \A o \in disk'[log[e].folder] \ disk[log[e].folder] :
                     o \in DOMAIN log /\ log[o].late /\ log[o].folder = log[e].folder
  PROVE  Inv'
  <1>0. Typing /\ Numbers /\ Writing /\ Newest /\ KeepsRecent /\ OwnFilesOnly /\ DiskOK
    BY DEF Inv, Typing
  <1>1. Numbers'
    BY DEF Numbers
  <1>2. Writing'
    <2>1. \A w \in Writers : w[1] \in DOMAIN log
      BY <1>0 DEF Typing
    <2>2. \A w \in Writers' : log'[w[1]].late /\ log'[w[1]].folder = w[2]
      BY <1>0, <2>1 DEF Writing
    <2>3. QED
      BY <2>2 DEF Writing
  <1>3. Newest'
    BY <1>0 DEF Newest
  <1>4. ASSUME NEW e \in DOMAIN log, Recent(e)', log'[e].ordered
        PROVE  /\ log'[e].folder = log[e].folder /\ HasFiles(e)'
               /\ \A o \in disk'[log[e].folder] \ {e} : o \in DOMAIN log /\ Excused(o, e)
    <2>1. Recent(e) /\ log[e].ordered
      BY <1>4
    <2>2. HasFiles(e)
      BY <1>0, <2>1 DEF KeepsRecent
    <2>3. /\ log[e].folder \in DOMAIN disk'
          /\ disk[log[e].folder] \subseteq disk'[log[e].folder]
          /\ \A o \in disk'[log[e].folder] \ disk[log[e].folder] :
               o \in DOMAIN log /\ log[o].late /\ log[o].folder = log[e].folder
      BY <1>4, <2>2 DEF HasFiles
    <2>4. ASSUME NEW o \in disk'[log[e].folder] \ {e} PROVE o \in DOMAIN log /\ Excused(o, e)
      <3>1. CASE o \in disk[log[e].folder]
        <4>1. o \in DOMAIN log
          BY <1>0, <2>2, <3>1 DEF DiskOK, HasFiles
        <4>2. QED
          BY <1>0, <2>1, <2>4, <3>1, <4>1 DEF OwnFilesOnly, Excused
      <3>2. CASE o \notin disk[log[e].folder]
        <4>1. o \in DOMAIN log /\ log[o].late /\ log[o].folder = log[e].folder
          BY <2>3, <2>4, <3>2
        <4>2. o < e /\ ~Recent(o)
          BY <1>0, <2>1, <2>4, <4>1 DEF Newest
        <4>3. QED
          BY <4>1, <4>2 DEF Excused
      <3>3. QED
        BY <3>1, <3>2
    <2>5. HasFiles(e)'
      BY <2>2, <2>3 DEF HasFiles
    <2>6. QED
      BY <2>4, <2>5
  <1>5. KeepsRecent'
    BY <1>4 DEF KeepsRecent
  <1>6. OwnFilesOnly'
    <2>1. ASSUME NEW e \in DOMAIN log', Recent(e)', log'[e].ordered,
                 NEW o \in disk'[log'[e].folder] \ {e}
          PROVE  Excused(o, e)'
      <3>1. o \in DOMAIN log /\ Excused(o, e)
        BY <1>4, <2>1
      <3>2. QED
        BY <2>1, <3>1 DEF Excused
    <2>2. QED
      BY <2>1 DEF OwnFilesOnly, Excused
  <1>7. QED
    BY <1>1, <1>2, <1>3, <1>5, <1>6 DEF Inv

\* The same, when the log and the counters do not change.
LEMMA QuietInv ==
  ASSUME Inv, UNCHANGED <<log, counter>>, Writers' \subseteq Writers, root' \in Places,
         sd' \in BOOLEAN, shown' \in BOOLEAN, job' \in Jobs, faults' \in 0 .. MaxFaults,
         DOMAIN disk \subseteq DOMAIN disk', DiskOK',
         \A d \in DOMAIN disk :
           /\ disk[d] \subseteq disk'[d]
           /\ \A o \in disk'[d] \ disk[d] : o \in DOMAIN log /\ log[o].late /\ log[o].folder = d
  PROVE  Inv'
  <1>0. Typing /\ Numbers
    BY DEF Inv, Typing
  <1>1. Typing'
    BY <1>0 DEF Typing
  <1>2. \A e \in DOMAIN log : Recent(e)' => Recent(e) /\ Follows(e)'
    BY <1>0 DEF Numbers, Recent, Follows
  <1>3. QED
    BY <1>1, <1>2, StaysInv

LEMMA ExpiredInv ==
  ASSUME Inv, NEW es, log' = Expired(es), Writers' \subseteq Writers, root' \in Places,
         sd' \in BOOLEAN, shown' \in BOOLEAN, job' \in Jobs, faults' \in 0 .. MaxFaults, counter' \in Counters,
         \A e \in DOMAIN log \ es :
           log[e].folder # NoFolder => counter'[log[e].folder.kind] = counter[log[e].folder.kind],
         DOMAIN disk' \subseteq DOMAIN disk,
         \A d \in DOMAIN disk' : disk'[d] = disk[d],
         \A e \in DOMAIN log \ es :
           log[e].folder \in DOMAIN disk /\ log[e].folder # NoFolder => log[e].folder \in DOMAIN disk'
  PROVE  Inv'
  <1>0. Typing /\ Numbers /\ DiskOK /\ MaxFiles \in Nat
    BY SizesAssumption DEF Inv, Typing
  <1>1. /\ log' \in Seq(Entries) /\ DOMAIN log' = DOMAIN log
        /\ \A e \in DOMAIN log :
              /\ log'[e].folder = log[e].folder /\ log'[e].ordered = log[e].ordered
              /\ log'[e].late = log[e].late
              /\ log'[e].age = IF e \in es THEN MaxFiles ELSE log[e].age
    BY <1>0, ExpiredFacts
  <1>2. DiskOK'
    BY <1>0, <1>1 DEF DiskOK
  <1>3. Typing'
    BY <1>0, <1>1, <1>2 DEF Typing
  <1>4. ASSUME NEW e \in DOMAIN log, Recent(e)'
        PROVE  e \notin es /\ Recent(e) /\ Follows(e)' /\ log[e].folder # NoFolder
    <2>1. e \notin es
      BY <1>0, <1>1, <1>4 DEF Recent
    <2>2. Recent(e) /\ log[e].folder # NoFolder
      BY <1>1, <1>4, <2>1 DEF Recent
    <2>3. Follows(e)
      BY <1>0, <2>2 DEF Numbers
    <2>4. QED
      BY <1>1, <2>1, <2>2, <2>3 DEF Follows
  <1>5. QED
    BY <1>1, <1>3, <1>4, StaysInv

LEMMA FailsInv ==
  ASSUME Inv, NEW mode \in Modes, ReportFails(mode)
  PROVE  Inv'
  <1> DEFINE k == KindOf(mode)
             c == ReadFile(mode)
             d == Path(SdcardPaths(mode), mode, c)
  <1>0. Typing /\ Numbers /\ DiskOK
    BY DEF Inv, Typing
  <1>1. k \in Kinds /\ d.kind = k /\ d.num = c
    BY DEF Kinds, Path
  <1>2. /\ root' \in Places /\ sd' \in BOOLEAN /\ job' \in Jobs /\ Writers' = Writers
        /\ faults' \in 0 .. MaxFaults /\ shown' \in BOOLEAN
    <2>1. root' \in Places
      BY DEF ReportFails, FindFails, SdcardPaths, Places
    <2>2. job' \in Jobs
      BY SizesAssumption DEF ReportFails, NoJob, Jobs, Places
    <2>3. faults' \in 0 .. MaxFaults
      BY <1>0, SizesAssumption DEF ReportFails, Fault, Typing
    <2>4. QED
      BY <1>0, <2>1, <2>2, <2>3 DEF ReportFails, FindFails, Typing, Writers
  <1>3. CASE UNCHANGED <<counter, disk, log>>
    <2>1. DiskOK'
      BY <1>0, <1>3 DEF DiskOK
    <2>2. QED
      BY <1>2, <1>3, <2>1, QuietInv
  <1>4. CASE counter' = [counter EXCEPT ![k] = c] /\ UNCHANGED <<disk, log>>
    <2>1. counter \in Counters /\ counter' \in Counters
      BY <1>0, <1>1, <1>4, CounterFacts DEF Typing
    <2>2. Typing'
      BY <1>0, <1>2, <1>4, <2>1 DEF Typing, DiskOK
    <2>3. \A j \in Kinds : counter[j] # -1 => counter'[j] = counter[j]
      BY <1>0, <1>1, <1>4, <2>1, CounterFacts DEF Counters
    <2>4. \A e \in DOMAIN log : Recent(e)' => Recent(e) /\ Follows(e)'
      <3>1. ASSUME NEW e \in DOMAIN log, Recent(e)' PROVE Recent(e) /\ Follows(e)'
        <4>1. Recent(e) /\ log[e].folder \in Folders
          BY <1>0, <1>4, <3>1, LogFacts DEF Recent
        <4>2. Follows(e) /\ log[e].folder.kind \in Kinds
          BY <1>0, <4>1, FolderFacts DEF Numbers
        <4>3. QED
          BY <1>4, <2>3, <4>1, <4>2 DEF Follows
      <3>2. QED
        BY <3>1
    <2>5. QED
      BY <1>2, <1>4, <2>2, <2>4, StaysInv
  <1>5. CASE /\ counter' = [counter EXCEPT ![k] = NextNumber(c)]
             /\ (disk' = disk \/ disk' = Without(d)) /\ log' = Aged(mode)
    <2>1. /\ log' \in Seq(Entries) /\ DOMAIN log' = DOMAIN log
          /\ \A e \in DOMAIN log :
              /\ log'[e].folder = log[e].folder /\ log'[e].ordered = log[e].ordered
              /\ log'[e].late = log[e].late /\ log'[e].age = Later(e, k)
      BY <1>0, <1>5, AgedFacts
    <2>2. /\ DOMAIN disk' \subseteq DOMAIN disk /\ \A f \in DOMAIN disk' : disk'[f] = disk[f]
          /\ \A f \in DOMAIN disk : f # d => f \in DOMAIN disk'
      <3>1. PICK f \in {d} : disk' = disk \/ disk' = Without(f)
        BY <1>5
      <3>2. CASE disk' = Without(f)
        BY <3>1, <3>2, DiskFacts
      <3>3. CASE disk' = disk
        BY <3>3
      <3>4. QED
        BY <3>1, <3>2, <3>3
    <2>3. Typing'
      <3>1. counter' \in Counters
        BY <1>0, <1>1, <1>5, CounterFacts
      <3>2. DiskOK'
        BY <1>0, <2>1, <2>2 DEF DiskOK
      <3>3. QED
        BY <1>0, <1>2, <2>1, <3>1, <3>2 DEF Typing
    <2>4. \A e \in DOMAIN log : Recent(e)' => Recent(e) /\ Follows(e)' /\ log[e].folder # d
      <3>1. ASSUME NEW e \in DOMAIN log, Recent(e)'
            PROVE  Recent(e) /\ Follows(e)' /\ log[e].folder # d
        BY <1>0, <1>1, <1>5, <2>1, <3>1, CallFacts
      <3>2. QED
        BY <3>1
    <2>5. QED
      BY <1>2, <2>1, <2>2, <2>3, <2>4, StaysInv
  <1>6. QED
    BY <1>3, <1>4, <1>5 DEF ReportFails, FindFails

\* What a late writer writes.
LEMMA WrittenByInv ==
  ASSUME Inv, NEW w \in Writers, disk' = WrittenBy(w) \/ disk' = MadeAgain(w),
         Writers' \subseteq Writers, UNCHANGED <<counter, root, sd, log, job, shown, faults>>
  PROVE  Inv'
  <1>0. Typing /\ Writing /\ DiskOK
    BY DEF Inv, Typing
  <1>1. PICK o \in DOMAIN log, d \in Folders : w = <<o, d>>
    BY <1>0 DEF Typing
  <1>2. w[1] = o /\ w[2] = d /\ log[o].late /\ log[o].folder = d
    BY <1>0, <1>1 DEF Writing
  <1>3. /\ DOMAIN disk \subseteq DOMAIN disk' /\ DOMAIN disk' \subseteq DOMAIN disk \cup {d}
        /\ \A f \in DOMAIN disk' : f # d => disk'[f] = disk[f]
        /\ d \in DOMAIN disk => disk'[d] = disk[d] \cup {o}
        /\ d \notin DOMAIN disk /\ d \in DOMAIN disk' => disk'[d] = {o}
    <2>1. CASE d \in DOMAIN disk
      <3>1. disk' = With(disk, d, disk[d] \cup {o})
        BY <1>2, <2>1 DEF WrittenBy, MadeAgain
      <3>2. QED
        BY <2>1, <3>1 DEF With
    <2>2. CASE d \notin DOMAIN disk
      <3>1. disk' = disk \/ disk' = With(disk, d, {o})
        BY <1>2, <2>2 DEF WrittenBy, MadeAgain
      <3>2. QED
        BY <2>2, <3>1 DEF With
    <2>3. QED
      BY <2>1, <2>2
  <1>4. DiskOK'
    BY <1>0, <1>3 DEF DiskOK
  <1>5. /\ root' \in Places /\ sd' \in BOOLEAN /\ job' \in Jobs /\ faults' \in 0 .. MaxFaults
        /\ shown' \in BOOLEAN
    BY <1>0 DEF Typing
  <1>6. \A f \in DOMAIN disk :
          /\ disk[f] \subseteq disk'[f]
          /\ \A x \in disk'[f] \ disk[f] : x \in DOMAIN log /\ log[x].late /\ log[x].folder = f
    BY <1>2, <1>3
  <1>7. QED
    BY <1>3, <1>4, <1>5, <1>6, QuietInv

LEMMA LateInv ==
  ASSUME Inv, LateCopy \/ ServiceWrites \/ ServiceShown \/ ServiceEnds
  PROVE  Inv'
  <1>1. CASE LateCopy
    <2>1. PICK w \in copies : copies' \in {copies, copies \ {w}} /\ disk' = WrittenBy(w)
      BY <1>1 DEF LateCopy
    <2>2. w \in Writers /\ Writers' \subseteq Writers
      BY <1>1, <2>1 DEF LateCopy, Writers
    <2>3. QED
      BY <1>1, <2>1, <2>2, WrittenByInv DEF LateCopy
  <1>2. CASE ServiceWrites
    <2>1. PICK w \in service : disk' \in {WrittenBy(w), MadeAgain(w)}
      BY <1>2 DEF ServiceWrites
    <2>2. w \in Writers /\ Writers' \subseteq Writers
      BY <1>2 DEF ServiceWrites, Writers
    <2>3. QED
      BY <1>2, <2>1, <2>2, WrittenByInv DEF ServiceWrites
  <1>3. CASE ServiceShown \/ ServiceEnds
    <2>1. /\ Writers' \subseteq Writers /\ shown' \in BOOLEAN
          /\ UNCHANGED <<counter, root, sd, disk, log, job, faults>>
      BY <1>3 DEF ServiceShown, ServiceEnds, Writers
    <2>2. /\ root' \in Places /\ sd' \in BOOLEAN /\ job' \in Jobs /\ faults' \in 0 .. MaxFaults
          /\ DiskOK'
      BY <2>1 DEF Inv, Typing, DiskOK
    <2>3. QED
      BY <2>1, <2>2, QuietInv
  <1>4. QED
    BY <1>1, <1>2, <1>3

LEMMA CmdDeleteInv == ASSUME Inv, CmdDelete PROVE Inv'
  <1>0. Typing /\ DiskOK
    BY DEF Inv, Typing
  <1>1. PICK x \in DOMAIN log :
          /\ disk' = Without(log[x].folder)
          /\ log' = Expired({o \in DOMAIN log : log[o].folder = log[x].folder})
    BY DEF CmdDelete
  <1>2. PICK f : f = log[x].folder
    OBVIOUS
  <1>3. PICK es : es = {o \in DOMAIN log : log[o].folder = f}
    OBVIOUS
  <1>4. log' = Expired(es) /\ disk' = Without(f)
    BY <1>1, <1>2, <1>3
  <1>5. DOMAIN disk' = DOMAIN disk \ {f} /\ \A d \in DOMAIN disk' : disk'[d] = disk[d]
    BY <1>4, DiskFacts
  <1>6. /\ Writers' = Writers /\ root' \in Places /\ sd' \in BOOLEAN /\ job' \in Jobs
        /\ faults' \in 0 .. MaxFaults /\ counter' \in Counters /\ counter' = counter
        /\ shown' \in BOOLEAN
    BY <1>0 DEF CmdDelete, Typing, Writers
  <1>7. \A e \in DOMAIN log \ es : log[e].folder # f
    BY <1>3
  <1>8. QED
    BY <1>4, <1>5, <1>6, <1>7, ExpiredInv

LEMMA SurroundingsInv ==
  ASSUME Inv, SdChanges \/ LoseCounter \/ Respawn \/ BootAfterUpdate \/ BeginAplogs
  PROVE  Inv'
  <1>0. Typing /\ DiskOK /\ MaxFiles \in Nat \ {0} /\ counter \in Counters
    BY SizesAssumption DEF Inv, Typing
  <1>1. NoJob \in Jobs /\ \A mode : SdcardPaths(mode) \in Places
    BY SizesAssumption DEF NoJob, Jobs, Places, SdcardPaths
  <1>2. Fault => faults' \in 0 .. MaxFaults
    BY <1>0, SizesAssumption DEF Fault, Typing
  <1>3. UNCHANGED <<disk, log>> => DiskOK'
    BY <1>0 DEF DiskOK
  <1>4. CASE SdChanges \/ Respawn \/ BeginAplogs
    <2>1. /\ Writers' \subseteq Writers /\ UNCHANGED <<counter, disk, log, shown>>
          /\ root' = root \/ root' = SdcardPaths("CRASH")
          /\ faults' = faults \/ Fault
      BY <1>4 DEF SdChanges, Respawn, BeginAplogs, Writers
    <2>2. sd' \in BOOLEAN
      BY <1>0, <1>4 DEF SdChanges, Respawn, BeginAplogs, Typing
    <2>3. job' \in Jobs
      BY <1>0, <1>1, <1>4, SizesAssumption DEF SdChanges, Respawn, BeginAplogs, Jobs, Typing
    <2>4. root' \in Places /\ faults' \in 0 .. MaxFaults /\ shown' \in BOOLEAN
      BY <1>0, <1>1, <1>2, <2>1 DEF Typing
    <2>5. QED
      BY <1>3, <2>1, <2>2, <2>3, <2>4, QuietInv
  <1>6. CASE LoseCounter
    <2>1. PICK k \in Kinds : counter' = [counter EXCEPT ![k] = -1] /\ log' = Expired(OfKinds({k}))
      BY <1>6 DEF LoseCounter
    <2>2. PICK es : es = OfKinds({k})
      OBVIOUS
    <2>3. counter' \in Counters /\ \A j \in Kinds : j # k => counter'[j] = counter[j]
      BY <1>0, <2>1 DEF Counters
    <2>4. \A e \in DOMAIN log \ es :
            log[e].folder # NoFolder => counter'[log[e].folder.kind] = counter[log[e].folder.kind]
      BY <1>0, <2>2, <2>3, LogFacts, FolderFacts DEF OfKinds
    <2>5. /\ root' \in Places /\ sd' \in BOOLEAN /\ job' \in Jobs /\ Writers' = Writers
          /\ faults' \in 0 .. MaxFaults /\ disk' = disk /\ shown' \in BOOLEAN
      BY <1>0, <1>2, <1>6 DEF LoseCounter, Typing, Writers
    <2>6. QED
      BY <2>1, <2>2, <2>3, <2>4, <2>5, ExpiredInv
  <1>7. CASE BootAfterUpdate
    <2>1. /\ counter' = [k \in Kinds |-> IF k = "bz" THEN counter[k] ELSE 0]
          /\ log' = Expired(OfKinds(Kinds \ {"bz"}))
      BY <1>7 DEF BootAfterUpdate
    <2>2. PICK es : es = OfKinds(Kinds \ {"bz"})
      OBVIOUS
    <2>3. counter' \in Counters /\ \A j \in Kinds : j = "bz" => counter'[j] = counter[j]
      <3>1. 0 \in -1 .. MaxFiles - 1 /\ \A j \in Kinds : counter[j] \in -1 .. MaxFiles - 1
        BY <1>0 DEF Counters
      <3>2. QED
        BY <2>1, <3>1 DEF Counters
    <2>4. \A e \in DOMAIN log \ es :
            log[e].folder # NoFolder => counter'[log[e].folder.kind] = counter[log[e].folder.kind]
      BY <1>0, <2>2, <2>3, LogFacts, FolderFacts DEF OfKinds
    <2>5. /\ root' \in Places /\ sd' \in BOOLEAN /\ job' \in Jobs /\ Writers' = {}
          /\ faults' \in 0 .. MaxFaults /\ disk' = disk /\ shown' \in BOOLEAN
      BY <1>0, <1>1, <1>2, <1>7 DEF BootAfterUpdate, Typing, Writers
    <2>6. QED
      BY <2>1, <2>2, <2>3, <2>4, <2>5, ExpiredInv
  <1>8. QED
    BY <1>4, <1>6, <1>7

\* The handlers that report.
LEMMA HandlersInv ==
  ASSUME Inv, \/ \E mode \in Modes \ {"APLOGS", "BZ"} : Report(mode)
              \/ \E mode \in Modes \cap {"STATS", "BZ"} : ReportEarly(mode)
              \/ Packet
  PROVE  Inv'
  <1>0. Typing /\ job \in Jobs /\ root \in Places
    BY DEF Inv, Typing
  <1>1. ASSUME NEW base \in Places, NEW mode, ReportFrom(base, mode), job' \in Jobs,
               UNCHANGED <<sd, copies, service, shown, faults>>
        PROVE  Inv'
    <2>1. PICK d \in Folders :
            /\ Finds(mode, d)
            /\ disk' = Written(FreshDir(d), Path(base, mode, d.num))
            /\ log' = Append(Aged(mode), Entry(Path(base, mode, d.num), FALSE, FALSE))
      BY <1>1 DEF ReportFrom
    <2>2. PICK n : n = Path(base, mode, d.num)
      OBVIOUS
    <2>3. d.kind = KindOf(mode) /\ d.kind \in Kinds /\ d.num \in 0 .. MaxFiles - 1
      BY <2>1, FolderFacts DEF Finds, Path
    <2>4. n \in Folders /\ n.kind = d.kind /\ n.num = d.num
      BY <2>2, <2>3 DEF Path, Folders, Roots, Places
    <2>5. disk' = Written(FreshDir(d), n) /\ log' = Append(Aged(mode), Entry(n, FALSE, FALSE))
      BY <2>1, <2>2
    <2>6. Writers' = Writers
      BY <1>1 DEF Writers
    <2>7. QED
      BY <1>1, <2>1, <2>4, <2>5, <2>6, ReportInv
  <1>2. ASSUME NEW mode, Report(mode) PROVE Inv'
    <2>1. PICK d \in Folders, late \in {"none", "thread", "service"},
               outcome \in {"recorded", "nofile", "dropped"} :
            /\ late # "none" => outcome = "recorded"
            /\ Finds(mode, d)
            /\ disk' = IF outcome = "nofile" THEN FreshDir(d) ELSE Written(FreshDir(d), d)
            /\ log' = Append(Aged(mode), Entry(IF outcome = "recorded" THEN d ELSE NoFolder,
                                               TRUE, late # "none"))
            /\ copies' = IF late = "thread" THEN copies \cup {<<This, d>>} ELSE copies
            /\ IF late = "service" THEN service' \in Started(d) ELSE service' = service
      BY <1>2 DEF Report
    <2>2. PICK r \in {NoFolder, d} : r = IF outcome = "recorded" THEN d ELSE NoFolder
      OBVIOUS
    <2>3. PICK l \in BOOLEAN : l = (late # "none")
      OBVIOUS
    <2>4. /\ log' = Append(Aged(mode), Entry(r, TRUE, l))
          /\ disk' = FreshDir(d) \/ disk' = Written(FreshDir(d), d)
          /\ r # NoFolder => disk' = Written(FreshDir(d), d)
      BY <2>1, <2>2, <2>3
    <2>5. \/ Writers' \subseteq Writers
          \/ l /\ r = d /\ Writers' \subseteq Writers \cup {<<This, d>>}
      <3>1. CASE late = "none"
        BY <2>1, <3>1 DEF Writers
      <3>2. CASE late # "none"
        <4>1. l /\ r = d
          BY <2>1, <2>2, <2>3, <3>2
        <4>2. copies' \subseteq copies \cup {<<This, d>>}
          BY <2>1
        <4>3. service' \subseteq service \cup {<<This, d>>}
          BY <2>1 DEF Started
        <4>4. QED
          BY <4>1, <4>2, <4>3 DEF Writers
      <3>3. QED
        BY <3>1, <3>2
    <2>6. job' \in Jobs /\ UNCHANGED <<sd, shown, faults>>
      BY <1>0, <1>2 DEF Report
    <2>7. QED
      BY <2>1, <2>2, <2>4, <2>5, <2>6, ReportInv
  <1>3. ASSUME NEW mode, ReportEarly(mode) PROVE Inv'
    BY <1>0, <1>1, <1>3 DEF ReportEarly
  <1>4. CASE Packet
    <2>1. job' \in Jobs /\ job.base \in Places
      BY <1>0, <1>4, SizesAssumption DEF Packet, Free, Jobs
    <2>2. CASE ReportFrom(job.base, "APLOGS")
      <3>1. PICK b \in Places : b = job.base
        BY <2>1
      <3>2. ReportFrom(b, "APLOGS") /\ UNCHANGED <<sd, copies, service, shown, faults>>
        BY <1>4, <2>2, <3>1 DEF Packet
      <3>3. QED
        BY <1>1, <2>1, <3>2
    <2>3. CASE UNCHANGED <<counter, root, disk, log>>
      <3>1. UNCHANGED <<counter, root, disk, log, sd, copies, service, shown, faults>>
        BY <1>4, <2>3 DEF Packet
      <3>2. /\ root' \in Places /\ sd' \in BOOLEAN /\ faults' \in 0 .. MaxFaults
            /\ shown' \in BOOLEAN /\ DiskOK' /\ Writers' = Writers
        BY <1>0, <3>1 DEF Typing, DiskOK, Writers
      <3>3. QED
        BY <2>1, <3>1, <3>2, QuietInv
    <2>4. QED
      BY <1>4, <2>2, <2>3 DEF Packet
  <1>5. QED
    BY <1>2, <1>3, <1>4
-----------------------------------------------------------------------------
(* The theorems.                                                           *)

LEMMA InitInv == Init => Inv
  <1> SUFFICES ASSUME Init PROVE Inv
    OBVIOUS
  <1>1. counter \in Counters
    <2>1. 0 \in -1 .. MaxFiles - 1 /\ -1 \in -1 .. MaxFiles - 1
      BY SizesAssumption
    <2>2. QED
      BY <2>1 DEF Init, Counters
  <1>2. root \in Places /\ job \in Jobs /\ faults \in 0 .. MaxFaults
    BY SizesAssumption DEF Init, SdcardPaths, Places, NoJob, Jobs
  <1>3. DOMAIN disk = {} /\ DOMAIN log = {} /\ Writers = {} /\ log \in Seq(Entries)
        /\ sd \in BOOLEAN /\ shown \in BOOLEAN
    <2>1. DOMAIN disk = {} /\ DOMAIN log = {} /\ log \in Seq(Entries) /\ sd \in BOOLEAN
      BY DEF Init
    <2>2. copies = {} /\ service = {} /\ shown = FALSE
      BY DEF Init
    <2>3. Writers = {} /\ shown \in BOOLEAN
      BY <2>2 DEF Writers
    <2>4. QED
      BY <2>1, <2>3
  <1>4. Typing
    BY <1>1, <1>2, <1>3 DEF Typing, DiskOK
  <1>5. Numbers /\ Writing /\ Newest /\ KeepsRecent /\ OwnFilesOnly
    BY <1>3 DEF Numbers, Writing, Newest, KeepsRecent, OwnFilesOnly
  <1>6. QED
    BY <1>4, <1>5 DEF Inv

\* The invariant holds.
THEOREM Invariant == Spec => []Inv
  <1>1. ASSUME Inv, [Next]_vars PROVE Inv'
    <2>1. CASE UNCHANGED vars
      <3>1. UNCHANGED <<counter, root, sd, disk, log, job, copies, service, shown, faults>>
        BY <2>1 DEF vars
      <3>2. /\ root' \in Places /\ sd' \in BOOLEAN /\ job' \in Jobs /\ faults' \in 0 .. MaxFaults
            /\ shown' \in BOOLEAN /\ DiskOK' /\ Writers' = Writers
        BY <1>1, <3>1 DEF Inv, Typing, DiskOK, Writers
      <3>3. QED
        BY <1>1, <3>1, <3>2, QuietInv
    <2>2. CASE Next
      BY <1>1, <2>2, HandlersInv, FailsInv, LateInv, CmdDeleteInv, SurroundingsInv DEF Next
    <2>3. QED
      BY <1>1, <2>1, <2>2
  <1>2. QED
    BY <1>1, InitInv, PTL DEF Spec

\* Typing.
THEOREM TypeCorrect == Spec => []TypeOK
  <1>1. Inv => TypeOK
    BY LogFacts DEF Inv, Typing, Writers, DiskOK, TypeOK, Counters, Places, Jobs, Entries
  <1>2. QED
    BY <1>1, Invariant, PTL

\* The files of an event stay in the folder it names until gmaxfiles later folders of its kind
\* were asked for, whatever the calls, their failures and the SD card do.
THEOREM RecentKept == Spec => []KeepsRecent
  BY Invariant, PTL DEF Inv

\* And nothing of other events is there with them, but for what a handler that read the path
\* early put there, and what a copy_dir thread or logsystemstate brought late to its own
\* folder, after gmaxfiles later folders were asked for.
THEOREM NothingElse == Spec => []OwnFilesOnly
  BY Invariant, PTL DEF Inv
=============================================================================
