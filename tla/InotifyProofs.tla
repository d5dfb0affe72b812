---------------------------- MODULE InotifyProofs ----------------------------
(***************************************************************************)
(* Theorems about Inotify, for every table of rows.  What the daemon has   *)
(* read and, behind it, the kernel's queue are one stream of events: a     *)
(* file is closed once in it, and its new name comes right behind its old  *)
(* one (Order).  Every directory that was ever made has a path, and every  *)
(* watch that of its directory, row and files, though no variable keeps    *)
(* them: the invariant says that there are such functions (HomeOK), and    *)
(* each step extends them.                                                 *)
(***************************************************************************)
EXTENDS Inotify, SequenceTheorems, FunctionTheorems, FiniteSetTheorems, WellFoundedInduction,
        TLAPS

Whats == {"close", "from", "to", "create", "delself", "moveself", "ignored", "overflow"}
OfFiles == {"close", "from", "to", "create"}
Gone == {"delself", "moveself"}

\* Any event, and what is on its way to the daemon.
AnyEvent ==
  [what : Whats, wd : Int, file : Nat, ver : Nat, cookie : Nat, isdir : BOOLEAN]
Stream == buf \o queue

\* An event speaks of a watch, a file, a name and a rename that there were.
Told(ev) ==
  /\ ev.wd \in 1 .. Len(watches) \/ ev = Overflow
  /\ ev.file <= Len(files) /\ ev.ver <= renames /\ ev.cookie <= renames
  /\ ev.file # 0 <=> ev.what \in OfFiles
  /\ ev.what = "to" => ev.cookie # 0

\* Typing by what changes together.
DirsType  == at \in [Paths -> Dirs] /\ made \in Dirs /\ away \subseteq [path : Paths, dir : Dirs]
FilesType ==
  /\ files \in Seq([tag : Tags, path : Paths, dir : Dirs, ver : 0 .. MaxRenames])
  /\ Len(files) <= MaxFiles /\ noticed \subseteq Files
Wds == {-1} \cup (1 .. Len(watches))
WatchesType ==
  /\ watches \in Seq([dir : Dirs, create : BOOLEAN])
  /\ wds \in [Rows -> Wds] /\ cwds \in [DOMAIN Configs -> Wds]
  /\ \A r, s \in Rows : Table[r].path = Table[s].path => wds[r] = wds[s]
EventsType ==
  /\ buf \in Seq(AnyEvent) /\ queue \in Seq(AnyEvent) /\ Len(queue) <= MaxQueue + 1
  /\ \A ev \in Events : Told(ev)
ReportsType ==
  /\ reports \in Seq([row : 0 .. Len(Table), file : Files])
  /\ \A i \in DOMAIN reports : reports[i].file \in 1 .. Len(files)
CountsType ==
  /\ moved \in 0 .. renames /\ up \in BOOLEAN /\ lossy \in BOOLEAN
  /\ renames \in 0 .. MaxRenames /\ moves \in 0 .. MaxMoves /\ faults \in 0 .. MaxFaults
Typing == DirsType /\ FilesType /\ WatchesType /\ EventsType /\ ReportsType /\ CountsType

\* Directories are numbered as they are made, each has one watch at most.
DirsOK ==
  /\ \A p \in Paths : at[p] <= made
  /\ \A m \in away : m.dir \in 1 .. made
  /\ \A f \in DOMAIN files : files[f].dir \in 1 .. made /\ files[f].ver <= renames
  /\ \A w \in DOMAIN watches : watches[w].dir <= made
  /\ \A v, w \in DOMAIN watches : watches[v].dir = watches[w].dir /\ watches[v].dir # 0 => v = w

\* Paths without a directory: one more only for a directory removed or moved away.
Missing == {p \in Paths : at[p] = 0}
CountOK == made + Cardinality(Missing) <= Cardinality(Paths) + moves

\* Each directory has a path for ever, and each watch that of its directory, which is that
\* of the rows that have the watch and of the files its events are about.
HomeOf(home, own) ==
  /\ home \in [1 .. made -> Paths] /\ own \in [1 .. Len(watches) -> Paths]
  /\ \A p \in Paths : at[p] # 0 => home[at[p]] = p
  /\ \A m \in away : home[m.dir] = m.path
  /\ \A f \in DOMAIN files : home[files[f].dir] = files[f].path
  /\ \A w \in DOMAIN watches : watches[w].dir # 0 => home[watches[w].dir] = own[w]
  /\ \A r \in Rows : wds[r] # -1 => own[wds[r]] = Table[r].path
  /\ \A ev \in Events : ev.file # 0 => own[ev.wd] = files[ev.file].path
HomeOK ==
  \E home \in [1 .. made -> Paths], own \in [1 .. Len(watches) -> Paths] : HomeOf(home, own)

\* The new name of a file comes right behind the old one; when that was handled, its cookie is
\* remembered, unless no row takes the file.
Paired(s) ==
  \A i \in DOMAIN s : i > 1 /\ s[i].what = "to" =>
    /\ s[i - 1].what = "from" /\ s[i - 1].wd = s[i].wd
    /\ s[i - 1].file = s[i].file /\ s[i - 1].cookie = s[i].cookie
Expected ==
  Stream # << >> /\ Stream[1].what = "to" => moved = Stream[1].cookie \/ RowOf(Stream[1]) = 0

\* A file is closed once; when that is still to be handled, it was not reported.
ClosedOnce(s) ==
  \A i, j \in DOMAIN s : s[i].what = "close" /\ s[j].what = "close" /\ s[i].file = s[j].file => i = j
NotYet(s) ==
  \A i \in DOMAIN s, k \in DOMAIN reports :
    s[i].what = "close" /\ reports[k].row # 0 => reports[k].file # s[i].file
Single ==
  \A k, l \in DOMAIN reports :
    reports[k].row # 0 /\ reports[l].row # 0 /\ reports[k].file = reports[l].file => k = l

Order == ~lossy => Paired(Stream) /\ Expected /\ ClosedOnce(Stream) /\ NotYet(Stream) /\ Single
OwnRows == \A i \in DOMAIN reports : OwnRow(i)

Inv ==
  /\ Typing /\ DirsOK /\ CountOK /\ HomeOK
  /\ OwnRows /\ Order /\ DirsFollowed
-----------------------------------------------------------------------------
(* Sequences and least elements.                                           *)

LEMMA Least ==
  ASSUME NEW S \in SUBSET Nat, S # {}
  PROVE  \E n \in S : \A m \in S : n <= m
  <1>1. PICK n \in S : \A m \in S : ~ (<<m, n>> \in OpToRel(<, Nat))
    BY Zenon, NatLessThanWellFounded, WFMin
  <1>2. \A m \in S : ~ (m < n)
    BY <1>1 DEF OpToRel
  <1>3. QED
    BY <1>2

LEMMA MinFacts ==
  ASSUME NEW S \in SUBSET Nat, S # {}
  PROVE  Min(S) \in S /\ \A m \in S : Min(S) <= m
  BY Least DEF Min

LEMMA MaxFacts ==
  ASSUME NEW n \in Nat, NEW S \in SUBSET (0 .. n), S # {}
  PROVE  Max(S) \in S
  <1> DEFINE T == {m \in 0 .. n : n - m \in S}
  <1>1. T \in SUBSET Nat /\ T # {}
    <2>1. PICK x \in S : TRUE
      OBVIOUS
    <2>2. n - x \in 0 .. n /\ n - (n - x) = x
      BY <2>1
    <2>3. n - x \in T
      BY <2>2
    <2>4. \A m \in T : m \in Nat
      OBVIOUS
    <2>5. T \in SUBSET Nat
      BY <2>4
    <2>6. QED
      BY <2>3, <2>5
  <1>2. PICK m \in T : \A k \in T : m <= k
    BY <1>1, Least
  <1>3. n - m \in S
    OBVIOUS
  <1>4. ASSUME NEW x \in S PROVE n - m >= x
    <2>1. n - x \in 0 .. n /\ n - (n - x) = x
      OBVIOUS
    <2>2. m <= n - x
      BY <1>2, <2>1
    <2>3. QED
      BY <2>2
  <1>5. QED
    BY <1>3, <1>4 DEF Max

LEMMA SeqFacts ==
  ASSUME NEW S, NEW s \in Seq(S)
  PROVE  Len(s) \in Nat /\ DOMAIN s = 1 .. Len(s) /\ \A i \in DOMAIN s : s[i] \in S
  BY LenProperties, ElementOfSeq

LEMMA AppendFacts ==
  ASSUME NEW S, NEW s \in Seq(S), NEW x \in S
  PROVE  /\ Append(s, x) \in Seq(S)
         /\ Len(Append(s, x)) = Len(s) + 1 /\ DOMAIN Append(s, x) = 1 .. Len(s) + 1
         /\ \A i \in DOMAIN s : Append(s, x)[i] = s[i]
         /\ Append(s, x)[Len(s) + 1] = x
  BY AppendProperties, LenProperties

LEMMA TailFacts ==
  ASSUME NEW S, NEW s \in Seq(S), s # << >>
  PROVE  /\ Len(s) > 0 /\ Head(s) = s[1] /\ s[1] \in S
         /\ Tail(s) \in Seq(S) /\ Len(Tail(s)) = Len(s) - 1 /\ DOMAIN Tail(s) = 1 .. Len(s) - 1
         /\ \A i \in DOMAIN Tail(s) : Tail(s)[i] = s[i + 1]
  BY HeadTailProperties, LenProperties, EmptySeq

LEMMA ConcatFacts ==
  ASSUME NEW S, NEW s \in Seq(S), NEW t \in Seq(S)
  PROVE  /\ s \o t \in Seq(S) /\ Len(s \o t) = Len(s) + Len(t)
         /\ DOMAIN (s \o t) = 1 .. Len(s) + Len(t)
         /\ \A i \in 1 .. Len(s) : (s \o t)[i] = s[i]
         /\ \A i \in 1 .. Len(t) : (s \o t)[Len(s) + i] = t[i]
  <1>1. Len(s) \in Nat /\ Len(t) \in Nat
    BY SeqFacts
  <1>2. /\ s \o t \in Seq(S) /\ Len(s \o t) = Len(s) + Len(t)
        /\ \A i \in 1 .. Len(s) + Len(t) :
             (s \o t)[i] = IF i <= Len(s) THEN s[i] ELSE t[i - Len(s)]
    BY ConcatProperties
  <1>3. DOMAIN (s \o t) = 1 .. Len(s) + Len(t)
    BY <1>2, LenProperties
  <1>4. ASSUME NEW i \in 1 .. Len(s) PROVE (s \o t)[i] = s[i]
    BY <1>1, <1>2
  <1>5. ASSUME NEW i \in 1 .. Len(t) PROVE (s \o t)[Len(s) + i] = t[i]
    <2>1. Len(s) + i \in 1 .. Len(s) + Len(t) /\ ~ (Len(s) + i <= Len(s)) /\ Len(s) + i - Len(s) = i
      BY <1>1
    <2>2. QED
      BY <1>2, <2>1
  <1>6. QED
    BY <1>2, <1>3, <1>4, <1>5

LEMMA Regrouped ==
  ASSUME NEW S, NEW s \in Seq(S), NEW t \in Seq(S), NEW u \in Seq(S)
  PROVE  s \o (t \o u) = (s \o t) \o u
  BY ConcatAssociative

LEMMA TailConcat ==
  ASSUME NEW S, NEW s \in Seq(S), NEW t \in Seq(S), s # << >>
  PROVE  s \o t # << >> /\ Tail(s) \o t = Tail(s \o t)
  <1>1. /\ Len(s) \in Nat /\ Len(t) \in Nat /\ Len(s) > 0 /\ Tail(s) \in Seq(S)
        /\ Len(Tail(s)) = Len(s) - 1 /\ \A i \in 1 .. Len(s) - 1 : Tail(s)[i] = s[i + 1]
    BY SeqFacts, TailFacts
  <1>2. /\ s \o t \in Seq(S) /\ Len(s \o t) = Len(s) + Len(t)
        /\ \A i \in 1 .. Len(s) : (s \o t)[i] = s[i]
        /\ \A i \in 1 .. Len(t) : (s \o t)[Len(s) + i] = t[i]
    BY ConcatFacts
  <1>3. s \o t # << >>
    BY <1>1, <1>2, EmptySeq
  <1>4. /\ Tail(s \o t) \in Seq(S) /\ Len(Tail(s \o t)) = Len(s) + Len(t) - 1
        /\ \A i \in 1 .. Len(s) + Len(t) - 1 : Tail(s \o t)[i] = (s \o t)[i + 1]
    BY <1>2, <1>3, TailFacts
  <1>5. /\ Tail(s) \o t \in Seq(S) /\ Len(Tail(s) \o t) = Len(s) - 1 + Len(t)
        /\ \A i \in 1 .. Len(s) - 1 : (Tail(s) \o t)[i] = Tail(s)[i]
        /\ \A i \in 1 .. Len(t) : (Tail(s) \o t)[Len(s) - 1 + i] = t[i]
    BY <1>1, ConcatFacts
  <1>6. ASSUME NEW i \in 1 .. Len(s) - 1 + Len(t)
        PROVE  (Tail(s) \o t)[i] = Tail(s \o t)[i]
    <2>0. i \in 1 .. Len(s) + Len(t) - 1
      BY <1>1
    <2>1. CASE i <= Len(s) - 1
      <3>1. i \in 1 .. Len(s) - 1 /\ i + 1 \in 1 .. Len(s)
        BY <1>1, <2>1
      <3>2. QED
        BY <1>1, <1>2, <1>4, <1>5, <2>0, <3>1
    <2>2. CASE ~ (i <= Len(s) - 1)
      <3>1. PICK k \in 1 .. Len(t) : i = Len(s) - 1 + k /\ i + 1 = Len(s) + k
        <4>1. /\ i - (Len(s) - 1) \in 1 .. Len(t)
              /\ i = Len(s) - 1 + (i - (Len(s) - 1)) /\ i + 1 = Len(s) + (i - (Len(s) - 1))
          BY <1>1, <2>2
        <4>2. QED
          BY <1>1, <4>1
      <3>2. QED
        BY <1>2, <1>4, <1>5, <2>0, <3>1
    <2>3. QED
      BY <2>1, <2>2
  <1>7. Len(Tail(s) \o t) = Len(Tail(s \o t))
    BY <1>1, <1>4, <1>5
  <1>8. QED
    BY <1>3, <1>4, <1>5, <1>6, <1>7, SeqEqual
-----------------------------------------------------------------------------
(* Events and the stream of them.                                          *)

LEMMA Constants ==
  /\ MaxQueue \in Nat /\ MaxQueue > 0 /\ MaxFiles \in Nat /\ MaxRenames \in Nat
  /\ MaxMoves \in Nat /\ MaxFaults \in Nat /\ Cardinality(Paths) \in Nat
  /\ Len(Table) \in Nat /\ Rows = 1 .. Len(Table)
  BY BoundsAssumption, TableAssumption, PathsAssumption, FS_CardinalityType

LEMMA NewEvent ==
  ASSUME NEW what \in Whats, NEW wd \in Int, NEW file \in Nat, NEW ver \in Nat,
         NEW cookie \in Nat, NEW isdir \in BOOLEAN
  PROVE  LET ev == Event(what, wd, file, ver, cookie, isdir)
         IN  /\ ev \in AnyEvent /\ ev.what = what /\ ev.wd = wd /\ ev.file = file
             /\ ev.ver = ver /\ ev.cookie = cookie
  BY DEF Event, AnyEvent

LEMMA OverflowFacts ==
  Overflow \in AnyEvent /\ Overflow.what = "overflow" /\ Overflow.file = 0 /\ Overflow.wd = -1
  BY DEF Overflow, SelfEvent, Event, AnyEvent, Whats

LEMMA PushFacts ==
  ASSUME NEW q \in Seq(AnyEvent), NEW es \in Seq(AnyEvent), Len(q) <= MaxQueue + 1
  PROVE  /\ Push(q, es) \in Seq(AnyEvent) /\ Len(Push(q, es)) <= MaxQueue + 1
         /\ Range(Push(q, es)) \subseteq Range(q) \cup Range(es) \cup {Overflow}
         /\ Len(q) + Len(es) <= MaxQueue => Push(q, es) = q \o es
  <1> DEFINE all == q \o es
             cut == SubSeq(all, 1, MaxQueue)
  <1>1. /\ all \in Seq(AnyEvent) /\ Len(all) = Len(q) + Len(es)
        /\ Range(all) = Range(q) \cup Range(es) /\ Len(all) \in Nat
        /\ DOMAIN all = 1 .. Len(all) /\ Len(q) \in Nat
    BY ConcatFacts, RangeConcatenation, SeqFacts
  <1>2. Push(q, es) = IF Len(all) <= MaxQueue THEN all
                      ELSE IF Len(q) > MaxQueue THEN q ELSE Append(cut, Overflow)
    BY DEF Push
  <1>3. CASE Len(all) <= MaxQueue
    BY <1>1, <1>2, <1>3, Constants
  <1>4. CASE ~ (Len(all) <= MaxQueue) /\ Len(q) > MaxQueue
    BY <1>1, <1>2, <1>4, Constants
  <1>5. CASE ~ (Len(all) <= MaxQueue) /\ ~ (Len(q) > MaxQueue)
    <2>1. \A i \in 1 .. MaxQueue : i \in DOMAIN all /\ all[i] \in AnyEvent
      BY <1>1, <1>5, Constants, SeqFacts
    <2>2. /\ cut \in Seq(AnyEvent) /\ Len(cut) = MaxQueue
          /\ \A i \in 1 .. MaxQueue : cut[i] = all[i]
      <3>1. /\ SubSeq(all, 1, MaxQueue) \in Seq(AnyEvent)
            /\ Len(SubSeq(all, 1, MaxQueue)) = IF 1 <= MaxQueue THEN MaxQueue - 1 + 1 ELSE 0
            /\ \A i \in 1 .. MaxQueue - 1 + 1 : SubSeq(all, 1, MaxQueue)[i] = all[1 + i - 1]
        BY <2>1, Constants, SubSeqProperties
      <3>2. MaxQueue - 1 + 1 = MaxQueue /\ 1 <= MaxQueue /\ \A i \in 1 .. MaxQueue : 1 + i - 1 = i
        BY Constants
      <3>3. QED
        BY <3>1, <3>2
    <2> HIDE DEF cut, all
    <2>3. /\ Append(cut, Overflow) \in Seq(AnyEvent) /\ Len(Append(cut, Overflow)) = MaxQueue + 1
          /\ DOMAIN Append(cut, Overflow) = 1 .. MaxQueue + 1
          /\ \A i \in 1 .. MaxQueue : Append(cut, Overflow)[i] = cut[i]
          /\ Append(cut, Overflow)[MaxQueue + 1] = Overflow
      BY <2>2, AppendFacts, OverflowFacts, SeqFacts
    <2>4. ASSUME NEW i \in 1 .. MaxQueue + 1
          PROVE  Append(cut, Overflow)[i] \in Range(all) \cup {Overflow}
      <3>1. CASE i = MaxQueue + 1
        BY <2>3, <3>1
      <3>2. CASE i # MaxQueue + 1
        <4>1. i \in 1 .. MaxQueue
          BY <3>2, Constants
        <4>2. Append(cut, Overflow)[i] = all[i] /\ i \in DOMAIN all
          BY <2>1, <2>2, <2>3, <4>1
        <4>3. QED
          BY <4>2 DEF Range
      <3>3. QED
        BY <3>1, <3>2
    <2>5. Range(Append(cut, Overflow)) \subseteq Range(all) \cup {Overflow}
      BY <2>3, <2>4 DEF Range
    <2>6. Push(q, es) = Append(cut, Overflow)
      BY <1>2, <1>5
    <2>7. QED
      BY <1>1, <1>5, <2>3, <2>5, <2>6, Constants
  <1>6. QED
    BY <1>3, <1>4, <1>5

\* Events that were queued: all, in order, unless the state says that some were lost.
LEMMA NotifyFacts ==
  ASSUME EventsType, CountsType, NEW w, NEW es \in Seq(AnyEvent), Notify(w, es)
  PROVE  /\ queue' \in Seq(AnyEvent) /\ Len(queue') <= MaxQueue + 1
         /\ Range(queue') \subseteq Range(queue) \cup (IF w = 0 THEN {} ELSE Range(es) \cup {Overflow})
         /\ lossy' \in BOOLEAN /\ (lossy' = FALSE => lossy = FALSE)
         /\ lossy' = FALSE => queue' = (IF w = 0 THEN queue ELSE queue \o es)
  <1> DEFINE more == Len(queue) + Len(es) > MaxQueue
  <1>1. queue \in Seq(AnyEvent) /\ Len(queue) <= MaxQueue + 1 /\ lossy \in BOOLEAN
    BY DEF EventsType, CountsType
  <1>2. CASE w = 0
    BY <1>1, <1>2 DEF Notify
  <1>3. CASE w # 0
    <2>1. queue' = Push(queue, es) /\ lossy' = (lossy \/ more)
      BY <1>3 DEF Notify
    <2>2. /\ queue' \in Seq(AnyEvent) /\ Len(queue') <= MaxQueue + 1
          /\ Range(queue') \subseteq Range(queue) \cup Range(es) \cup {Overflow}
          /\ Len(queue) + Len(es) <= MaxQueue => queue' = queue \o es
      BY <1>1, <2>1, PushFacts
    <2>3. ~more => queue' = queue \o es
      BY <1>1, <2>2, SeqFacts, Constants
    <2> HIDE DEF more
    <2>4. lossy' \in BOOLEAN /\ (lossy' = FALSE => lossy = FALSE /\ ~more)
      BY <1>1, <2>1
    <2>5. QED
      BY <1>3, <2>2, <2>3, <2>4
  <1>4. QED
    BY <1>2, <1>3

LEMMA StreamFacts ==
  ASSUME EventsType
  PROVE  /\ Stream \in Seq(AnyEvent) /\ Events = Range(Stream)
         /\ Len(Stream) \in Nat /\ DOMAIN Stream = 1 .. Len(Stream)
         /\ \A i \in DOMAIN Stream : Stream[i] \in AnyEvent /\ Stream[i] \in Events /\ Told(Stream[i])
  <1>1. buf \in Seq(AnyEvent) /\ queue \in Seq(AnyEvent) /\ \A ev \in Events : Told(ev)
    BY DEF EventsType
  <1>2. Stream \in Seq(AnyEvent) /\ Range(Stream) = Range(buf) \cup Range(queue)
    BY <1>1, ConcatFacts, RangeConcatenation DEF Stream
  <1>3. Len(Stream) \in Nat /\ DOMAIN Stream = 1 .. Len(Stream) /\ \A i \in DOMAIN Stream : Stream[i] \in AnyEvent
    BY <1>2, SeqFacts
  <1>4. \A i \in DOMAIN Stream : Stream[i] \in Range(Stream)
    BY DEF Range
  <1>5. QED
    BY <1>1, <1>2, <1>3, <1>4 DEF Events

LEMMA EventFacts ==
  ASSUME NEW ev \in AnyEvent
  PROVE  /\ ev.what \in Whats /\ ev.wd \in Int /\ ev.file \in Nat /\ ev.ver \in Nat
         /\ ev.cookie \in Nat /\ ev.isdir \in BOOLEAN
  BY DEF AnyEvent

\* The event that is handled is the first of the stream; without it the tail is left.
LEMMA HandlingFacts ==
  ASSUME EventsType, Handling
  PROVE  /\ up /\ e \in AnyEvent /\ Told(e) /\ e \in Events
         /\ Stream # << >> /\ 1 \in DOMAIN Stream /\ Stream[1] = e
         /\ Tail(buf) \in Seq(AnyEvent) /\ Range(Tail(buf)) \subseteq Range(buf)
         /\ Tail(buf) \o queue = Tail(Stream)
  <1>1. /\ buf \in Seq(AnyEvent) /\ queue \in Seq(AnyEvent) /\ buf # << >> /\ up
        /\ \A ev \in Events : Told(ev)
    BY DEF EventsType, Handling
  <1>2. /\ Len(buf) > 0 /\ e = buf[1] /\ Tail(buf) \in Seq(AnyEvent) /\ Len(buf) \in Nat
        /\ DOMAIN Tail(buf) = 1 .. Len(buf) - 1 /\ DOMAIN buf = 1 .. Len(buf)
        /\ \A i \in DOMAIN Tail(buf) : Tail(buf)[i] = buf[i + 1]
        /\ e \in AnyEvent
    BY <1>1, TailFacts, SeqFacts DEF e
  <1>3. Range(Tail(buf)) \subseteq Range(buf)
    <2>1. ASSUME NEW i \in DOMAIN Tail(buf) PROVE Tail(buf)[i] \in Range(buf)
      <3>1. i + 1 \in DOMAIN buf /\ Tail(buf)[i] = buf[i + 1]
        BY <1>2
      <3>2. QED
        BY <3>1 DEF Range
    <2>2. QED
      BY <2>1 DEF Range
  <1>4. Stream # << >> /\ Tail(buf) \o queue = Tail(Stream)
    BY <1>1, TailConcat DEF Stream
  <1>5. Stream[1] = e /\ 1 \in DOMAIN Stream
    <2>1. 1 \in 1 .. Len(buf)
      BY <1>2
    <2>2. Stream[1] = buf[1] /\ DOMAIN Stream = 1 .. Len(buf) + Len(queue) /\ Len(queue) \in Nat
      BY <1>1, <2>1, ConcatFacts, SeqFacts DEF Stream
    <2>3. QED
      BY <1>2, <2>2
  <1>6. e \in Events
    BY <1>5, StreamFacts
  <1>7. QED
    BY <1>1, <1>2, <1>3, <1>4, <1>5, <1>6
-----------------------------------------------------------------------------
(* Rows and watches.                                                       *)

\* The row of an event is the first that has its watch and a pattern of the name.
LEMMA RowOfFacts ==
  ASSUME NEW ev
  PROVE  /\ RowOf(ev) \in 0 .. Len(Table)
         /\ RowOf(ev) # 0 =>
              /\ RowOf(ev) \in Rows /\ wds[RowOf(ev)] = ev.wd /\ ev.file # 0
              /\ Table[RowOf(ev)].pattern \in Patterns[files[ev.file].tag]
              /\ \A r \in Rows : wds[r] = ev.wd /\ Table[r].pattern \in Patterns[files[ev.file].tag]
                                   => RowOf(ev) <= r
  <1> DEFINE rs == {r \in Rows : /\ wds[r] = ev.wd /\ ev.file # 0
                                 /\ Table[r].pattern \in Patterns[files[ev.file].tag]}
  <1>1. RowOf(ev) = IF rs = {} THEN 0 ELSE Min(rs)
    BY DEF RowOf
  <1>2. rs \in SUBSET Nat /\ \A r \in rs : r \in 1 .. Len(Table)
    BY Constants
  <1>3. CASE rs = {}
    BY <1>1, <1>3, Constants
  <1>4. CASE rs # {}
    <2>1. Min(rs) \in rs /\ \A r \in rs : Min(rs) <= r
      BY <1>2, <1>4, MinFacts
    <2>2. PICK n : n = RowOf(ev)
      OBVIOUS
    <2>3. n \in rs /\ \A r \in rs : n <= r
      BY <1>1, <1>4, <2>1, <2>2
    <2>4. n \in 1 .. Len(Table) /\ n # 0 /\ n \in 0 .. Len(Table)
      BY <1>2, <2>3, Constants
    <2>5. \A r \in Rows : wds[r] = ev.wd /\ Table[r].pattern \in Patterns[files[ev.file].tag] => n <= r
      BY <2>3
    <2> HIDE DEF rs
    <2>6. /\ n \in Rows /\ wds[n] = ev.wd /\ ev.file # 0
          /\ Table[n].pattern \in Patterns[files[ev.file].tag]
      BY <2>3 DEF rs
    <2>7. QED
      BY <2>2, <2>4, <2>5, <2>6
  <1>5. QED
    BY <1>3, <1>4

\* It depends on the watch of the event, the rows that have it and the name of the file.
LEMMA RowSame ==
  ASSUME NEW ev, NEW nv, nv.wd = ev.wd, nv.file = ev.file, wds' = wds,
         ev.file # 0 => files'[ev.file].tag = files[ev.file].tag
  PROVE  RowOf(nv)' = RowOf(ev)
  <1>1. {r \in Rows : /\ wds'[r] = nv.wd /\ nv.file # 0
                      /\ Table[r].pattern \in Patterns[files'[nv.file].tag]}
        = {r \in Rows : /\ wds[r] = ev.wd /\ ev.file # 0
                        /\ Table[r].pattern \in Patterns[files[ev.file].tag]}
    OBVIOUS
  <1>2. QED
    BY <1>1 DEF RowOf

LEMMA WatchOfFacts ==
  ASSUME WatchesType, DirsOK, NEW d
  PROVE  /\ \/ WatchOf(d) = 0
            \/ WatchOf(d) # 0 /\ d # 0 /\ WatchOf(d) \in DOMAIN watches /\ watches[WatchOf(d)].dir = d
         /\ \A w \in DOMAIN watches : watches[w].dir = d /\ d # 0 => WatchOf(d) = w
  <1> DEFINE ws == {w \in DOMAIN watches : watches[w].dir = d}
  <1>1. WatchOf(d) = IF d = 0 \/ ws = {} THEN 0 ELSE Min(ws)
    BY DEF WatchOf
  <1>2. DOMAIN watches = 1 .. Len(watches) /\ Len(watches) \in Nat
    BY SeqFacts DEF WatchesType
  <1>3. ws \in SUBSET Nat /\ 0 \notin ws
    BY <1>2
  <1>4. \A v, w \in ws : d # 0 => v = w
    BY DEF DirsOK
  <1>5. CASE d = 0 \/ ws = {}
    BY <1>1, <1>5
  <1>6. CASE ~ (d = 0 \/ ws = {})
    <2>1. Min(ws) \in ws
      BY <1>3, <1>6, MinFacts
    <2>2. QED
      BY <1>1, <1>3, <1>4, <1>6, <2>1
  <1>7. QED
    BY <1>5, <1>6

Watch == [dir : Dirs, create : BOOLEAN]

LEMMA UnwatchFacts ==
  ASSUME NEW ws \in Seq(Watch), NEW wd \in 1 .. Len(ws)
  PROVE  /\ Unwatch(ws, wd) \in Seq(Watch) /\ Len(Unwatch(ws, wd)) = Len(ws)
         /\ DOMAIN Unwatch(ws, wd) = DOMAIN ws /\ Unwatch(ws, wd)[wd].dir = 0
         /\ \A w \in DOMAIN ws : w # wd => Unwatch(ws, wd)[w] = ws[w]
  <1>1. Len(ws) \in Nat /\ DOMAIN ws = 1 .. Len(ws) /\ ws[wd] \in Watch
    BY SeqFacts
  <1>2. PICK new : new = [ws[wd] EXCEPT !.dir = 0]
    OBVIOUS
  <1>3. new \in Watch /\ new.dir = 0
    <2>1. 0 \in Dirs
      BY Constants DEF Dirs
    <2>2. QED
      BY <1>1, <1>2, <2>1 DEF Watch
  <1>4. Unwatch(ws, wd) = [ws EXCEPT ![wd] = new]
    BY <1>2 DEF Unwatch
  <1>5. /\ [ws EXCEPT ![wd] = new] \in Seq(Watch) /\ Len([ws EXCEPT ![wd] = new]) = Len(ws)
        /\ \A j \in 1 .. Len(ws) : [ws EXCEPT ![wd] = new][j] = IF j = wd THEN new ELSE ws[j]
    BY <1>3, ExceptSeq
  <1>6. DOMAIN Unwatch(ws, wd) = DOMAIN ws
    BY <1>4
  <1>7. QED
    BY <1>1, <1>3, <1>4, <1>5, <1>6

\* A directory gets the watch that it has, or a new one behind the others.
LEMMA AddWatchFacts ==
  ASSUME NEW ws \in Seq(Watch), NEW dir \in Dirs, dir # 0, NEW create \in BOOLEAN,
         NEW nwd, nwd = AddWatch(ws, dir, create).wd,
         NEW nws, nws = AddWatch(ws, dir, create).ws
  PROVE  /\ nws \in Seq(Watch) /\ nwd \in 1 .. Len(nws) /\ nws[nwd].dir = dir
         /\ Len(ws) <= Len(nws)
         /\ \A w \in DOMAIN nws : w # nwd => w \in DOMAIN ws /\ nws[w] = ws[w]
         /\ \/ nwd \in DOMAIN ws /\ ws[nwd].dir = dir
            \/ nwd \notin DOMAIN ws /\ \A w \in DOMAIN ws : ws[w].dir # dir
  <1> DEFINE old == {w \in DOMAIN ws : ws[w].dir = dir}
  <1>0. PICK new : new = [dir |-> dir, create |-> create]
    OBVIOUS
  <1>1. new \in Watch /\ new.dir = dir
    BY <1>0 DEF Watch
  <1>2. Len(ws) \in Nat /\ DOMAIN ws = 1 .. Len(ws)
    BY SeqFacts
  <1>3. CASE old # {}
    <2>1. old \in SUBSET Nat
      BY <1>2
    <2>2. PICK n : n = Min(old)
      OBVIOUS
    <2>3. n \in old
      BY <1>3, <2>1, <2>2, MinFacts
    <2>4. nwd = n /\ nws = [ws EXCEPT ![n] = new]
      BY <1>0, <1>3, <2>2 DEF AddWatch
    <2>5. n \in 1 .. Len(ws)
      BY <1>2, <2>3
    <2>6. /\ [ws EXCEPT ![n] = new] \in Seq(Watch) /\ Len([ws EXCEPT ![n] = new]) = Len(ws)
          /\ \A j \in 1 .. Len(ws) : [ws EXCEPT ![n] = new][j] = IF j = n THEN new ELSE ws[j]
      BY <1>1, <2>5, ExceptSeq
    <2>7. DOMAIN [ws EXCEPT ![n] = new] = DOMAIN ws
      OBVIOUS
    <2>8. /\ nws \in Seq(Watch) /\ Len(nws) = Len(ws) /\ DOMAIN nws = DOMAIN ws
          /\ \A j \in 1 .. Len(ws) : nws[j] = IF j = n THEN new ELSE ws[j]
      BY <2>4, <2>6, <2>7
    <2>9. nws[nwd].dir = dir /\ nwd \in 1 .. Len(nws) /\ nwd \in DOMAIN ws /\ ws[nwd].dir = dir
      BY <1>1, <2>3, <2>4, <2>5, <2>8
    <2>10. \A w \in DOMAIN nws : w # nwd => w \in DOMAIN ws /\ nws[w] = ws[w]
      BY <1>2, <2>4, <2>8
    <2>11. QED
      BY <1>2, <2>8, <2>9, <2>10
  <1>4. CASE old = {}
    <2>1. nwd = Len(ws) + 1 /\ nws = Append(ws, new)
      BY <1>0, <1>4 DEF AddWatch
    <2>2. /\ Append(ws, new) \in Seq(Watch) /\ Len(Append(ws, new)) = Len(ws) + 1
          /\ DOMAIN Append(ws, new) = 1 .. Len(ws) + 1
          /\ \A i \in DOMAIN ws : Append(ws, new)[i] = ws[i]
          /\ Append(ws, new)[Len(ws) + 1] = new
      BY <1>1, AppendFacts
    <2>3. \A w \in 1 .. Len(ws) + 1 : w # Len(ws) + 1 => w \in DOMAIN ws
      BY <1>2
    <2>4. Len(ws) + 1 \notin DOMAIN ws /\ Len(ws) + 1 \in 1 .. Len(ws) + 1 /\ Len(ws) <= Len(ws) + 1
      BY <1>2
    <2>5. QED
      BY <1>1, <1>4, <2>1, <2>2, <2>3, <2>4
  <1>5. QED
    BY <1>3, <1>4
-----------------------------------------------------------------------------
(* Steps that take events from the stream.                                 *)

\* What is not the first is left in the tail.
LEMMA TailEvents ==
  ASSUME NEW s \in Seq(AnyEvent), s # << >>, NEW ev \in Range(s), ev # s[1]
  PROVE  ev \in Range(Tail(s))
  <1>1. /\ Len(s) \in Nat /\ DOMAIN s = 1 .. Len(s) /\ DOMAIN Tail(s) = 1 .. Len(s) - 1
        /\ \A i \in DOMAIN Tail(s) : Tail(s)[i] = s[i + 1]
    BY SeqFacts, TailFacts
  <1>2. PICK i \in 1 .. Len(s) : ev = s[i]
    BY <1>1 DEF Range
  <1>3. i - 1 \in DOMAIN Tail(s) /\ i - 1 + 1 = i
    BY <1>1, <1>2
  <1>4. ev = Tail(s)[i - 1]
    BY <1>1, <1>2, <1>3
  <1>5. QED
    BY <1>3, <1>4 DEF Range

\* The head of the stream is handled, with no event lost or with the state saying so.
LEMMA TakeFacts ==
  ASSUME EventsType, CountsType, Handling, queue' = queue, buf' = Tail(buf) \/ Abandon,
         lossy' = FALSE => lossy = FALSE
  PROVE  /\ buf' \in Seq(AnyEvent) /\ queue' \in Seq(AnyEvent)
         /\ Range(buf') \subseteq Range(buf)
         /\ lossy' = FALSE => Stream' = Tail(Stream)
         /\ lossy' = FALSE => \A ev \in Events : ev # e => ev \in Events'
  <1>1. /\ buf \in Seq(AnyEvent) /\ queue \in Seq(AnyEvent) /\ buf # << >>
        /\ Len(buf) \in Nat /\ Len(buf) > 0 /\ lossy \in BOOLEAN
    BY SeqFacts, TailFacts DEF EventsType, CountsType, Handling
  <1>2. ASSUME Abandon
        PROVE  buf' = << >> /\ (lossy' = FALSE => Tail(buf) = << >>)
    <2> DEFINE more == Len(buf) > 1
    <2>1. buf' = << >> /\ lossy' = (lossy \/ more)
      BY <1>2 DEF Abandon
    <2>2. ~more => Len(Tail(buf)) = 0 /\ Tail(buf) \in Seq(AnyEvent)
      <3>1. Tail(buf) \in Seq(AnyEvent) /\ Len(Tail(buf)) = Len(buf) - 1
        BY <1>1, TailFacts
      <3>2. QED
        BY <1>1, <3>1
    <2>3. ~more => Tail(buf) = << >>
      BY <2>2, EmptySeq
    <2> HIDE DEF more
    <2>4. lossy' = FALSE => ~more
      BY <1>1, <2>1
    <2>5. QED
      BY <2>1, <2>3, <2>4
  <1>3. buf' \in Seq(AnyEvent) /\ Range(buf') \subseteq Range(buf)
    <2>1. CASE buf' = Tail(buf)
      BY <2>1, HandlingFacts
    <2>2. CASE Abandon
      <3>1. buf' = << >> /\ Range(<< >>) = {}
        BY <1>2, <2>2 DEF Range
      <3>2. QED
        BY <3>1, EmptySeq
    <2>3. QED
      BY <2>1, <2>2
  <1>4. ASSUME lossy' = FALSE PROVE Stream' = Tail(Stream)
    <2>1. buf' = Tail(buf)
      BY <1>2, <1>4
    <2>2. QED
      BY <2>1, HandlingFacts DEF Stream
  <1>5. ASSUME lossy' = FALSE, NEW ev \in Events, ev # e PROVE ev \in Events'
    <2>1. Stream \in Seq(AnyEvent) /\ Events = Range(Stream)
      BY StreamFacts
    <2>2. ev \in Range(Tail(Stream))
      BY <1>5, <2>1, HandlingFacts, TailEvents
    <2>3. Stream' \in Seq(AnyEvent) /\ Range(Stream') = Range(buf') \cup Range(queue')
      BY <1>1, <1>3, ConcatFacts, RangeConcatenation DEF Stream
    <2>4. QED
      BY <1>4, <1>5, <2>2, <2>3 DEF Events
  <1>6. QED
    BY <1>1, <1>3, <1>4, <1>5

\* What a step leaves that only takes events, and none of a directory without saying so.
LEMMA TakenStep ==
  ASSUME Typing, DirsOK, CountOK, HomeOK, DirsFollowed,
         UNCHANGED <<fs, files, watches, wds, cwds, up, noticed, renames, moves>>,
         buf' \in Seq(AnyEvent), queue' \in Seq(AnyEvent), Len(queue') <= MaxQueue + 1,
         Events' \subseteq Events, lossy' = FALSE => lossy = FALSE,
         lossy' = FALSE => \A ev \in Events : ev.what \in Gone => ev \in Events',
         lossy' \in BOOLEAN
  PROVE  DirsType' /\ FilesType' /\ WatchesType' /\ EventsType' /\ DirsOK' /\ CountOK' /\ HomeOK'
         /\ DirsFollowed'
  <1>1. DirsType' /\ FilesType' /\ WatchesType'
    BY DEF Typing, DirsType, FilesType, WatchesType, fs, Dirs, Files, Wds
  <1>2. EventsType'
    <2>1. \A ev \in Events : Told(ev)
      BY DEF Typing, EventsType
    <2>2. ASSUME NEW ev \in Events' PROVE Told(ev)'
      <3>1. Told(ev)
        BY <2>1
      <3>2. QED
        BY <3>1 DEF Told
    <2>3. QED
      BY <2>2 DEF EventsType
  <1>3. DirsOK' /\ CountOK'
    BY DEF DirsOK, CountOK, Missing, fs
  <1>4. HomeOK'
    <2>1. PICK home, own : HomeOf(home, own)
      BY DEF HomeOK
    <2>2. \A ev \in Events' : ev.file # 0 => own[ev.wd] = files[ev.file].path
      BY <2>1 DEF HomeOf
    <2>3. HomeOf(home, own)'
      BY <2>1, <2>2, Zenon DEF HomeOf, fs
    <2>4. QED
      BY <2>3 DEF HomeOK, HomeOf
  <1>5. DirsFollowed'
    <2> SUFFICES ASSUME up', ~lossy', NEW r \in Rows, wds'[r] # -1
                 PROVE  \/ watches'[wds'[r]].dir = at'[Table[r].path] /\ at'[Table[r].path] # 0
                        \/ \E ev \in Events' : ev.wd = wds'[r] /\ ev.what \in {"delself", "moveself"}
      BY DEF DirsFollowed
    <2>1. lossy' = FALSE
      OBVIOUS
    <2>2. up /\ ~lossy
      BY <2>1
    <2>3. CASE watches[wds[r]].dir = at[Table[r].path] /\ at[Table[r].path] # 0
      BY <2>3 DEF fs
    <2>4. CASE \E ev \in Events : ev.wd = wds[r] /\ ev.what \in {"delself", "moveself"}
      <3>1. PICK ev \in Events : ev.wd = wds[r] /\ ev.what \in Gone
        BY <2>4 DEF Gone
      <3>2. ev \in Events'
        BY <2>1, <3>1
      <3>3. QED
        BY <3>1, <3>2 DEF Gone
    <2>5. wds[r] # -1
      OBVIOUS
    <2>6. QED
      BY <2>2, <2>3, <2>4, <2>5 DEF DirsFollowed
  <1>6. QED
    BY <1>1, <1>2, <1>3, <1>4, <1>5

\* The pairs, and what is closed, are those of the stream when its first event is gone.
LEMMA TailOrder ==
  ASSUME NEW s \in Seq(AnyEvent), NEW t, t = Tail(s), s # << >>, Paired(s), ClosedOnce(s)
  PROVE  Paired(t) /\ ClosedOnce(t)
  <1>1. /\ Len(s) \in Nat /\ DOMAIN s = 1 .. Len(s)
        /\ DOMAIN t = 1 .. Len(s) - 1 /\ \A i \in DOMAIN t : t[i] = s[i + 1]
    BY TailFacts, SeqFacts
  <1>2. \A i \in DOMAIN t : i + 1 \in DOMAIN s /\ i + 1 > 1 /\ i + 1 # 1 /\ i + 1 - 1 = i /\ i \in Nat /\ i >= 1
    BY <1>1
  <1>3. Paired(t)
    <2> SUFFICES ASSUME NEW i \in DOMAIN t, i > 1, t[i].what = "to"
                 PROVE  /\ t[i - 1].what = "from" /\ t[i - 1].wd = t[i].wd
                        /\ t[i - 1].file = t[i].file /\ t[i - 1].cookie = t[i].cookie
      BY DEF Paired
    <2>1. i - 1 \in DOMAIN t /\ i - 1 + 1 = i
      BY <1>1
    <2>2. t[i] = s[i + 1] /\ t[i - 1] = s[i]
      BY <1>1, <2>1
    <2>3. s[i + 1].what = "to" /\ i + 1 \in DOMAIN s /\ i + 1 > 1 /\ i + 1 - 1 = i
      BY <1>2, <2>2
    <2>4. s[i].what = "from" /\ s[i].wd = s[i + 1].wd /\ s[i].file = s[i + 1].file /\ s[i].cookie = s[i + 1].cookie
      <3>1. /\ s[i + 1 - 1].what = "from" /\ s[i + 1 - 1].wd = s[i + 1].wd
            /\ s[i + 1 - 1].file = s[i + 1].file /\ s[i + 1 - 1].cookie = s[i + 1].cookie
        BY <2>3 DEF Paired
      <3>2. QED
        BY <2>3, <3>1
    <2>5. QED
      BY <2>2, <2>4
  <1>4. ClosedOnce(t)
    <2> SUFFICES ASSUME NEW i \in DOMAIN t, NEW j \in DOMAIN t, t[i].what = "close", t[j].what = "close",
                        t[i].file = t[j].file
                 PROVE  i = j
      BY DEF ClosedOnce
    <2>1. i + 1 = j + 1
      BY <1>1, <1>2 DEF ClosedOnce
    <2>2. QED
      BY <1>2, <2>1
  <1>5. QED
    BY <1>3, <1>4

\* The order of what is left when an event was handled: if it was an old name, the new one is
\* first now, and expected.
LEMMA OrderTaken ==
  ASSUME EventsType, Handling, lossy = FALSE, Order, Stream' = Tail(Stream),
         UNCHANGED <<wds, files>>, e.what = "from" => moved' = e.cookie \/ RowOf(e) = 0
  PROVE  /\ Paired(Stream)' /\ Expected' /\ ClosedOnce(Stream)'
         /\ \A i \in DOMAIN Stream' : i + 1 \in DOMAIN Stream /\ i + 1 # 1 /\ Stream'[i] = Stream[i + 1]
  <1>1. PICK s \in Seq(AnyEvent) : s = Stream
    BY StreamFacts
  <1>2. PICK t \in Seq(AnyEvent) : t = Tail(s)
    BY <1>1, HandlingFacts, TailFacts
  <1>3. /\ s # << >> /\ s[1] = e /\ Len(s) \in Nat /\ DOMAIN s = 1 .. Len(s)
        /\ DOMAIN t = 1 .. Len(s) - 1 /\ \A i \in DOMAIN t : t[i] = s[i + 1]
    BY <1>1, <1>2, HandlingFacts, TailFacts, SeqFacts
  <1>4. \A i \in DOMAIN t : i + 1 \in DOMAIN s /\ i + 1 > 1 /\ i + 1 # 1 /\ i + 1 - 1 = i /\ i \in Nat /\ i >= 1
    BY <1>3
  <1>5. Stream' = t
    BY <1>1, <1>2
  <1>6. Paired(s) /\ ClosedOnce(s)
    BY <1>1 DEF Order
  <1>7. Paired(t) /\ ClosedOnce(t)
    BY <1>2, <1>3, <1>6, TailOrder
  <1>9. Expected'
    <2> SUFFICES ASSUME t # << >>, t[1].what = "to"
                 PROVE  moved' = t[1].cookie \/ RowOf(t[1])' = 0
      BY <1>5 DEF Expected
    <2>1. 1 \in DOMAIN t
      BY <1>2, <1>3, TailFacts
    <2>2. t[1] = s[2] /\ 2 \in DOMAIN s
      <3>1. t[1] = s[1 + 1] /\ 1 + 1 \in DOMAIN s /\ 1 + 1 = 2
        BY <1>3, <1>4, <2>1
      <3>2. QED
        BY <3>1
    <2>3. e.what = "from" /\ e.wd = t[1].wd /\ e.file = t[1].file /\ e.cookie = t[1].cookie
      <3>1. PICK k : k = 2
        OBVIOUS
      <3>2. k \in DOMAIN s /\ k > 1 /\ s[k].what = "to" /\ k - 1 = 1
        BY <2>2, <3>1
      <3>3. /\ s[k - 1].what = "from" /\ s[k - 1].wd = s[k].wd
            /\ s[k - 1].file = s[k].file /\ s[k - 1].cookie = s[k].cookie
        BY <1>6, <3>2 DEF Paired
      <3>4. QED
        BY <1>3, <2>2, <3>1, <3>2, <3>3
    <2>4. PICK ev : ev = e
      OBVIOUS
    <2>5. RowOf(t[1])' = RowOf(ev)
      BY <2>3, <2>4, RowSame
    <2>6. QED
      BY <2>3, <2>4, <2>5
  <1>10. Paired(Stream)' /\ ClosedOnce(Stream)'
    BY <1>5, <1>7 DEF Paired, ClosedOnce
  <1>11. QED
    BY <1>1, <1>3, <1>4, <1>5, <1>9, <1>10

\* Without a new report those there were stay as they should be.
LEMMA SameReports ==
  ASSUME ReportsType, OwnRows, UNCHANGED <<reports, files>>
  PROVE  ReportsType' /\ OwnRows'
  BY DEF ReportsType, OwnRows, OwnRow, Files

\* The parts of a state in which an event was handled that was not about a directory.
LEMMA HandledStep ==
  ASSUME Inv, Handling, queue' = queue, buf' = Tail(buf) \/ Abandon, lossy' \in BOOLEAN,
         lossy' = FALSE => lossy = FALSE /\ e.what \notin Gone,
         UNCHANGED <<fs, files, watches, wds, cwds, up, noticed, renames, moves>>,
         ReportsType', CountsType', OwnRows',
         lossy' = FALSE => /\ e.what = "from" => moved' = e.cookie \/ RowOf(e) = 0
                           /\ NotYet(Stream)' /\ Single'
  PROVE  Inv'
  <1>1. Typing /\ DirsOK /\ CountOK /\ HomeOK /\ OwnRows /\ Order /\ DirsFollowed
        /\ EventsType /\ CountsType
    BY DEF Inv, Typing
  <1>2. /\ buf' \in Seq(AnyEvent) /\ queue' \in Seq(AnyEvent) /\ Range(buf') \subseteq Range(buf)
        /\ lossy' = FALSE => Stream' = Tail(Stream)
        /\ lossy' = FALSE => \A ev \in Events : ev # e => ev \in Events'
    BY <1>1, TakeFacts
  <1>3. Len(queue') <= MaxQueue + 1 /\ Events' \subseteq Events
    BY <1>1, <1>2 DEF EventsType, Events
  <1>4. lossy' = FALSE => \A ev \in Events : ev.what \in Gone => ev \in Events'
    BY <1>2
  <1>5. DirsType' /\ FilesType' /\ WatchesType' /\ EventsType' /\ DirsOK' /\ CountOK' /\ HomeOK'
        /\ DirsFollowed'
    BY <1>1, <1>2, <1>3, <1>4, TakenStep
  <1>6. Order'
    <2> SUFFICES ASSUME lossy' = FALSE
                 PROVE  Paired(Stream)' /\ Expected' /\ ClosedOnce(Stream)' /\ NotYet(Stream)' /\ Single'
      BY DEF Order
    <2>1. Paired(Stream)' /\ Expected' /\ ClosedOnce(Stream)'
      BY <1>1, <1>2, OrderTaken
    <2>2. QED
      BY <2>1
  <1>7. QED
    BY <1>5, <1>6 DEF Inv, Typing

\* NotYet when the reports are as they were.
LEMMA NotYetTaken ==
  ASSUME EventsType, Handling, lossy = FALSE, Order, Stream' = Tail(Stream),
         UNCHANGED <<wds, files, reports>>, e.what = "from" => moved' = e.cookie \/ RowOf(e) = 0
  PROVE  NotYet(Stream)' /\ Single'
  <1>1. \A i \in DOMAIN Stream' : i + 1 \in DOMAIN Stream /\ Stream'[i] = Stream[i + 1]
    BY OrderTaken
  <1>2. NotYet(Stream) /\ Single
    BY DEF Order
  <1>3. QED
    BY <1>1, <1>2 DEF NotYet, Single

\* A handler that reports nothing.
LEMMA SilentStep ==
  ASSUME Inv, Handling, queue' = queue, buf' = Tail(buf), lossy' \in BOOLEAN,
         lossy' = FALSE => lossy = FALSE /\ e.what \notin Gone,
         UNCHANGED <<fs, files, watches, wds, cwds, up, noticed, renames, moves, reports, faults>>,
         moved' \in 0 .. renames,
         lossy' = FALSE => (e.what = "from" => moved' = e.cookie \/ RowOf(e) = 0)
  PROVE  Inv'
  <1>1. EventsType /\ CountsType /\ Order /\ ReportsType /\ OwnRows
    BY DEF Inv, Typing
  <1>2. ReportsType' /\ OwnRows'
    BY <1>1, SameReports
  <1>3. CountsType'
    BY <1>1 DEF CountsType
  <1>4. lossy' = FALSE => NotYet(Stream)' /\ Single'
    BY <1>1, HandlingFacts, NotYetTaken DEF Stream
  <1>5. QED
    BY <1>2, <1>3, <1>4, HandledStep
-----------------------------------------------------------------------------
(* The actions of receive_inotify_events.                                  *)

LEMMA ReadStep == Inv /\ Read => Inv'
  <1> SUFFICES ASSUME Inv, Read PROVE Inv'
    OBVIOUS
  <1>1. /\ Typing /\ DirsOK /\ CountOK /\ HomeOK /\ OwnRows /\ Order /\ DirsFollowed
        /\ EventsType /\ CountsType /\ ReportsType
    BY DEF Inv, Typing
  <1>2. PICK n \in 1 .. Len(queue) :
          buf' = SubSeq(queue, 1, n) /\ queue' = SubSeq(queue, n + 1, Len(queue))
    BY DEF Read
  <1>3. buf = << >> /\ queue \in Seq(AnyEvent) /\ Len(queue) \in Nat /\ Len(queue) <= MaxQueue + 1
        /\ \A i \in 1 .. Len(queue) : queue[i] \in AnyEvent
    BY <1>1, SeqFacts DEF EventsType, Read
  <1>4. /\ SubSeq(queue, 1, n) \in Seq(AnyEvent)
        /\ SubSeq(queue, n + 1, Len(queue)) \in Seq(AnyEvent)
        /\ Len(SubSeq(queue, n + 1, Len(queue))) <= Len(queue)
    <2>1. /\ 1 \in Int /\ n \in Int /\ n + 1 \in Int /\ Len(queue) \in Int
          /\ \A i \in 1 .. n : queue[i] \in AnyEvent
          /\ \A i \in n + 1 .. Len(queue) : queue[i] \in AnyEvent
      BY <1>3
    <2>2. SubSeq(queue, 1, n) \in Seq(AnyEvent)
      BY <2>1, SubSeqProperties
    <2>3. /\ SubSeq(queue, n + 1, Len(queue)) \in Seq(AnyEvent)
          /\ Len(SubSeq(queue, n + 1, Len(queue)))
               = IF n + 1 <= Len(queue) THEN Len(queue) - (n + 1) + 1 ELSE 0
      BY <2>1, SubSeqProperties
    <2>4. QED
      BY <1>3, <2>2, <2>3
  <1>5. SubSeq(queue, 1, n) \o SubSeq(queue, n + 1, Len(queue)) = queue
    <2>1. 1 \in 1 .. Len(queue) + 1 /\ n \in 1 - 1 .. Len(queue) /\ Len(queue) \in n .. Len(queue)
      BY <1>3
    <2>2. SubSeq(queue, 1, n) \o SubSeq(queue, n + 1, Len(queue)) = SubSeq(queue, 1, Len(queue))
      BY <1>3, <2>1, ConcatAdjacentSubSeq
    <2>3. QED
      BY <1>3, <2>2, SubSeqFull
  <1>6. Stream' = Stream
    BY <1>2, <1>3, <1>5, ConcatEmptySeq DEF Stream
  <1>7. /\ buf' \in Seq(AnyEvent) /\ queue' \in Seq(AnyEvent) /\ Len(queue') <= MaxQueue + 1
    BY <1>2, <1>3, <1>4, SeqFacts, Constants
  <1>8. Events' = Events
    <2>1. Range(Stream') = Range(buf') \cup Range(queue')
      BY <1>7, RangeConcatenation DEF Stream
    <2>2. QED
      BY <1>1, <1>6, <2>1, StreamFacts DEF Events
  <1>9. UNCHANGED <<fs, files, watches, wds, cwds, moved, up, noticed, reports, lossy, renames,
                    moves, faults>>
    BY DEF Read, daemon
  <1>10. DirsType' /\ FilesType' /\ WatchesType' /\ EventsType' /\ DirsOK' /\ CountOK' /\ HomeOK'
         /\ DirsFollowed'
    BY <1>1, <1>7, <1>8, <1>9, TakenStep DEF CountsType
  <1>11. ReportsType' /\ OwnRows' /\ CountsType'
    BY <1>1, <1>9, SameReports DEF CountsType
  <1>12. Order'
    <2>1. Expected => Expected'
      <3>1. PICK ev : ev = Stream[1]
        OBVIOUS
      <3>2. RowOf(ev)' = RowOf(ev)
        BY <1>9, RowSame
      <3>3. QED
        BY <1>6, <1>9, <3>1, <3>2 DEF Expected
    <2>2. QED
      BY <1>1, <1>6, <1>9, <2>1 DEF Order, Paired, ClosedOnce, NotYet, Single
  <1>13. QED
    BY <1>10, <1>11, <1>12 DEF Inv, Typing

LEMMA StrayStep == Inv /\ HandleStray => Inv'
  <1> SUFFICES ASSUME Inv, HandleStray PROVE Inv'
    OBVIOUS
  <1>1. EventsType /\ CountsType /\ moved \in 0 .. renames /\ lossy \in BOOLEAN
    BY DEF Inv, Typing, CountsType
  <1>2. /\ Handling /\ RowOf(e) = 0 /\ buf' = Tail(buf) /\ queue' = queue /\ moved' = moved
        /\ lossy' = (lossy \/ e.what \in Gone)
        /\ UNCHANGED <<fs, files, watches, wds, cwds, up, noticed, renames, moves, reports, faults>>
    BY DEF HandleStray, Gone, daemon
  <1>3. lossy' \in BOOLEAN /\ (lossy' = FALSE => lossy = FALSE /\ e.what \notin Gone)
    BY <1>1, <1>2
  <1>4. QED
    BY <1>1, <1>2, <1>3, SilentStep

LEMMA FromStep == Inv /\ HandleFrom => Inv'
  <1> SUFFICES ASSUME Inv, HandleFrom PROVE Inv'
    OBVIOUS
  <1>1. EventsType /\ renames \in Nat /\ lossy \in BOOLEAN
    BY Constants DEF Inv, Typing, CountsType
  <1>2. /\ Handling /\ e.what = "from" /\ buf' = Tail(buf) /\ queue' = queue /\ moved' = e.cookie
        /\ lossy' = lossy
        /\ UNCHANGED <<fs, files, watches, wds, cwds, up, noticed, renames, moves, reports, faults>>
    BY DEF HandleFrom, Continue
  <1>3. moved' \in 0 .. renames
    <2>1. e.cookie \in Nat /\ e.cookie <= renames
      BY <1>1, <1>2, HandlingFacts, EventFacts DEF Told
    <2>2. QED
      BY <1>1, <1>2, <2>1
  <1>4. e.what \notin Gone
    BY <1>2 DEF Gone
  <1>5. QED
    BY <1>1, <1>2, <1>3, <1>4, SilentStep

LEMMA RenamedStep == Inv /\ HandleRenamed => Inv'
  <1> SUFFICES ASSUME Inv, HandleRenamed PROVE Inv'
    OBVIOUS
  <1>1. EventsType /\ renames \in Nat /\ lossy \in BOOLEAN
    BY Constants DEF Inv, Typing, CountsType
  <1>2. /\ Handling /\ e.what = "to" /\ buf' = Tail(buf) /\ queue' = queue /\ moved' = 0
        /\ lossy' = lossy
        /\ UNCHANGED <<fs, files, watches, wds, cwds, up, noticed, renames, moves, reports, faults>>
    BY DEF HandleRenamed, IsRenamed, Continue
  <1>3. moved' \in 0 .. renames /\ e.what \notin Gone /\ e.what # "from"
    BY <1>1, <1>2 DEF Gone
  <1>4. QED
    BY <1>1, <1>2, <1>3, SilentStep

\* The file that a row takes was created in the directory of the row.
LEMMA RowOwnsFile ==
  ASSUME Typing, HomeOK, NEW ev \in Events, RowOf(ev) # 0
  PROVE  /\ ev.file \in 1 .. Len(files)
         /\ Table[RowOf(ev)].path = files[ev.file].path
         /\ Table[RowOf(ev)].pattern \in Patterns[files[ev.file].tag]
         /\ \A s \in 1 .. RowOf(ev) - 1 :
              ~ (Table[s].path = files[ev.file].path /\ Table[s].pattern \in Patterns[files[ev.file].tag])
  <1>1. PICK r : r = RowOf(ev)
    OBVIOUS
  <1>2. /\ r \in Rows /\ r \in Nat /\ wds[r] = ev.wd /\ ev.file # 0
        /\ Table[r].pattern \in Patterns[files[ev.file].tag]
        /\ \A s \in Rows : wds[s] = ev.wd /\ Table[s].pattern \in Patterns[files[ev.file].tag] => r <= s
    BY <1>1, RowOfFacts, Constants
  <1>3. EventsType /\ WatchesType
    BY DEF Typing
  <1>4. Told(ev) /\ ev \in AnyEvent
    <2>1. PICK i \in DOMAIN Stream : ev = Stream[i]
      BY <1>3, StreamFacts DEF Range
    <2>2. QED
      BY <1>3, <2>1, StreamFacts
  <1>5. ev # Overflow
    BY <1>2, OverflowFacts
  <1>6. ev.file \in 1 .. Len(files)
    BY <1>2, <1>4, EventFacts DEF Told, Typing, FilesType
  <1>7. ev.wd # -1
    <2>1. ev.wd \in 1 .. Len(watches)
      BY <1>4, <1>5 DEF Told
    <2>2. QED
      BY <1>3, <2>1, SeqFacts DEF WatchesType
  <1>8. Table[r].path = files[ev.file].path
    <2>1. PICK home, own : HomeOf(home, own)
      BY DEF HomeOK
    <2>2. own[wds[r]] = Table[r].path
      BY <1>2, <1>7, <2>1 DEF HomeOf
    <2>3. own[ev.wd] = files[ev.file].path
      BY <1>2, <2>1 DEF HomeOf
    <2>4. QED
      BY <1>2, <2>2, <2>3
  <1>9. ASSUME NEW s \in 1 .. r - 1, Table[s].path = files[ev.file].path,
               Table[s].pattern \in Patterns[files[ev.file].tag]
        PROVE  FALSE
    <2>1. s \in Rows /\ ~ (r <= s)
      BY <1>2, Constants
    <2>2. wds[s] = wds[r]
      BY <1>2, <1>3, <1>8, <1>9, <2>1 DEF WatchesType
    <2>3. QED
      BY <1>2, <1>9, <2>1, <2>2
  <1>10. QED
    BY <1>1, <1>2, <1>6, <1>8, <1>9

Report == [row : 0 .. Len(Table), file : Files]

\* As long as no event was lost, only the event of the file itself is taken for a new one.
LEMMA NotNewName ==
  ASSUME EventsType, Order, lossy = FALSE, Handling, e.what \in {"close", "to"}, ~IsRenamed, RowOf(e) # 0
  PROVE  e.what = "close"
  <1> SUFFICES ASSUME e.what = "to" PROVE FALSE
    OBVIOUS
  <1>1. Stream # << >> /\ Stream[1] = e /\ Told(e)
    BY HandlingFacts
  <1>2. Expected
    BY DEF Order
  <1>3. moved = e.cookie
    BY <1>1, <1>2 DEF Expected
  <1>4. e.cookie # 0
    BY <1>1 DEF Told
  <1>5. QED
    BY <1>3, <1>4 DEF IsRenamed

LEMMA FileStep == Inv /\ HandleFile => Inv'
  <1> SUFFICES ASSUME Inv, HandleFile PROVE Inv'
    OBVIOUS
  <1>1. /\ Typing /\ HomeOK /\ OwnRows /\ Order /\ EventsType /\ CountsType /\ ReportsType
        /\ lossy \in BOOLEAN /\ faults \in 0 .. MaxFaults /\ FilesType
    BY DEF Inv, Typing, CountsType
  <1>2. PICK r : r = RowOf(e)
    OBVIOUS
  <1>3. PICK f : f = e.file
    OBVIOUS
  <1>4. PICK new : new = [row |-> r, file |-> f]
    OBVIOUS
  <1>5. /\ Handling /\ e.what \in {"close", "to"} /\ ~IsRenamed /\ r # 0
        /\ reports' = Append(reports, new) /\ queue' = queue /\ moved' = moved
        /\ UNCHANGED <<fs, files, watches, wds, cwds, up, noticed, renames, moves>>
    BY <1>2, <1>3, <1>4 DEF HandleFile, daemon
  <1>6. /\ Continue \/ Abandon
        /\ faults' = faults \/ (faults < MaxFaults /\ faults' = faults + 1)
    BY DEF HandleFile, Fault
  <1>7. faults' \in 0 .. MaxFaults
    BY <1>1, <1>6, Constants
  <1>8. lossy' \in BOOLEAN /\ (lossy' = FALSE => lossy = FALSE)
    <2>1. CASE Continue
      BY <1>1, <2>1 DEF Continue
    <2>2. CASE Abandon
      <3> DEFINE more == Len(buf) > 1
      <3>1. lossy' = (lossy \/ more)
        BY <2>2 DEF Abandon
      <3> HIDE DEF more
      <3>2. QED
        BY <1>1, <3>1
    <2>3. QED
      BY <1>6, <2>1, <2>2
  <1>9. e \in Events
    BY <1>1, <1>5, HandlingFacts
  <1>10. PICK ev : ev = e
    OBVIOUS
  <1>11. /\ f \in 1 .. Len(files) /\ r \in Rows
         /\ Table[r].path = files[f].path /\ Table[r].pattern \in Patterns[files[f].tag]
         /\ \A s \in 1 .. r - 1 :
              ~ (Table[s].path = files[f].path /\ Table[s].pattern \in Patterns[files[f].tag])
    BY <1>1, <1>2, <1>3, <1>5, <1>9, RowOwnsFile, RowOfFacts
  <1>12. new \in Report /\ new.row = r /\ new.file = f
    <2>1. f \in Files /\ r \in 0 .. Len(Table)
      BY <1>1, <1>11, Constants, SeqFacts DEF Files, FilesType
    <2>2. QED
      BY <1>4, <2>1 DEF Report
  <1>13. /\ reports' \in Seq(Report) /\ DOMAIN reports' = 1 .. Len(reports) + 1
         /\ DOMAIN reports = 1 .. Len(reports) /\ Len(reports) \in Nat
         /\ \A i \in DOMAIN reports : reports'[i] = reports[i]
         /\ reports'[Len(reports) + 1] = new
    <2>1. reports \in Seq(Report)
      BY <1>1 DEF ReportsType, Report
    <2>2. QED
      BY <1>5, <1>12, <2>1, AppendFacts, SeqFacts
  <1>14. \A i \in DOMAIN reports' :
           (i \in DOMAIN reports /\ reports'[i] = reports[i]) \/ (i = Len(reports) + 1 /\ reports'[i] = new)
    BY <1>13
  <1>15. ReportsType'
    <2>1. \A i \in DOMAIN reports' : reports'[i].file \in 1 .. Len(files)
      BY <1>1, <1>11, <1>12, <1>14 DEF ReportsType
    <2>2. QED
      BY <1>5, <1>13, <2>1 DEF ReportsType, Report, Files
  <1>16. OwnRows'
    <2> SUFFICES ASSUME NEW i \in DOMAIN reports' PROVE OwnRow(i)'
      BY DEF OwnRows
    <2>1. CASE i \in DOMAIN reports /\ reports'[i] = reports[i]
      BY <1>1, <1>5, <2>1 DEF OwnRows, OwnRow
    <2>2. CASE i = Len(reports) + 1 /\ reports'[i] = new
      BY <1>5, <1>11, <1>12, <2>2 DEF OwnRow
    <2>3. QED
      BY <1>14, <2>1, <2>2
  <1>17. CountsType'
    BY <1>1, <1>5, <1>7, <1>8 DEF CountsType
  <1>18. ASSUME lossy' = FALSE
         PROVE  e.what = "close" /\ NotYet(Stream)' /\ Single'
    <2>1. lossy = FALSE
      BY <1>8, <1>18
    <2>2. e.what = "close"
      BY <1>1, <1>2, <1>5, <2>1, NotNewName
    <2>3. Stream' = Tail(Stream)
      BY <1>1, <1>5, <1>6, <1>8, <1>18, TakeFacts DEF Continue
    <2>4. \A i \in DOMAIN Stream' : i + 1 \in DOMAIN Stream /\ i + 1 # 1 /\ Stream'[i] = Stream[i + 1]
      BY <1>1, <1>5, <2>1, <2>2, <2>3, OrderTaken
    <2>5. ClosedOnce(Stream) /\ NotYet(Stream) /\ Single /\ Stream[1] = e /\ 1 \in DOMAIN Stream
      BY <1>1, <1>5, <2>1, HandlingFacts DEF Order
    <2>6. \A i \in DOMAIN Stream' : Stream'[i].what = "close" => Stream'[i].file # f
      BY <1>3, <2>2, <2>4, <2>5 DEF ClosedOnce
    <2>7. \A k \in DOMAIN reports : reports[k].row # 0 => reports[k].file # f
      BY <1>3, <2>2, <2>5 DEF NotYet
    <2>8. NotYet(Stream)'
      <3> SUFFICES ASSUME NEW i \in DOMAIN Stream', NEW k \in DOMAIN reports',
                          Stream'[i].what = "close", reports'[k].row # 0
                   PROVE  reports'[k].file # Stream'[i].file
        BY DEF NotYet
      <3>1. CASE k \in DOMAIN reports /\ reports'[k] = reports[k]
        BY <2>4, <2>5, <3>1 DEF NotYet
      <3>2. CASE reports'[k] = new
        BY <1>12, <2>6, <3>2
      <3>3. QED
        BY <1>14, <3>1, <3>2
    <2>9. Single'
      <3> SUFFICES ASSUME NEW k \in DOMAIN reports', NEW l \in DOMAIN reports', reports'[k].row # 0,
                          reports'[l].row # 0, reports'[k].file = reports'[l].file
                   PROVE  k = l
        BY DEF Single
      <3>1. CASE k \in DOMAIN reports /\ reports'[k] = reports[k] /\ l \in DOMAIN reports /\ reports'[l] = reports[l]
        BY <2>5, <3>1 DEF Single
      <3>2. CASE reports'[k] = new /\ l \in DOMAIN reports /\ reports'[l] = reports[l]
        BY <1>12, <2>7, <3>2
      <3>3. CASE reports'[l] = new /\ k \in DOMAIN reports /\ reports'[k] = reports[k]
        BY <1>12, <2>7, <3>3
      <3>4. QED
        BY <1>14, <3>1, <3>2, <3>3
    <2>10. QED
      BY <2>2, <2>8, <2>9
  <1>19. buf' = Tail(buf) \/ Abandon
    BY <1>6 DEF Continue
  <1>20. e.what \notin Gone /\ (e.what = "from" => FALSE)
    BY <1>5 DEF Gone
  <1>21. QED
    BY <1>5, <1>8, <1>15, <1>16, <1>17, <1>18, <1>19, <1>20, HandledStep

\* The reports of HandleCreated are of no row.
LEMMA Appended ==
  ASSUME NEW s \in Seq(Report), NEW new \in Report, NEW g, g = << >> \/ g = <<new>>
  PROVE  /\ s \o g \in Seq(Report)
         /\ \A i \in DOMAIN (s \o g) : (i \in DOMAIN s /\ (s \o g)[i] = s[i]) \/ (s \o g)[i] = new
  <1>1. CASE g = << >>
    BY <1>1, ConcatEmptySeq
  <1>2. CASE g = <<new>>
    <2>1. s \o g = Append(s, new)
      BY <1>2, AppendIsConcat
    <2>2. /\ Append(s, new) \in Seq(Report) /\ DOMAIN Append(s, new) = 1 .. Len(s) + 1
          /\ \A i \in DOMAIN s : Append(s, new)[i] = s[i]
          /\ Append(s, new)[Len(s) + 1] = new /\ DOMAIN s = 1 .. Len(s) /\ Len(s) \in Nat
      BY AppendFacts, SeqFacts
    <2>3. QED
      BY <2>1, <2>2
  <1>3. QED
    BY <1>1, <1>2

LEMMA CreatedStep == Inv /\ HandleCreated => Inv'
  <1> SUFFICES ASSUME Inv, HandleCreated PROVE Inv'
    OBVIOUS
  <1>1. /\ Typing /\ OwnRows /\ Order /\ EventsType /\ CountsType /\ ReportsType /\ FilesType
        /\ lossy \in BOOLEAN
    BY DEF Inv, Typing, CountsType
  <1>2. PICK new : new = [row |-> 0, file |-> e.file]
    OBVIOUS
  <1>3. /\ Handling /\ e.what = "create" /\ buf' = Tail(buf) /\ lossy' = lossy /\ queue' = queue
        /\ UNCHANGED <<fs, files, watches, wds, cwds, moved, up, noticed, renames, moves, faults>>
    BY DEF HandleCreated, Continue, daemon
  <1>4. \E byRow, byWatch \in BOOLEAN :
          reports' = (reports \o (IF byRow THEN <<new>> ELSE << >>))
                              \o (IF byWatch THEN <<new>> ELSE << >>)
    <2> DEFINE c       == ConfigOf(files[e.file].tag)
               byRow   == c # 0 /\ \E r \in RowsOf(e.wd) : Table[r].kind = "modem"
               byWatch == c # 0 /\ cwds[c] = e.wd
    <2>1. reports' = (reports \o (IF byRow THEN <<new>> ELSE << >>))
                              \o (IF byWatch THEN <<new>> ELSE << >>)
      BY <1>2, Zenon DEF HandleCreated
    <2>2. byRow \in BOOLEAN /\ byWatch \in BOOLEAN
      OBVIOUS
    <2> HIDE DEF byRow, byWatch
    <2>3. QED
      BY <2>1, <2>2, Zenon
  <1>5. PICK g, h : /\ g = << >> \/ g = <<new>>
                    /\ h = << >> \/ h = <<new>>
                    /\ reports' = (reports \o g) \o h
    BY <1>4
  <1>6. e.file \in 1 .. Len(files) /\ new \in Report /\ new.row = 0 /\ new.file = e.file
    <2>1. Told(e) /\ e \in AnyEvent
      BY <1>1, <1>3, HandlingFacts
    <2>2. e.file # 0 /\ e.file <= Len(files) /\ e.file \in Nat
      BY <1>3, <2>1, EventFacts DEF Told, OfFiles
    <2>3. e.file \in 1 .. Len(files) /\ e.file \in Files
      BY <1>1, <2>2, SeqFacts, Constants DEF FilesType, Files
    <2>4. QED
      BY <1>2, <2>3, Constants DEF Report
  <1>7. PICK mid : mid = reports \o g
    OBVIOUS
  <1>8. /\ mid \in Seq(Report)
        /\ \A i \in DOMAIN mid : (i \in DOMAIN reports /\ mid[i] = reports[i]) \/ mid[i] = new
    <2>1. reports \in Seq(Report)
      BY <1>1 DEF ReportsType, Report
    <2>2. QED
      BY <1>5, <1>6, <1>7, <2>1, Appended
  <1>9. /\ reports' \in Seq(Report)
        /\ \A i \in DOMAIN reports' : (i \in DOMAIN mid /\ reports'[i] = mid[i]) \/ reports'[i] = new
    BY <1>5, <1>6, <1>7, <1>8, Appended
  <1>10. \A i \in DOMAIN reports' :
           (i \in DOMAIN reports /\ reports'[i] = reports[i]) \/ reports'[i] = new
    BY <1>8, <1>9
  <1>11. ReportsType'
    <2>1. \A i \in DOMAIN reports' : reports'[i].file \in 1 .. Len(files)
      BY <1>1, <1>6, <1>10 DEF ReportsType
    <2>2. QED
      BY <1>3, <1>9, <2>1 DEF ReportsType, Report, Files
  <1>12. OwnRows'
    <2> SUFFICES ASSUME NEW i \in DOMAIN reports' PROVE OwnRow(i)'
      BY DEF OwnRows
    <2>1. CASE i \in DOMAIN reports /\ reports'[i] = reports[i]
      BY <1>1, <1>3, <2>1 DEF OwnRows, OwnRow
    <2>2. CASE reports'[i] = new
      BY <1>6, <2>2 DEF OwnRow
    <2>3. QED
      BY <1>10, <2>1, <2>2
  <1>13. CountsType'
    BY <1>1, <1>3 DEF CountsType
  <1>14. ASSUME lossy' = FALSE PROVE NotYet(Stream)' /\ Single'
    <2>1. lossy = FALSE /\ Stream' = Tail(Stream) /\ e.what # "from"
      BY <1>1, <1>3, <1>14, TakeFacts
    <2>2. \A i \in DOMAIN Stream' : i + 1 \in DOMAIN Stream /\ i + 1 # 1 /\ Stream'[i] = Stream[i + 1]
      BY <1>1, <1>3, <2>1, OrderTaken
    <2>3. NotYet(Stream) /\ Single
      BY <1>1, <2>1 DEF Order
    <2>4. \A k \in DOMAIN reports' : reports'[k].row # 0 => k \in DOMAIN reports /\ reports'[k] = reports[k]
      BY <1>6, <1>10
    <2>5. NotYet(Stream)'
      BY <2>2, <2>3, <2>4 DEF NotYet
    <2>6. Single'
      BY <2>3, <2>4 DEF Single
    <2>7. QED
      BY <2>5, <2>6
  <1>15. e.what \notin Gone /\ e.what # "from"
    BY <1>3 DEF Gone
  <1>16. QED
    BY <1>1, <1>3, <1>11, <1>12, <1>13, <1>14, <1>15, HandledStep
-----------------------------------------------------------------------------
(* Steps that add events to the stream.                                    *)

\* Events that may be added when n files were created: at most one of a file that is created
\* now, and no new name without the old one before it.
Fresh(es, n) ==
  \A i \in DOMAIN es :
    /\ es[i].what = "close" => i = 1 /\ es[i].file > n
    /\ es[i].what = "to" =>
         /\ i > 1 /\ es[i - 1].what = "from" /\ es[i - 1].wd = es[i].wd
         /\ es[i - 1].file = es[i].file /\ es[i - 1].cookie = es[i].cookie

LEMMA OrderAdded ==
  ASSUME NEW t \in Seq(AnyEvent), NEW es \in Seq(AnyEvent), NEW n \in Nat, Fresh(es, n),
         Paired(t), ClosedOnce(t), \A i \in DOMAIN t : t[i].file <= n
  PROVE  Paired(t \o es) /\ ClosedOnce(t \o es)
  <1>1. PICK s : s = t \o es
    OBVIOUS
  <1>2. /\ Len(t) \in Nat /\ Len(es) \in Nat /\ DOMAIN t = 1 .. Len(t) /\ DOMAIN es = 1 .. Len(es)
        /\ DOMAIN s = 1 .. Len(t) + Len(es)
        /\ \A i \in 1 .. Len(t) : s[i] = t[i] /\ t[i].file \in Nat
        /\ \A i \in 1 .. Len(es) : s[Len(t) + i] = es[i] /\ es[i].file \in Nat
    BY <1>1, ConcatFacts, SeqFacts, EventFacts
  <1>3. ASSUME NEW i \in DOMAIN s, ~ (i \in DOMAIN t)
        PROVE  \E j \in DOMAIN es : i = Len(t) + j /\ s[i] = es[j]
    <2>1. i - Len(t) \in DOMAIN es /\ i = Len(t) + (i - Len(t))
      BY <1>2, <1>3
    <2>2. s[Len(t) + (i - Len(t))] = es[i - Len(t)]
      BY <1>2, <2>1
    <2>3. QED
      BY <2>1, <2>2
  <1>4. Paired(s)
    <2> SUFFICES ASSUME NEW i \in DOMAIN s, i > 1, s[i].what = "to"
                 PROVE  /\ s[i - 1].what = "from" /\ s[i - 1].wd = s[i].wd
                        /\ s[i - 1].file = s[i].file /\ s[i - 1].cookie = s[i].cookie
      BY DEF Paired
    <2>1. CASE i \in DOMAIN t
      <3>1. i - 1 \in DOMAIN t /\ s[i] = t[i] /\ s[i - 1] = t[i - 1]
        BY <1>2, <2>1
      <3>2. QED
        BY <2>1, <3>1 DEF Paired
    <2>2. CASE ~ (i \in DOMAIN t)
      <3>1. PICK j \in DOMAIN es : i = Len(t) + j /\ s[i] = es[j]
        BY <1>3, <2>2
      <3>2. /\ j > 1 /\ es[j - 1].what = "from" /\ es[j - 1].wd = es[j].wd
            /\ es[j - 1].file = es[j].file /\ es[j - 1].cookie = es[j].cookie
        BY <3>1 DEF Fresh
      <3>3. j - 1 \in 1 .. Len(es) /\ i - 1 = Len(t) + (j - 1)
        <4>1. Len(t) \in Nat /\ Len(es) \in Nat /\ j \in 1 .. Len(es) /\ j > 1 /\ i = Len(t) + j
          BY <1>2, <3>1, <3>2
        <4>2. QED
          BY <4>1
      <3>4. s[i - 1] = es[j - 1]
        BY <1>2, <3>3
      <3>5. QED
        BY <3>1, <3>2, <3>4
    <2>3. QED
      BY <2>1, <2>2
  <1>5. ClosedOnce(s)
    <2> SUFFICES ASSUME NEW i \in DOMAIN s, NEW j \in DOMAIN s, s[i].what = "close", s[j].what = "close",
                        s[i].file = s[j].file
                 PROVE  i = j
      BY DEF ClosedOnce
    <2>0. ASSUME NEW k \in DOMAIN s, s[k].what = "close"
          PROVE  \/ k \in DOMAIN t /\ s[k] = t[k] /\ t[k].file <= n /\ t[k].file \in Nat
                 \/ ~ (k \in DOMAIN t) /\ k = Len(t) + 1 /\ s[k].file > n /\ s[k].file \in Nat
      <3>1. CASE k \in DOMAIN t
        BY <1>2, <3>1
      <3>2. CASE ~ (k \in DOMAIN t)
        <4>1. PICK m \in DOMAIN es : k = Len(t) + m /\ s[k] = es[m]
          BY <1>3, <3>2
        <4>2. m = 1 /\ es[m].file > n
          BY <2>0, <4>1 DEF Fresh
        <4>3. QED
          BY <1>2, <3>2, <4>1, <4>2
      <3>3. QED
        BY <3>1, <3>2
    <2>1. CASE i \in DOMAIN t /\ j \in DOMAIN t
      BY <1>2, <2>1 DEF ClosedOnce
    <2>2. CASE ~ (i \in DOMAIN t) /\ ~ (j \in DOMAIN t)
      BY <2>0, <2>2
    <2>3. CASE i \in DOMAIN t /\ ~ (j \in DOMAIN t)
      BY <2>0, <2>3
    <2>4. CASE ~ (i \in DOMAIN t) /\ j \in DOMAIN t
      BY <2>0, <2>4
    <2>5. QED
      BY <2>1, <2>2, <2>3, <2>4
  <1>6. QED
    BY <1>1, <1>4, <1>5

LEMMA NotYetAdded ==
  ASSUME ReportsType, NEW t \in Seq(AnyEvent), NEW es \in Seq(AnyEvent), NotYet(t),
         Len(files) \in Nat, Fresh(es, Len(files))
  PROVE  NotYet(t \o es)
  <1>1. PICK s : s = t \o es
    OBVIOUS
  <1>2. /\ Len(t) \in Nat /\ Len(es) \in Nat /\ DOMAIN t = 1 .. Len(t) /\ DOMAIN es = 1 .. Len(es)
        /\ DOMAIN s = 1 .. Len(t) + Len(es)
        /\ \A i \in 1 .. Len(t) : s[i] = t[i]
        /\ \A i \in 1 .. Len(es) : s[Len(t) + i] = es[i] /\ es[i].file \in Nat
    BY <1>1, ConcatFacts, SeqFacts, EventFacts
  <1>3. ASSUME NEW i \in DOMAIN s, NEW k \in DOMAIN reports, s[i].what = "close", reports[k].row # 0
        PROVE  reports[k].file # s[i].file
    <2>1. CASE i \in DOMAIN t
      BY <1>2, <1>3, <2>1 DEF NotYet
    <2>2. CASE ~ (i \in DOMAIN t)
      <3>1. i - Len(t) \in DOMAIN es /\ i = Len(t) + (i - Len(t))
        BY <1>2, <2>2
      <3>2. PICK j \in DOMAIN es : s[i] = es[j]
        BY <1>2, <3>1
      <3>3. s[i].file > Len(files) /\ s[i].file \in Nat
        BY <1>2, <1>3, <3>2 DEF Fresh
      <3>4. reports[k].file \in 1 .. Len(files)
        BY DEF ReportsType
      <3>5. QED
        BY <3>3, <3>4
    <2>3. QED
      BY <2>1, <2>2
  <1>4. QED
    BY <1>1, <1>3 DEF NotYet

\* The stream stays typed when what is new is told of what there is then.
LEMMA EventsGrow ==
  ASSUME EventsType, buf' \in Seq(AnyEvent), queue' \in Seq(AnyEvent), Len(queue') <= MaxQueue + 1,
         Len(watches) \in Nat, Len(watches') \in Nat, Len(watches) <= Len(watches'),
         Len(files) \in Nat, Len(files') \in Nat, Len(files) <= Len(files'),
         renames \in Nat, renames' \in Nat, renames <= renames',
         \A ev \in Events' : ev \in Events \/ ev = Overflow \/ Told(ev)'
  PROVE  EventsType'
  <1>1. ASSUME NEW ev \in Events' PROVE Told(ev)'
    <2>1. CASE ev \in Events
      <3>1. Told(ev) /\ ev \in AnyEvent
        <4>1. PICK i \in DOMAIN Stream : ev = Stream[i]
          BY <2>1, StreamFacts DEF Range
        <4>2. QED
          BY <4>1, StreamFacts
      <3>2. ev.wd \in Int /\ ev.file \in Nat /\ ev.ver \in Nat /\ ev.cookie \in Nat
        BY <3>1, EventFacts
      <3>3. ev.wd \in 1 .. Len(watches') \/ ev = Overflow
        BY <3>1, <3>2 DEF Told
      <3>4. ev.file <= Len(files') /\ ev.ver <= renames' /\ ev.cookie <= renames'
        BY <3>1, <3>2 DEF Told
      <3>5. QED
        BY <3>1, <3>3, <3>4 DEF Told
    <2>2. CASE ev = Overflow
      <3>1. Overflow.file = 0 /\ Overflow.ver = 0 /\ Overflow.cookie = 0 /\ Overflow.what = "overflow"
        BY DEF Overflow, SelfEvent, Event
      <3>2. QED
        BY <2>2, <3>1 DEF Told, OfFiles
    <2>3. QED
      BY <1>1, <2>1, <2>2
  <1>2. QED
    BY <1>1 DEF EventsType

\* The events qs are behind the others, or the state says that events were lost.
Queued(qs) ==
  /\ queue' \in Seq(AnyEvent) /\ Len(queue') <= MaxQueue + 1
  /\ Range(queue') \subseteq Range(queue) \cup Range(qs) \cup {Overflow}
  /\ lossy' \in BOOLEAN /\ (lossy' = FALSE => lossy = FALSE /\ queue' = queue \o qs)

LEMMA NotifyQueued ==
  ASSUME EventsType, CountsType, NEW w, NEW es \in Seq(AnyEvent), Notify(w, es)
  PROVE  \E qs \in Seq(AnyEvent) : /\ qs = << >> \/ qs = es
                                   /\ w # 0 => qs = es
                                   /\ w = 0 => qs = << >>
                                   /\ Queued(qs)
  <1>1. /\ queue' \in Seq(AnyEvent) /\ Len(queue') <= MaxQueue + 1
        /\ Range(queue') \subseteq Range(queue) \cup (IF w = 0 THEN {} ELSE Range(es) \cup {Overflow})
        /\ lossy' \in BOOLEAN /\ (lossy' = FALSE => lossy = FALSE)
        /\ lossy' = FALSE => queue' = (IF w = 0 THEN queue ELSE queue \o es)
    BY NotifyFacts
  <1>2. queue \o << >> = queue /\ << >> \in Seq(AnyEvent)
    BY ConcatEmptySeq, EmptySeq DEF EventsType
  <1>3. CASE w = 0
    BY <1>1, <1>2, <1>3 DEF Queued
  <1>4. CASE w # 0
    BY <1>1, <1>4 DEF Queued
  <1>5. QED
    BY <1>3, <1>4

\* A path gets a directory.
LEMMA FilledPath ==
  ASSUME DirsType, CountsType, NEW p \in Paths, NEW d \in Nat \ {0}, at' = [at EXCEPT ![p] = d]
  PROVE  /\ Cardinality(Missing) \in Nat /\ Cardinality(Missing') \in Nat
         /\ Cardinality(Missing') <= Cardinality(Missing)
         /\ at[p] = 0 => Cardinality(Missing') = Cardinality(Missing) - 1
  <1>1. at' \in [Paths -> Nat] /\ at \in [Paths -> Nat]
    BY Constants DEF DirsType, Dirs
  <1>2. Missing' = Missing \ {p}
    <2>1. ASSUME NEW q \in Paths PROVE at'[q] = 0 <=> at[q] = 0 /\ q # p
      BY <1>1
    <2>2. Missing' = {q \in Paths : at'[q] = 0}
      BY DEF Missing
    <2>3. QED
      BY <2>1, <2>2 DEF Missing
  <1>3. IsFiniteSet(Missing)
    BY PathsAssumption, FS_Subset DEF Missing
  <1>4. Cardinality(Missing) \in Nat
    BY <1>3, FS_CardinalityType
  <1>5. /\ IsFiniteSet(Missing \ {p})
        /\ Cardinality(Missing \ {p})
             = IF p \in Missing THEN Cardinality(Missing) - 1 ELSE Cardinality(Missing)
    BY <1>3, FS_RemoveElement
  <1>6. Cardinality(Missing \ {p}) \in Nat
    BY <1>5, FS_CardinalityType
  <1>7. at[p] = 0 <=> p \in Missing
    BY DEF Missing
  <1>8. QED
    BY <1>2, <1>4, <1>5, <1>6, <1>7

\* A path loses its directory.
LEMMA EmptiedPath ==
  ASSUME DirsType, CountsType, NEW p \in Paths, at[p] # 0, at' = [at EXCEPT ![p] = 0]
  PROVE  /\ Cardinality(Missing) \in Nat /\ Cardinality(Missing') \in Nat
         /\ Cardinality(Missing') = Cardinality(Missing) + 1
  <1>1. at \in [Paths -> Nat]
    BY Constants DEF DirsType, Dirs
  <1>2. Missing' = Missing \cup {p}
    <2>1. ASSUME NEW q \in Paths PROVE at'[q] = 0 <=> at[q] = 0 \/ q = p
      BY <1>1
    <2>2. Missing' = {q \in Paths : at'[q] = 0}
      BY DEF Missing
    <2>3. QED
      BY <2>1, <2>2 DEF Missing
  <1>3. IsFiniteSet(Missing) /\ p \notin Missing
    BY PathsAssumption, FS_Subset DEF Missing
  <1>4. QED
    BY <1>2, <1>3, FS_CardinalityType, FS_AddElement

\* A directory is made at a path that has none: it is one that can be counted.
LEMMA RoomForDir ==
  ASSUME DirsType, CountsType, CountOK, NEW p \in Paths, at[p] = 0
  PROVE  made + 1 \in Dirs
  <1>1. PICK n : n = Cardinality(Missing)
    OBVIOUS
  <1>2. IsFiniteSet(Missing)
    BY PathsAssumption, FS_Subset DEF Missing
  <1>3. n \in Nat /\ n # 0
    <2>1. p \in Missing
      BY DEF Missing
    <2>2. QED
      BY <1>1, <1>2, <2>1, FS_CardinalityType, FS_EmptySet
  <1>4. made + n <= Cardinality(Paths) + moves /\ moves <= MaxMoves /\ moves \in Nat /\ made \in Nat
    BY <1>1, Constants DEF CountOK, CountsType, DirsType, Dirs
  <1>5. QED
    BY <1>3, <1>4, Constants DEF Dirs
-----------------------------------------------------------------------------
(* A watched directory that was removed or moved.                          *)

LEMMA SelfFacts ==
  ASSUME Typing, Handling, IsSelf, RowsOf(e.wd) # {}
  PROVE  /\ Max(RowsOf(e.wd)) \in Rows /\ wds[Max(RowsOf(e.wd))] = e.wd
         /\ e.wd \in 1 .. Len(watches) /\ e.wd \in DOMAIN watches /\ e.wd # -1
         /\ e.what \in Gone /\ e.what \notin OfFiles
  <1>1. RowsOf(e.wd) \in SUBSET (0 .. Len(Table)) /\ Len(Table) \in Nat
    BY Constants DEF RowsOf
  <1>2. Max(RowsOf(e.wd)) \in RowsOf(e.wd)
    BY <1>1, MaxFacts
  <1>3. e.what \in Gone /\ e.what # "overflow" /\ e.what \notin OfFiles
    BY DEF IsSelf, Gone, OfFiles
  <1>4. EventsType /\ WatchesType
    BY DEF Typing
  <1>5. e.wd \in 1 .. Len(watches)
    <2>1. Told(e)
      BY <1>4, HandlingFacts
    <2>2. e # Overflow
      BY <1>3, OverflowFacts
    <2>3. QED
      BY <2>1, <2>2 DEF Told
  <1>6. Len(watches) \in Nat /\ DOMAIN watches = 1 .. Len(watches)
    BY <1>4, SeqFacts DEF WatchesType
  <1>7. QED
    BY <1>2, <1>3, <1>5, <1>6 DEF RowsOf

LEMMA IgnoredFacts ==
  ASSUME NEW wd \in Int
  PROVE  LET ev == SelfEvent("ignored", wd, FALSE)
         IN  /\ ev \in AnyEvent /\ ev.what = "ignored" /\ ev.wd = wd /\ ev.file = 0
             /\ ev.ver = 0 /\ ev.cookie = 0
             /\ <<ev>> \in Seq(AnyEvent) /\ Range(<<ev>>) = {ev} /\ << >> \in Seq(AnyEvent)
  <1>1. PICK ev : ev = SelfEvent("ignored", wd, FALSE)
    OBVIOUS
  <1>2. /\ ev \in AnyEvent /\ ev.what = "ignored" /\ ev.wd = wd /\ ev.file = 0
        /\ ev.ver = 0 /\ ev.cookie = 0
    BY <1>1 DEF SelfEvent, Event, AnyEvent, Whats
  <1>3. <<ev>> \in Seq(AnyEvent) /\ Range(<<ev>>) = {ev}
    BY <1>2 DEF Range
  <1>4. QED
    BY <1>1, <1>2, <1>3, EmptySeq

\* The watch of the event is removed; the kernel may tell it.
LEMMA RemoveWatchFacts ==
  ASSUME EventsType, CountsType, e.wd \in Int, e.wd # 0, RemoveWatch
  PROVE  \E qs \in Seq(AnyEvent) :
           /\ Queued(qs)
           /\ qs = << >> \/ qs = <<SelfEvent("ignored", e.wd, FALSE)>>
  <1>1. PICK ev : ev = SelfEvent("ignored", e.wd, FALSE)
    OBVIOUS
  <1>2. <<ev>> \in Seq(AnyEvent) /\ << >> \in Seq(AnyEvent)
    BY <1>1, IgnoredFacts
  <1>3. CASE watches[e.wd].dir = 0
    <2>1. Notify(0, << >>)
      BY <1>3 DEF RemoveWatch
    <2>2. QED
      BY <1>2, <2>1, NotifyQueued
  <1>4. CASE watches[e.wd].dir # 0
    <2>1. Notify(e.wd, <<ev>>)
      BY <1>1, <1>4 DEF RemoveWatch
    <2>2. PICK qs \in Seq(AnyEvent) : (qs = << >> \/ qs = <<ev>>) /\ Queued(qs)
      BY <1>2, <2>1, NotifyQueued
    <2>3. QED
      BY <1>1, <2>2
  <1>5. QED
    BY <1>3, <1>4

LEMMA SelfStep == Inv /\ HandleSelf => Inv'
  <1> SUFFICES ASSUME Inv, HandleSelf PROVE Inv'
    OBVIOUS
  <1>1. /\ Typing /\ DirsOK /\ CountOK /\ HomeOK /\ OwnRows /\ Order /\ DirsFollowed
        /\ DirsType /\ FilesType /\ WatchesType /\ EventsType /\ ReportsType /\ CountsType
    BY DEF Inv, Typing
  <1>2. Handling /\ IsSelf /\ RowsOf(e.wd) # {} /\ RemoveWatch /\ buf' = Tail(buf)
    BY DEF HandleSelf
  <1>3. PICK row, wd, p : row = Max(RowsOf(e.wd)) /\ wd = e.wd /\ p = Table[row].path
    OBVIOUS
  <1>4. /\ row \in Rows /\ wds[row] = wd /\ wd \in 1 .. Len(watches) /\ wd \in DOMAIN watches /\ wd # -1
        /\ e.what \in Gone /\ e.what \notin OfFiles /\ p \in Paths
    BY <1>1, <1>2, <1>3, SelfFacts, TableAssumption
  <1>5. PICK d : d = IF at[p] = 0 THEN made + 1 ELSE at[p]
    OBVIOUS
  <1>6. PICK w1 : w1 = Unwatch(watches, wd)
    OBVIOUS
  <1>c. PICK c \in BOOLEAN : c = FALSE
    OBVIOUS
  <1>7. PICK nwd, nws : nwd = AddWatch(w1, d, c).wd /\ nws = AddWatch(w1, d, c).ws
    OBVIOUS
  <1>8. /\ at' = [at EXCEPT ![p] = d] /\ made' = IF at[p] = 0 THEN made + 1 ELSE made
        /\ watches' = nws /\ wds' = [r \in Rows |-> IF wds[r] = wd THEN nwd ELSE wds[r]]
        /\ UNCHANGED <<away, files, cwds, moved, up, reports, noticed, renames, moves>>
        /\ faults' = faults
    BY <1>3, <1>5, <1>6, <1>c, <1>7 DEF HandleSelf
  <1>9. /\ made \in Nat /\ at[p] \in Nat /\ at[p] <= made /\ Len(files) \in Nat /\ renames \in Nat
        /\ Len(watches) \in Nat /\ DOMAIN watches = 1 .. Len(watches)
        /\ watches \in Seq(Watch) /\ \A w \in DOMAIN watches : watches[w].dir \in Nat
    <2>1. watches \in Seq(Watch)
      BY <1>1 DEF WatchesType, Watch
    <2>2. made \in Nat /\ at[p] \in Nat /\ at[p] <= made
      BY <1>1, <1>4, Constants DEF DirsType, Dirs, DirsOK
    <2>3. Len(files) \in Nat /\ renames \in Nat
      BY <1>1, SeqFacts, Constants DEF FilesType, CountsType
    <2>4. ASSUME NEW w \in DOMAIN watches PROVE watches[w].dir \in Nat
      <3>1. watches[w] \in Watch
        BY <2>1, SeqFacts
      <3>2. watches[w].dir \in Dirs
        BY <3>1 DEF Watch
      <3>3. QED
        BY <3>2, Constants DEF Dirs
    <2>5. Len(watches) \in Nat /\ DOMAIN watches = 1 .. Len(watches)
      BY <2>1, SeqFacts
    <2>6. QED
      BY <2>1, <2>2, <2>3, <2>4, <2>5
  <1>10. /\ d \in Dirs /\ d \in Nat \ {0} /\ made' \in Dirs /\ made' \in Nat /\ made <= made' /\ d <= made'
         /\ d \in 1 .. made'
         /\ (at[p] = 0 => d = made + 1 /\ made' = made + 1)
         /\ (at[p] # 0 => d = at[p] /\ made' = made)
    <2>1. CASE at[p] = 0
      <3>1. made + 1 \in Dirs
        BY <1>1, <1>4, <2>1, RoomForDir
      <3>2. QED
        BY <1>5, <1>8, <1>9, <2>1, <3>1
    <2>2. CASE at[p] # 0
      <3>1. at[p] \in Dirs /\ made \in Dirs
        BY <1>1, <1>4 DEF DirsType
      <3>2. QED
        BY <1>5, <1>8, <1>9, <2>2, <3>1
    <2>3. QED
      BY <2>1, <2>2
  <1>11. /\ w1 \in Seq(Watch) /\ Len(w1) = Len(watches) /\ DOMAIN w1 = DOMAIN watches /\ w1[wd].dir = 0
         /\ \A w \in DOMAIN watches : w # wd => w1[w] = watches[w]
    BY <1>4, <1>6, <1>9, UnwatchFacts
  <1>12. /\ nws \in Seq(Watch) /\ nwd \in 1 .. Len(nws) /\ nws[nwd].dir = d
         /\ Len(w1) <= Len(nws)
         /\ \A w \in DOMAIN nws : w # nwd => w \in DOMAIN w1 /\ nws[w] = w1[w]
         /\ \/ nwd \in DOMAIN w1 /\ w1[nwd].dir = d
            \/ nwd \notin DOMAIN w1 /\ \A w \in DOMAIN w1 : w1[w].dir # d
    <2>1. w1 \in Seq(Watch) /\ d \in Dirs /\ d # 0
      BY <1>10, <1>11
    <2>2. QED
      BY <1>7, <2>1, AddWatchFacts
  <1>13. /\ watches' \in Seq(Watch) /\ Len(watches') \in Nat /\ DOMAIN watches' = 1 .. Len(watches')
         /\ Len(watches) <= Len(watches') /\ nwd \in DOMAIN watches' /\ watches'[nwd].dir = d
         /\ nwd \in Nat /\ nwd # 0
         /\ \A w \in DOMAIN watches' : w # nwd =>
              w \in DOMAIN watches /\ (w = wd => watches'[w].dir = 0) /\ (w # wd => watches'[w] = watches[w])
         /\ nwd \in DOMAIN watches => nwd # wd /\ watches[nwd].dir = d
    BY <1>8, <1>10, <1>11, <1>12, SeqFacts
  <1>14. PICK qs \in Seq(AnyEvent) :
           Queued(qs) /\ (qs = << >> \/ qs = <<SelfEvent("ignored", wd, FALSE)>>)
    <2>1. wd \in Int /\ wd # 0
      BY <1>4
    <2>2. QED
      BY <1>1, <1>2, <1>3, <2>1, RemoveWatchFacts
  <1>15. \A ev \in Range(qs) : /\ ev.wd = wd /\ ev.file = 0 /\ ev.what = "ignored"
                               /\ ev.ver = 0 /\ ev.cookie = 0
    <2>1. PICK ev : ev = SelfEvent("ignored", wd, FALSE)
      OBVIOUS
    <2>2. /\ ev.what = "ignored" /\ ev.wd = wd /\ ev.file = 0 /\ ev.ver = 0 /\ ev.cookie = 0
          /\ Range(<<ev>>) = {ev}
      <3>1. wd \in Int
        BY <1>4
      <3>2. QED
        BY <2>1, <3>1, IgnoredFacts
    <2>3. Range(<< >>) = {}
      BY DEF Range
    <2>4. QED
      BY <1>14, <2>1, <2>2, <2>3
  <1>16. /\ buf' \in Seq(AnyEvent) /\ queue' \in Seq(AnyEvent) /\ Len(queue') <= MaxQueue + 1
         /\ \A ev \in Events' : ev \in Events \/ ev = Overflow \/ ev \in Range(qs)
         /\ Tail(buf) \o queue = Tail(Stream)
    BY <1>1, <1>2, <1>14, HandlingFacts DEF Queued, Events
  <1>17. DirsType'
    BY <1>1, <1>4, <1>8, <1>10 DEF DirsType, Dirs
  <1>18. FilesType' /\ ReportsType' /\ OwnRows'
    BY <1>1, <1>8, SameReports DEF FilesType, Files, Dirs
  <1>19. WatchesType'
    <2>1. \A w \in Wds : w \in Wds'
      BY <1>9, <1>13 DEF Wds
    <2>2. nwd \in Wds'
      BY <1>13 DEF Wds
    <2>3. wds' \in [Rows -> Wds'] /\ cwds' \in [DOMAIN Configs -> Wds']
      BY <1>1, <1>8, <2>1, <2>2 DEF WatchesType
    <2>4. \A r, s \in Rows : Table[r].path = Table[s].path => wds'[r] = wds'[s]
      BY <1>1, <1>8 DEF WatchesType
    <2>5. QED
      BY <1>13, <2>3, <2>4 DEF WatchesType, Watch, Dirs
  <1>20. EventsType'
    <2>1. ASSUME NEW ev \in Range(qs) PROVE Told(ev)'
      <3>1. ev.wd \in 1 .. Len(watches')
        BY <1>4, <1>9, <1>13, <1>15
      <3>2. QED
        BY <1>8, <1>9, <1>15, <3>1 DEF Told, OfFiles
    <2>2. QED
      BY <1>1, <1>8, <1>9, <1>13, <1>16, <2>1, EventsGrow
  <1>21. CountsType'
    BY <1>1, <1>8, <1>14 DEF CountsType, Queued
  <1>22. DirsOK'
    <2>1. \A q \in Paths : at'[q] <= made'
      <3>1. \A q \in Paths : at[q] \in Nat /\ at[q] <= made
        BY <1>1, Constants DEF DirsOK, DirsType, Dirs
      <3>2. QED
        BY <1>1, <1>8, <1>9, <1>10, <3>1 DEF DirsType
    <2>2. \A m \in away' : m.dir \in 1 .. made'
      BY <1>1, <1>8, <1>9, <1>10 DEF DirsOK
    <2>3. \A f \in DOMAIN files' : files'[f].dir \in 1 .. made' /\ files'[f].ver <= renames'
      BY <1>1, <1>8, <1>9, <1>10 DEF DirsOK
    <2>4. \A w \in DOMAIN watches' : watches'[w].dir <= made'
      <3> SUFFICES ASSUME NEW w \in DOMAIN watches' PROVE watches'[w].dir <= made'
        OBVIOUS
      <3>1. CASE w = nwd
        BY <1>10, <1>13, <3>1
      <3>2. CASE w # nwd
        <4>1. w \in DOMAIN watches /\ (watches'[w].dir = 0 \/ watches'[w] = watches[w])
          BY <1>13, <3>2
        <4>2. watches[w].dir <= made /\ watches[w].dir \in Nat
          BY <1>1, <1>9, <4>1 DEF DirsOK
        <4>3. QED
          BY <1>9, <1>10, <4>1, <4>2
      <3>3. QED
        BY <3>1, <3>2
    <2>5. \A v, w \in DOMAIN watches' :
            watches'[v].dir = watches'[w].dir /\ watches'[v].dir # 0 => v = w
      <3>1. ASSUME NEW v \in DOMAIN watches', v # nwd, watches'[v].dir = d PROVE FALSE
        <4>1. v \in DOMAIN w1 /\ watches'[v] = w1[v] /\ w1[v].dir = d /\ v \in DOMAIN watches
          BY <1>8, <1>11, <1>12, <3>1
        <4>2. nwd \in DOMAIN watches /\ watches[nwd].dir = d /\ nwd # wd
          BY <1>11, <1>12, <1>13, <4>1
        <4>3. v # wd /\ watches[v].dir = d
          BY <1>10, <1>11, <4>1
        <4>4. QED
          BY <1>1, <1>10, <3>1, <4>1, <4>2, <4>3 DEF DirsOK
      <3>2. ASSUME NEW v \in DOMAIN watches', NEW w \in DOMAIN watches', v # nwd, w # nwd,
                   watches'[v].dir = watches'[w].dir, watches'[v].dir # 0
            PROVE  v = w
        <4>1. /\ v \in DOMAIN watches /\ watches'[v] = watches[v]
              /\ w \in DOMAIN watches /\ watches'[w] = watches[w]
          BY <1>13, <3>2
        <4>2. QED
          BY <1>1, <3>2, <4>1 DEF DirsOK
      <3>3. QED
        BY <1>13, <3>1, <3>2
    <2>6. QED
      BY <2>1, <2>2, <2>3, <2>4, <2>5 DEF DirsOK
  <1>23. CountOK'
    <2>1. /\ Cardinality(Missing) \in Nat /\ Cardinality(Missing') \in Nat
          /\ Cardinality(Missing') <= Cardinality(Missing)
          /\ at[p] = 0 => Cardinality(Missing') = Cardinality(Missing) - 1
      BY <1>1, <1>4, <1>8, <1>10, FilledPath
    <2>2. made + Cardinality(Missing) <= Cardinality(Paths) + moves /\ moves' = moves /\ moves \in Nat
      BY <1>1, <1>8, Constants DEF CountOK, CountsType
    <2>3. made' + Cardinality(Missing') <= Cardinality(Paths) + moves'
      BY <1>9, <1>10, <2>1, <2>2, Constants
    <2>4. QED
      BY <2>3 DEF CountOK
  <1>24. HomeOK'
    <2>1. PICK home, own : HomeOf(home, own)
      BY <1>1 DEF HomeOK
    <2>2. PICK home2 : home2 = [x \in 1 .. made' |-> IF x = d THEN p ELSE home[x]]
      OBVIOUS
    <2>3. PICK own2 : own2 = [w \in 1 .. Len(watches') |-> IF w = nwd THEN p ELSE own[w]]
      OBVIOUS
    <2>4. \A x \in 1 .. made : home2[x] = home[x]
      <3>1. ASSUME d \in 1 .. made PROVE home[d] = p
        <4>1. at[p] # 0 /\ d = at[p]
          BY <1>9, <1>10, <3>1
        <4>2. QED
          BY <1>4, <2>1, <4>1 DEF HomeOf
      <3>2. \A x \in 1 .. made : x \in 1 .. made'
        BY <1>9, <1>10
      <3>3. QED
        BY <2>2, <3>1, <3>2
    <2>5. \A w \in 1 .. Len(watches) : own2[w] = own[w]
      <3>1. ASSUME nwd \in DOMAIN watches PROVE own[nwd] = p
        <4>1. watches[nwd].dir = d
          BY <1>13, <3>1
        <4>2. d \in 1 .. made
          BY <1>1, <1>9, <1>10, <3>1, <4>1 DEF DirsOK
        <4>3. at[p] # 0 /\ d = at[p]
          BY <1>9, <1>10, <4>2
        <4>4. home[d] = p /\ home[watches[nwd].dir] = own[nwd]
          BY <1>4, <1>10, <2>1, <3>1, <4>1, <4>3 DEF HomeOf
        <4>5. QED
          BY <4>1, <4>4
      <3>2. \A w \in 1 .. Len(watches) : w \in 1 .. Len(watches')
        BY <1>9, <1>13
      <3>3. QED
        BY <1>9, <2>3, <3>1, <3>2
    <2>6. own[wd] = p
      BY <1>3, <1>4, <2>1 DEF HomeOf
    <2>7. home2 \in [1 .. made' -> Paths]
      <3>1. \A x \in 1 .. made' : x # d => x \in 1 .. made
        BY <1>9, <1>10
      <3>2. QED
        BY <1>4, <2>1, <2>2, <3>1 DEF HomeOf
    <2>8. own2 \in [1 .. Len(watches') -> Paths]
      <3>1. \A w \in 1 .. Len(watches') : w # nwd => w \in 1 .. Len(watches)
        BY <1>9, <1>13
      <3>2. QED
        BY <1>4, <2>1, <2>3, <3>1 DEF HomeOf
    <2>9. home2[d] = p /\ own2[nwd] = p
      BY <1>10, <1>13, <2>2, <2>3
    <2>10. \A q \in Paths : at'[q] # 0 => home2[at'[q]] = q
      <3> SUFFICES ASSUME NEW q \in Paths, at'[q] # 0 PROVE home2[at'[q]] = q
        OBVIOUS
      <3>1. CASE q = p
        BY <1>1, <1>4, <1>8, <2>9, <3>1 DEF DirsType
      <3>2. CASE q # p
        <4>1. at'[q] = at[q] /\ at[q] \in 1 .. made
          BY <1>1, <1>8, <3>2, Constants DEF DirsType, DirsOK, Dirs
        <4>2. home[at[q]] = q
          BY <2>1, <4>1 DEF HomeOf
        <4>3. QED
          BY <2>4, <4>1, <4>2
      <3>3. QED
        BY <3>1, <3>2
    <2>11. \A m \in away' : home2[m.dir] = m.path
      BY <1>1, <1>8, <2>1, <2>4 DEF HomeOf, DirsOK
    <2>12. \A f \in DOMAIN files' : home2[files'[f].dir] = files'[f].path
      BY <1>1, <1>8, <2>1, <2>4 DEF HomeOf, DirsOK
    <2>13. \A w \in DOMAIN watches' : watches'[w].dir # 0 => home2[watches'[w].dir] = own2[w]
      <3> SUFFICES ASSUME NEW w \in DOMAIN watches', watches'[w].dir # 0
                   PROVE  home2[watches'[w].dir] = own2[w]
        OBVIOUS
      <3>1. CASE w = nwd
        BY <1>13, <2>9, <3>1
      <3>2. CASE w # nwd
        <4>1. w \in DOMAIN watches /\ watches'[w] = watches[w]
          BY <1>13, <3>2
        <4>2. watches[w].dir \in 1 .. made
          BY <1>1, <1>9, <4>1 DEF DirsOK
        <4>3. home[watches[w].dir] = own[w]
          BY <2>1, <4>1, <4>2 DEF HomeOf
        <4>4. QED
          BY <1>9, <2>4, <2>5, <4>1, <4>2, <4>3
      <3>3. QED
        BY <3>1, <3>2
    <2>14. \A r \in Rows : wds'[r] # -1 => own2[wds'[r]] = Table[r].path
      <3> SUFFICES ASSUME NEW r \in Rows, wds'[r] # -1 PROVE own2[wds'[r]] = Table[r].path
        OBVIOUS
      <3>1. CASE wds[r] = wd
        <4>1. own[wd] = Table[r].path
          BY <1>4, <2>1, <3>1 DEF HomeOf
        <4>2. QED
          BY <1>8, <2>6, <2>9, <3>1, <4>1
      <3>2. CASE wds[r] # wd
        <4>1. wds'[r] = wds[r] /\ wds[r] \in 1 .. Len(watches)
          BY <1>1, <1>8, <3>2 DEF WatchesType, Wds
        <4>2. own[wds[r]] = Table[r].path
          BY <2>1, <4>1 DEF HomeOf
        <4>3. QED
          BY <2>5, <4>1, <4>2
      <3>3. QED
        BY <3>1, <3>2
    <2>15. \A ev \in Events' : ev.file # 0 => own2[ev.wd] = files'[ev.file].path
      <3> SUFFICES ASSUME NEW ev \in Events', ev.file # 0 PROVE own2[ev.wd] = files'[ev.file].path
        OBVIOUS
      <3>1. ev \in Events /\ ev # Overflow
        BY <1>15, <1>16, OverflowFacts
      <3>2. ev.wd \in 1 .. Len(watches)
        BY <1>1, <3>1 DEF EventsType, Told
      <3>3. own[ev.wd] = files[ev.file].path
        BY <2>1, <3>1 DEF HomeOf
      <3>4. QED
        BY <1>8, <2>5, <3>2, <3>3
    <2>16. HomeOf(home2, own2)'
      BY <2>7, <2>8, <2>10, <2>11, <2>12, <2>13, <2>14, <2>15 DEF HomeOf
    <2>17. QED
      BY <2>16 DEF HomeOK, HomeOf
  <1>25. Order'
    <2> SUFFICES ASSUME lossy' = FALSE
                 PROVE  Paired(Stream)' /\ Expected' /\ ClosedOnce(Stream)' /\ NotYet(Stream)' /\ Single'
      BY <1>14 DEF Order, Queued
    <2>1. lossy = FALSE /\ queue' = queue \o qs
      BY <1>14 DEF Queued
    <2>2. PICK s \in Seq(AnyEvent) : s = Stream
      BY <1>1, StreamFacts
    <2>3. PICK t \in Seq(AnyEvent) : t = Tail(s)
      BY <1>1, <1>2, <2>2, HandlingFacts, TailFacts
    <2>4. Stream' = t \o qs
      <3>1. buf' \in Seq(AnyEvent) /\ queue \in Seq(AnyEvent) /\ buf' = Tail(buf)
        BY <1>1, <1>2, <1>16 DEF EventsType
      <3>2. PICK b \in Seq(AnyEvent), q \in Seq(AnyEvent) : b = buf' /\ q = queue
        BY <3>1
      <3>3. b \o (q \o qs) = (b \o q) \o qs
        BY Regrouped
      <3>4. QED
        BY <1>16, <2>1, <2>2, <2>3, <3>1, <3>2, <3>3 DEF Stream
    <2>5. /\ Paired(t) /\ ClosedOnce(t) /\ NotYet(t)
          /\ \A i \in DOMAIN t : t[i].file <= Len(files)
          /\ t # << >> => t[1].what # "to"
      <3>1. /\ s # << >> /\ s[1] = e /\ Len(s) \in Nat /\ DOMAIN s = 1 .. Len(s)
            /\ DOMAIN t = 1 .. Len(s) - 1 /\ \A i \in DOMAIN t : t[i] = s[i + 1]
        BY <1>1, <1>2, <2>2, <2>3, HandlingFacts, TailFacts, SeqFacts
      <3>2. \A i \in DOMAIN t : i + 1 \in DOMAIN s /\ i + 1 > 1 /\ i + 1 # 1 /\ i + 1 - 1 = i /\ i \in Nat /\ i >= 1
        BY <3>1
      <3>3. Paired(s) /\ ClosedOnce(s) /\ NotYet(s)
        BY <1>1, <2>1, <2>2 DEF Order
      <3>4. Paired(t) /\ ClosedOnce(t)
        BY <2>2, <2>3, <3>1, <3>3, TailOrder
      <3>5. NotYet(t)
        BY <3>1, <3>2, <3>3 DEF NotYet
      <3>6. \A i \in DOMAIN t : t[i].file <= Len(files)
        BY <1>1, <2>2, <3>1, <3>2, StreamFacts DEF Told
      <3>7. ASSUME t # << >>, t[1].what = "to" PROVE FALSE
        <4>1. 1 \in DOMAIN t
          BY <2>3, <3>1, <3>7, TailFacts
        <4>2. PICK k : k = 1 + 1
          OBVIOUS
        <4>3. k \in DOMAIN s /\ k > 1 /\ s[k].what = "to" /\ k - 1 = 1
          BY <3>1, <3>2, <3>7, <4>1, <4>2
        <4>4. s[k - 1].what = "from"
          BY <3>3, <4>3 DEF Paired
        <4>5. QED
          BY <1>4, <3>1, <4>3, <4>4 DEF OfFiles
      <3>8. QED
        BY <3>4, <3>5, <3>6, <3>7
    <2>6. Fresh(qs, Len(files)) /\ \A i \in DOMAIN qs : qs[i].what = "ignored"
      <3>1. \A i \in DOMAIN qs : qs[i].what = "ignored"
        BY <1>15 DEF Range
      <3>2. QED
        BY <3>1 DEF Fresh
    <2>7. Paired(t \o qs) /\ ClosedOnce(t \o qs) /\ NotYet(t \o qs)
      BY <1>1, <1>9, <2>5, <2>6, OrderAdded, NotYetAdded
    <2>8. Expected'
      <3>1. /\ Len(t) \in Nat /\ DOMAIN t = 1 .. Len(t) /\ DOMAIN qs = 1 .. Len(qs) /\ Len(qs) \in Nat
            /\ Len(t \o qs) = Len(t) + Len(qs) /\ t \o qs \in Seq(AnyEvent)
            /\ \A i \in 1 .. Len(t) : (t \o qs)[i] = t[i]
            /\ \A i \in 1 .. Len(qs) : (t \o qs)[Len(t) + i] = qs[i]
        BY ConcatFacts, SeqFacts
      <3>2. ASSUME t \o qs # << >> PROVE (t \o qs)[1].what # "to"
        <4>1. CASE Len(t) = 0
          <5>1. Len(t \o qs) # 0
            BY <3>1, <3>2, EmptySeq
          <5>2. 1 \in DOMAIN qs /\ Len(t) + 1 = 1
            BY <3>1, <4>1, <5>1
          <5>3. (t \o qs)[1] = qs[1]
            BY <3>1, <5>2
          <5>4. QED
            BY <2>6, <5>2, <5>3
        <4>2. CASE Len(t) # 0
          <5>1. 1 \in 1 .. Len(t) /\ t # << >>
            BY <3>1, <4>2
          <5>2. QED
            BY <2>5, <3>1, <5>1
        <4>3. QED
          BY <4>1, <4>2
      <3>3. QED
        BY <2>4, <3>2 DEF Expected
    <2>9. Single'
      BY <1>1, <1>8, <2>1 DEF Order, Single
    <2>10. QED
      BY <1>8, <2>4, <2>7, <2>8, <2>9 DEF Paired, ClosedOnce, NotYet
  <1>26. DirsFollowed'
    <2> SUFFICES ASSUME lossy' = FALSE, up', NEW r \in Rows, wds'[r] # -1
                 PROVE  \/ watches'[wds'[r]].dir = at'[Table[r].path] /\ at'[Table[r].path] # 0
                        \/ \E ev \in Events' : ev.wd = wds'[r] /\ ev.what \in {"delself", "moveself"}
      BY <1>21 DEF DirsFollowed, CountsType
    <2>1. lossy = FALSE /\ queue' = queue \o qs /\ up
      BY <1>8, <1>14 DEF Queued
    <2>2. CASE wds[r] = wd
      <3>1. Table[r].path = p
        <4>1. PICK home, own : HomeOf(home, own)
          BY <1>1 DEF HomeOK
        <4>2. QED
          BY <1>3, <1>4, <2>2, <4>1 DEF HomeOf
      <3>2. wds'[r] = nwd /\ at'[p] = d
        BY <1>1, <1>4, <1>8, <2>2 DEF DirsType
      <3>3. QED
        BY <1>10, <1>13, <3>1, <3>2
    <2>3. CASE wds[r] # wd
      <3>1. Table[r].path # p /\ wds'[r] = wds[r] /\ wds[r] \in DOMAIN watches
        <4>1. Table[r].path # p
          BY <1>1, <1>3, <1>4, <2>3 DEF WatchesType
        <4>2. wds'[r] = wds[r]
          BY <1>8, <2>3
        <4>3. wds[r] \in 1 .. Len(watches)
          BY <1>1, <4>2 DEF WatchesType, Wds
        <4>4. QED
          BY <1>9, <4>1, <4>2, <4>3
      <3>2. at'[Table[r].path] = at[Table[r].path]
        BY <1>1, <1>8, <3>1, TableAssumption DEF DirsType
      <3>3. CASE watches[wds[r]].dir = at[Table[r].path] /\ at[Table[r].path] # 0
        <4>1. wds[r] # nwd
          <5>1. SUFFICES ASSUME wds[r] = nwd PROVE FALSE
            OBVIOUS
          <5>2. watches[nwd].dir = d /\ at[Table[r].path] = d
            BY <1>13, <3>1, <3>3, <5>1
          <5>3. PICK home, own : HomeOf(home, own)
            BY <1>1 DEF HomeOK
          <5>4. at[p] # 0 /\ d = at[p]
            <6>1. d <= made
              BY <1>1, <5>2, TableAssumption DEF DirsOK
            <6>2. QED
              BY <1>9, <1>10, <6>1
          <5>5. home[d] = p /\ home[d] = Table[r].path
            BY <1>4, <3>3, <5>2, <5>3, <5>4, TableAssumption DEF HomeOf
          <5>6. QED
            BY <3>1, <5>5
        <4>2. wds[r] \in DOMAIN watches'
          BY <1>9, <1>13, <3>1
        <4>3. watches'[wds[r]] = watches[wds[r]]
          BY <1>13, <2>3, <4>1, <4>2
        <4>4. QED
          BY <3>1, <3>2, <3>3, <4>3
      <3>4. CASE \E ev \in Events : ev.wd = wds[r] /\ ev.what \in {"delself", "moveself"}
        <4>1. PICK ev \in Events : ev.wd = wds[r] /\ ev.what \in {"delself", "moveself"}
          BY <3>4
        <4>2. ev # e
          BY <1>3, <2>3, <4>1
        <4>3. Stream \in Seq(AnyEvent) /\ Events = Range(Stream) /\ Stream # << >> /\ Stream[1] = e
          BY <1>1, <1>2, StreamFacts, HandlingFacts
        <4>4. ev \in Range(Tail(Stream))
          BY <4>2, <4>3, TailEvents
        <4>5. Range(Tail(Stream)) = Range(buf') \cup Range(queue)
          BY <1>1, <1>2, <1>16, RangeConcatenation DEF EventsType
        <4>6. Range(queue') = Range(queue) \cup Range(qs)
          BY <1>1, <2>1, RangeConcatenation DEF EventsType
        <4>7. ev \in Events'
          BY <4>4, <4>5, <4>6 DEF Events
        <4>8. QED
          BY <3>1, <4>1, <4>7
      <3>5. QED
        BY <1>1, <2>1, <3>1, <3>3, <3>4 DEF DirsFollowed
    <2>4. QED
      BY <2>2, <2>3
  <1>27. QED
    BY <1>17, <1>18, <1>19, <1>20, <1>21, <1>22, <1>23, <1>24, <1>25, <1>26 DEF Inv, Typing
-----------------------------------------------------------------------------
(* Files and directories change while events are on their way.             *)

\* The files there were are there under their paths, and others behind them.
MoreFiles ==
  /\ Len(files) \in Nat /\ Len(files') \in Nat /\ Len(files) <= Len(files')
  /\ \A f \in 1 .. Len(files) : files'[f].tag = files[f].tag /\ files'[f].path = files[f].path

LEMMA AddedReports ==
  ASSUME ReportsType, OwnRows, MoreFiles, reports' = reports
  PROVE  ReportsType' /\ OwnRows'
  <1>1. \A i \in DOMAIN reports : reports[i].file \in 1 .. Len(files) /\ OwnRow(i)
    BY DEF ReportsType, OwnRows
  <1>2. ReportsType'
    <2>1. \A i \in DOMAIN reports : reports[i].file \in 1 .. Len(files')
      BY <1>1 DEF MoreFiles
    <2>2. QED
      BY <2>1 DEF ReportsType, Files
  <1>3. OwnRows'
    <2> SUFFICES ASSUME NEW i \in DOMAIN reports PROVE OwnRow(i)'
      BY DEF OwnRows
    <2>1. PICK f \in 1 .. Len(files) : f = reports[i].file
      BY <1>1
    <2>2. files'[f].tag = files[f].tag /\ files'[f].path = files[f].path
      BY DEF MoreFiles
    <2>3. QED
      BY <1>1, <2>1, <2>2 DEF OwnRow
  <1>4. QED
    BY <1>2, <1>3

\* All events stay, and the new ones are with them, unless the state says that some were lost.
LEMMA AddedEvents ==
  ASSUME EventsType, buf' = buf, NEW qs \in Seq(AnyEvent), Queued(qs)
  PROVE  /\ buf' \in Seq(AnyEvent) /\ queue' \in Seq(AnyEvent) /\ Len(queue') <= MaxQueue + 1
         /\ \A ev \in Events' : ev \in Events \/ ev = Overflow \/ ev \in Range(qs)
         /\ lossy' = FALSE => /\ \A ev \in Events : ev \in Events'
                              /\ \A ev \in Range(qs) : ev \in Events'
                              /\ Stream' = Stream \o qs
  <1>1. /\ queue' \in Seq(AnyEvent) /\ Len(queue') <= MaxQueue + 1
        /\ Range(queue') \subseteq Range(queue) \cup Range(qs) \cup {Overflow}
        /\ lossy' = FALSE => queue' = queue \o qs
    BY DEF Queued
  <1>2. buf \in Seq(AnyEvent) /\ queue \in Seq(AnyEvent)
    BY DEF EventsType
  <1>3. ASSUME lossy' = FALSE
        PROVE  /\ \A ev \in Events : ev \in Events'
               /\ \A ev \in Range(qs) : ev \in Events'
               /\ Stream' = Stream \o qs
    <2>1. Range(queue') = Range(queue) \cup Range(qs)
      BY <1>1, <1>2, <1>3, RangeConcatenation
    <2>2. PICK b \in Seq(AnyEvent), q \in Seq(AnyEvent) : b = buf /\ q = queue
      BY <1>2
    <2>3. b \o (q \o qs) = (b \o q) \o qs
      BY Regrouped
    <2>4. Stream' = Stream \o qs
      BY <1>1, <1>3, <2>2, <2>3 DEF Stream
    <2>5. QED
      BY <2>1, <2>4 DEF Events
  <1>4. QED
    BY <1>1, <1>2, <1>3 DEF Events

LEMMA AddedOrder ==
  ASSUME EventsType, ReportsType, Order, buf' = buf, NEW qs \in Seq(AnyEvent), Queued(qs),
         MoreFiles, Fresh(qs, Len(files)), UNCHANGED <<wds, moved, reports>>
  PROVE  Order'
  <1> SUFFICES ASSUME lossy' = FALSE
               PROVE  Paired(Stream)' /\ Expected' /\ ClosedOnce(Stream)' /\ NotYet(Stream)' /\ Single'
    BY DEF Order, Queued
  <1>1. lossy = FALSE /\ Stream' = Stream \o qs
    BY AddedEvents DEF Queued
  <1>2. PICK s \in Seq(AnyEvent) : s = Stream
    BY StreamFacts
  <1>3. /\ Paired(s) /\ ClosedOnce(s) /\ NotYet(s) /\ Single /\ Expected
        /\ \A i \in DOMAIN s : s[i] \in AnyEvent /\ Told(s[i])
    BY <1>1, <1>2, StreamFacts DEF Order
  <1>4. Len(files) \in Nat /\ \A i \in DOMAIN s : s[i].file <= Len(files)
    BY <1>3 DEF Told, MoreFiles
  <1>5. Paired(s \o qs) /\ ClosedOnce(s \o qs) /\ NotYet(s \o qs)
    BY <1>3, <1>4, OrderAdded, NotYetAdded
  <1>6. /\ Len(s) \in Nat /\ DOMAIN s = 1 .. Len(s) /\ DOMAIN qs = 1 .. Len(qs) /\ Len(qs) \in Nat
        /\ Len(s \o qs) = Len(s) + Len(qs) /\ s \o qs \in Seq(AnyEvent)
        /\ \A i \in 1 .. Len(s) : (s \o qs)[i] = s[i]
        /\ \A i \in 1 .. Len(qs) : (s \o qs)[Len(s) + i] = qs[i]
    BY ConcatFacts, SeqFacts
  <1>7. Expected'
    <2> SUFFICES ASSUME s \o qs # << >>, (s \o qs)[1].what = "to"
                 PROVE  moved = (s \o qs)[1].cookie \/ RowOf((s \o qs)[1])' = 0
      BY <1>1, <1>2 DEF Expected
    <2>1. CASE Len(s) = 0
      <3>1. Len(s \o qs) # 0
        BY <1>6, EmptySeq
      <3>2. 1 \in DOMAIN qs /\ Len(s) + 1 = 1
        BY <1>6, <2>1, <3>1
      <3>3. (s \o qs)[1] = qs[1]
        BY <1>6, <3>2
      <3>4. PICK k \in DOMAIN qs : k = 1 /\ qs[k].what = "to" /\ ~ (k > 1)
        BY <3>2, <3>3
      <3>5. QED
        BY <3>4 DEF Fresh
    <2>2. CASE Len(s) # 0
      <3>1. 1 \in DOMAIN s /\ s # << >>
        BY <1>6, <2>2
      <3>2. PICK ev \in AnyEvent : ev = s[1] /\ Told(ev)
        BY <1>3, <3>1
      <3>3. (s \o qs)[1] = ev
        BY <1>6, <3>1, <3>2
      <3>4. ev.file # 0 => files'[ev.file].tag = files[ev.file].tag
        <4>1. ev.file \in Nat /\ ev.file <= Len(files)
          BY <3>2, EventFacts DEF Told
        <4>2. QED
          BY <4>1 DEF MoreFiles
      <3>5. RowOf(ev)' = RowOf(ev)
        BY <3>4, RowSame
      <3>6. moved = ev.cookie \/ RowOf(ev) = 0
        BY <1>2, <1>3, <3>1, <3>2, <3>3 DEF Expected
      <3>7. QED
        BY <3>3, <3>5, <3>6
    <2>3. QED
      BY <2>1, <2>2
  <1>8. QED
    BY <1>1, <1>2, <1>3, <1>5, <1>7 DEF Paired, ClosedOnce, NotYet, Single

\* A row whose watch was right has it right, or the event that tells otherwise is on its way.
LEMMA FollowedKept ==
  ASSUME CountsType, DirsFollowed, UNCHANGED <<wds, up>>, lossy' \in BOOLEAN,
         lossy' = FALSE => lossy = FALSE /\ \A ev \in Events : ev \in Events',
         \A r \in Rows :
           lossy' = FALSE /\ wds[r] # -1 /\ watches[wds[r]].dir = at[Table[r].path] /\ at[Table[r].path] # 0
             => \/ watches'[wds[r]].dir = at'[Table[r].path] /\ at'[Table[r].path] # 0
                \/ \E ev \in Events' : ev.wd = wds[r] /\ ev.what \in Gone
  PROVE  DirsFollowed'
  <1> SUFFICES ASSUME lossy' = FALSE, up, NEW r \in Rows, wds[r] # -1
               PROVE  \/ watches'[wds[r]].dir = at'[Table[r].path] /\ at'[Table[r].path] # 0
                      \/ \E ev \in Events' : ev.wd = wds[r] /\ ev.what \in Gone
    BY DEF DirsFollowed, Gone
  <1>1. lossy = FALSE /\ \A ev \in Events : ev \in Events'
    OBVIOUS
  <1>2. CASE watches[wds[r]].dir = at[Table[r].path] /\ at[Table[r].path] # 0
    BY <1>2
  <1>3. CASE \E ev \in Events : ev.wd = wds[r] /\ ev.what \in Gone
    BY <1>1, <1>3
  <1>4. QED
    BY <1>1, <1>2, <1>3 DEF DirsFollowed, Gone

LEMMA QueuedNothing ==
  ASSUME EventsType, CountsType, UNCHANGED <<queue, lossy>>
  PROVE  << >> \in Seq(AnyEvent) /\ Queued(<< >>) /\ \A n \in Nat : Fresh(<< >>, n)
  <1>1. queue \in Seq(AnyEvent) /\ Len(queue) <= MaxQueue + 1 /\ lossy \in BOOLEAN
    BY DEF EventsType, CountsType
  <1>2. queue \o << >> = queue /\ << >> \in Seq(AnyEvent)
    BY <1>1, ConcatEmptySeq, EmptySeq
  <1>3. QED
    BY <1>1, <1>2 DEF Queued, Fresh

File == [tag : Tags, path : Paths, dir : Dirs, ver : 0 .. MaxRenames]

\* What a step leaves that changes files and the queue only.
LEMMA FilesStep ==
  ASSUME Inv, MoreFiles, FilesType', NEW qs \in Seq(AnyEvent), Queued(qs), Fresh(qs, Len(files)),
         UNCHANGED <<fs, watches, buf, daemon, reports, moves, faults>>,
         renames \in Nat, renames' \in 0 .. MaxRenames, renames <= renames',
         \A f \in DOMAIN files' : files'[f].dir \in 1 .. made /\ files'[f].ver <= renames',
         \A f \in DOMAIN files' : \E p \in Paths :
           p = files'[f].path /\ (at[p] = files'[f].dir \/ (f \in DOMAIN files /\ files'[f].dir = files[f].dir)),
         \A ev \in Range(qs) :
           /\ Told(ev)'
           /\ ev.wd \in DOMAIN watches /\ watches[ev.wd].dir # 0
           /\ watches[ev.wd].dir = files'[ev.file].dir /\ ev.file \in DOMAIN files'
  PROVE  Inv'
  <1>1. /\ Typing /\ DirsOK /\ CountOK /\ HomeOK /\ OwnRows /\ Order /\ DirsFollowed
        /\ DirsType /\ FilesType /\ WatchesType /\ EventsType /\ ReportsType /\ CountsType
    BY DEF Inv, Typing
  <1>2. UNCHANGED <<at, away, made, watches, buf, wds, cwds, moved, up, reports, moves, faults>>
    BY DEF fs, daemon
  <1>3. /\ buf' \in Seq(AnyEvent) /\ queue' \in Seq(AnyEvent) /\ Len(queue') <= MaxQueue + 1
        /\ \A ev \in Events' : ev \in Events \/ ev = Overflow \/ ev \in Range(qs)
        /\ lossy' = FALSE => \A ev \in Events : ev \in Events'
        /\ lossy' \in BOOLEAN /\ (lossy' = FALSE => lossy = FALSE)
    BY <1>1, <1>2, AddedEvents DEF Queued
  <1>4. DirsType' /\ WatchesType' /\ CountOK'
    BY <1>1, <1>2 DEF DirsType, WatchesType, CountOK, Missing, Wds, Dirs
  <1>5. Len(watches) \in Nat /\ DOMAIN watches = 1 .. Len(watches)
    BY <1>1, SeqFacts DEF WatchesType
  <1>6. DOMAIN files = 1 .. Len(files) /\ DOMAIN files' = 1 .. Len(files') /\ Len(files) \in Nat /\ Len(files') \in Nat
    BY <1>1, SeqFacts DEF FilesType
  <1>7. EventsType'
    <2>1. renames' \in Nat /\ Len(watches') = Len(watches)
      BY <1>2, Constants
    <2>2. QED
      BY <1>1, <1>3, <1>5, <2>1, EventsGrow DEF MoreFiles
  <1>8. ReportsType' /\ OwnRows'
    BY <1>1, <1>2, AddedReports
  <1>9. CountsType'
    <2>1. moved \in 0 .. renames'
      BY <1>1, Constants DEF CountsType
    <2>2. QED
      BY <1>1, <1>2, <1>3, <2>1 DEF CountsType
  <1>10. DirsOK'
    BY <1>1, <1>2 DEF DirsOK
  <1>11. HomeOK'
    <2>1. PICK home, own : HomeOf(home, own)
      BY <1>1 DEF HomeOK
    <2>2. \A f \in DOMAIN files' : home[files'[f].dir] = files'[f].path
      <3> SUFFICES ASSUME NEW f \in DOMAIN files' PROVE home[files'[f].dir] = files'[f].path
        OBVIOUS
      <3>1. PICK p \in Paths :
              p = files'[f].path /\ (at[p] = files'[f].dir \/ (f \in DOMAIN files /\ files'[f].dir = files[f].dir))
        OBVIOUS
      <3>2. CASE at[p] = files'[f].dir
        <4>1. files'[f].dir # 0
          <5>1. files'[f].dir \in 1 .. made
            OBVIOUS
          <5>2. made \in Nat
            BY <1>1, Constants DEF DirsType, Dirs
          <5>3. QED
            BY <5>1, <5>2
        <4>2. QED
          BY <2>1, <3>1, <3>2, <4>1 DEF HomeOf
      <3>3. CASE f \in DOMAIN files /\ files'[f].dir = files[f].dir
        <4>1. files'[f].path = files[f].path
          BY <1>6, <3>3 DEF MoreFiles
        <4>2. QED
          BY <2>1, <3>3, <4>1 DEF HomeOf
      <3>4. QED
        BY <3>1, <3>2, <3>3
    <2>3. \A ev \in Events' : ev.file # 0 => own[ev.wd] = files'[ev.file].path
      <3> SUFFICES ASSUME NEW ev \in Events', ev.file # 0 PROVE own[ev.wd] = files'[ev.file].path
        OBVIOUS
      <3>1. CASE ev \in Events
        <4>1. Told(ev) /\ ev \in AnyEvent
          <5>1. PICK i \in DOMAIN Stream : ev = Stream[i]
            BY <1>1, <3>1, StreamFacts DEF Range
          <5>2. QED
            BY <1>1, <5>1, StreamFacts
        <4>2. ev.file \in 1 .. Len(files)
          BY <1>6, <4>1, EventFacts DEF Told
        <4>3. own[ev.wd] = files[ev.file].path
          BY <2>1, <3>1 DEF HomeOf
        <4>4. QED
          BY <4>2, <4>3 DEF MoreFiles
      <3>2. CASE ev \in Range(qs)
        <4>1. /\ ev.wd \in DOMAIN watches /\ watches[ev.wd].dir # 0 /\ ev.file \in DOMAIN files'
              /\ watches[ev.wd].dir = files'[ev.file].dir
          BY <3>2
        <4>2. home[watches[ev.wd].dir] = own[ev.wd]
          BY <2>1, <4>1 DEF HomeOf
        <4>3. QED
          BY <2>2, <4>1, <4>2
      <3>3. CASE ev = Overflow
        BY <3>3, OverflowFacts
      <3>4. QED
        BY <1>3, <3>1, <3>2, <3>3
    <2>4. HomeOf(home, own)'
      BY <1>2, <2>1, <2>2, <2>3, Zenon DEF HomeOf
    <2>5. QED
      BY <2>4 DEF HomeOK, HomeOf
  <1>12. Order'
    BY <1>1, <1>2, AddedOrder
  <1>13. DirsFollowed'
    BY <1>1, <1>2, <1>3, FollowedKept
  <1>14. QED
    BY <1>4, <1>7, <1>8, <1>9, <1>10, <1>11, <1>12, <1>13 DEF Inv, Typing

\* A file or directory is created, and its directory's watch tells it or nothing does.
LEMMA NewFileStep ==
  ASSUME Inv, NEW p \in Paths, NEW tag \in Tags, Created(p, tag), NEW w, w = WatchOf(at[p]),
         NEW what \in {"close", "create"}, NEW isdir \in BOOLEAN,
         NEW new, new = Event(what, w, Len(files) + 1, 0, 0, isdir),
         NEW v, v = w \/ v = 0, Notify(v, <<new>>),
         noticed' = noticed \/ noticed' = noticed \cup {Len(files) + 1}
  PROVE  Inv'
  <1>1. /\ Typing /\ DirsOK /\ DirsType /\ FilesType /\ WatchesType /\ EventsType /\ CountsType
    BY DEF Inv, Typing
  <1>2. PICK n \in Nat : n = Len(files)
    BY <1>1, SeqFacts DEF FilesType
  <1>3. PICK rec : rec = [tag |-> tag, path |-> p, dir |-> at[p], ver |-> 0]
    OBVIOUS
  <1>4. /\ at[p] # 0 /\ n < MaxFiles /\ files' = Append(files, rec)
        /\ UNCHANGED <<fs, watches, buf, daemon, reports, renames, moves, faults>>
    BY <1>2, <1>3 DEF Created
  <1>5. at[p] \in Dirs /\ at[p] \in 1 .. made /\ made \in Nat
    <2>1. at[p] \in Dirs /\ made \in Dirs /\ at[p] <= made
      BY <1>1 DEF DirsType, DirsOK
    <2>2. QED
      BY <1>4, <2>1, Constants DEF Dirs
  <1>6. rec \in File /\ rec.tag = tag /\ rec.path = p /\ rec.dir = at[p] /\ rec.ver = 0
    BY <1>3, <1>5, Constants DEF File
  <1>7. /\ files \in Seq(File) /\ DOMAIN files = 1 .. n
        /\ files' \in Seq(File) /\ Len(files') = n + 1 /\ DOMAIN files' = 1 .. n + 1
        /\ \A f \in 1 .. n : files'[f] = files[f]
        /\ files'[n + 1] = rec
    <2>1. files \in Seq(File)
      BY <1>1 DEF FilesType, File
    <2>2. QED
      BY <1>2, <1>4, <1>6, <2>1, AppendFacts, SeqFacts
  <1>8. \A f \in DOMAIN files' : (f \in DOMAIN files /\ files'[f] = files[f]) \/ (f = n + 1 /\ files'[f] = rec)
    BY <1>7
  <1>f. ASSUME NEW f \in DOMAIN files'
        PROVE  \E q \in Paths : /\ q = files'[f].path
                                /\ at[q] = files'[f].dir \/ (f \in DOMAIN files /\ files'[f].dir = files[f].dir)
    <2>1. files'[f] \in File
      BY <1>7, SeqFacts
    <2>2. PICK q \in Paths : q = files'[f].path
      BY <2>1 DEF File
    <2>3. CASE f \in DOMAIN files /\ files'[f] = files[f]
      <3>1. files'[f].dir = files[f].dir
        BY <2>3
      <3>2. QED
        BY <2>2, <2>3, <3>1
    <2>4. CASE files'[f] = rec
      <3>1. p = files'[f].path /\ at[p] = files'[f].dir
        BY <1>6, <2>4
      <3>2. QED
        BY <3>1
    <2>5. QED
      BY <1>8, <2>3, <2>4
  <1>9. MoreFiles
    BY <1>2, <1>7 DEF MoreFiles
  <1>10. FilesType'
    <2>1. n + 1 \in Files /\ n + 1 <= MaxFiles
      BY <1>4, Constants DEF Files
    <2>2. noticed' \subseteq Files
      BY <1>1, <1>2, <2>1 DEF FilesType
    <2>3. QED
      BY <1>7, <2>1, <2>2 DEF FilesType, File, Files, Dirs
  <1>11. w # 0 => w \in DOMAIN watches /\ w \in 1 .. Len(watches) /\ watches[w].dir = at[p] /\ w \in Int
    <2>1. w # 0 => w \in DOMAIN watches /\ watches[w].dir = at[p]
      BY <1>1, WatchOfFacts
    <2>2. DOMAIN watches = 1 .. Len(watches) /\ Len(watches) \in Nat
      BY <1>1, SeqFacts DEF WatchesType
    <2>3. QED
      BY <2>1, <2>2
  <1>12. CASE v = 0
    <2>1. queue' = queue /\ lossy' = lossy
      BY <1>12 DEF Notify
    <2>2. PICK qs \in Seq(AnyEvent) : Queued(qs) /\ Fresh(qs, Len(files)) /\ qs = << >>
      BY <1>1, <1>2, <2>1, QueuedNothing
    <2>3. Range(qs) = {}
      BY <2>2 DEF Range
    <2>4. /\ renames \in Nat /\ renames' \in 0 .. MaxRenames /\ renames <= renames'
      BY <1>1, <1>4, Constants DEF CountsType
    <2>5. \A f \in DOMAIN files' : files'[f].dir \in 1 .. made /\ files'[f].ver <= renames'
      BY <1>1, <1>4, <1>5, <1>6, <1>8, <2>4 DEF DirsOK
    <2>7. QED
      BY <1>4, <1>9, <1>10, <2>2, <2>3, <2>4, <1>f, <2>5, FilesStep
  <1>13. CASE v # 0
    <2>0. v = w /\ w \in Int /\ w \in DOMAIN watches /\ w \in 1 .. Len(watches) /\ watches[w].dir = at[p] /\ w # 0
      BY <1>11, <1>13
    <2>1. /\ new \in AnyEvent /\ new.what = what /\ new.wd = w /\ new.file = n + 1
          /\ new.ver = 0 /\ new.cookie = 0
      <3>1. what \in Whats /\ w \in Int /\ n + 1 \in Nat /\ 0 \in Nat /\ isdir \in BOOLEAN
        BY <2>0 DEF Whats
      <3>2. QED
        BY <1>2, <3>1 DEF Event, AnyEvent
    <2>2. <<new>> \in Seq(AnyEvent) /\ Range(<<new>>) = {new}
      BY <2>1 DEF Range
    <2>3. PICK qs \in Seq(AnyEvent) : Queued(qs) /\ qs = <<new>>
      BY <1>1, <1>13, <2>2, NotifyQueued
    <2>4. Fresh(qs, Len(files))
      <3>1. DOMAIN qs = {1} /\ qs[1] = new
        BY <2>3
      <3>2. new.file > n /\ new.what # "to"
        BY <2>1
      <3>3. QED
        BY <1>2, <3>1, <3>2 DEF Fresh
    <2>5. /\ renames \in Nat /\ renames' \in 0 .. MaxRenames /\ renames <= renames'
      BY <1>1, <1>4, Constants DEF CountsType
    <2>6. \A f \in DOMAIN files' : files'[f].dir \in 1 .. made /\ files'[f].ver <= renames'
      BY <1>1, <1>4, <1>5, <1>6, <1>8, <2>5 DEF DirsOK
    <2>8. /\ Told(new)' /\ new.wd \in DOMAIN watches /\ watches[new.wd].dir # 0
          /\ watches[new.wd].dir = files'[new.file].dir /\ new.file \in DOMAIN files'
      <3>1. new.file \in DOMAIN files' /\ files'[new.file].dir = at[p]
        BY <1>6, <1>7, <2>1
      <3>2. new.what \in OfFiles /\ new.what # "to" /\ new.file # 0
        BY <2>1 DEF OfFiles
      <3>3. new.file <= Len(files') /\ new.ver <= renames' /\ new.cookie <= renames'
        BY <1>7, <2>1, <2>5
      <3>4. Told(new)'
        BY <1>4, <2>0, <2>1, <3>2, <3>3 DEF Told
      <3>5. QED
        BY <1>4, <2>0, <2>1, <3>1, <3>4
    <2>9. \A ev \in Range(qs) : ev = new
      BY <2>2, <2>3
    <2>10. QED
      BY <1>4, <1>9, <1>10, <2>3, <2>4, <1>f, <2>5, <2>6, <2>8, <2>9, FilesStep
  <1>14. QED
    BY <1>12, <1>13

LEMMA CloseStep ==
  ASSUME Inv, NEW p \in Paths, NEW tag \in Tags, CloseFile(p, tag)
  PROVE  Inv'
  <1>1. PICK w : w = WatchOf(at[p])
    OBVIOUS
  <1>2. PICK new : new = Event("close", w, Len(files) + 1, 0, 0, FALSE)
    OBVIOUS
  <1>3. Created(p, tag) /\ Notify(w, <<new>>)
    BY <1>1, <1>2 DEF CloseFile
  <1>4. noticed' = noticed \/ noticed' = noticed \cup {Len(files) + 1}
    BY DEF CloseFile
  <1>5. QED
    BY <1>1, <1>2, <1>3, <1>4, NewFileStep

LEMMA CreateDirStep ==
  ASSUME Inv, NEW p \in Paths, NEW tag \in Tags, CreateDir(p, tag)
  PROVE  Inv'
  <1>1. PICK w : w = WatchOf(at[p])
    OBVIOUS
  <1>2. PICK new : new = Event("create", w, Len(files) + 1, 0, 0, TRUE)
    OBVIOUS
  <1>3. PICK v : v = IF w # 0 /\ watches[w].create THEN w ELSE 0
    OBVIOUS
  <1>4. Created(p, tag) /\ Notify(v, <<new>>) /\ (v = w \/ v = 0)
    BY <1>1, <1>2, <1>3 DEF CreateDir
  <1>5. noticed' = noticed \/ noticed' = noticed \cup {Len(files) + 1}
    BY DEF CreateDir
  <1>6. QED
    BY <1>1, <1>2, <1>4, <1>5, NewFileStep

LEMMA RenameStep ==
  ASSUME Inv, NEW f \in DOMAIN files, Rename(f)
  PROVE  Inv'
  <1>1. /\ Typing /\ DirsOK /\ DirsType /\ FilesType /\ WatchesType /\ EventsType /\ CountsType
    BY DEF Inv, Typing
  <1>2. PICK c, v, w : c = renames + 1 /\ v = files[f].ver /\ w = WatchOf(files[f].dir)
    OBVIOUS
  <1>3. /\ renames < MaxRenames /\ renames' = c /\ files' = [files EXCEPT ![f].ver = @ + 1]
        /\ files[f].dir = at[files[f].path]
        /\ UNCHANGED <<fs, watches, buf, daemon, reports, noticed, moves, faults>>
    BY <1>2 DEF Rename
  <1>4. renames \in Nat /\ c \in Nat /\ renames <= c /\ c <= MaxRenames /\ c # 0
    BY <1>1, <1>2, <1>3, Constants DEF CountsType
  <1>5. files \in Seq(File) /\ Len(files) \in Nat /\ DOMAIN files = 1 .. Len(files) /\ files[f] \in File
    <2>1. files \in Seq(File)
      BY <1>1 DEF FilesType, File
    <2>2. QED
      BY <2>1, SeqFacts
  <1>6. files[f].dir \in 1 .. made /\ v <= renames /\ v \in Nat /\ made \in Nat
    <2>1. v \in 0 .. MaxRenames
      BY <1>2, <1>5 DEF File
    <2>2. files[f].dir \in 1 .. made /\ v <= renames
      BY <1>1, <1>2 DEF DirsOK
    <2>3. made \in Nat
      BY <1>1, Constants DEF DirsType, Dirs
    <2>4. QED
      BY <2>1, <2>2, <2>3, Constants
  <1>7. PICK rec : rec = [files[f] EXCEPT !.ver = @ + 1]
    OBVIOUS
  <1>8. /\ rec \in File /\ rec.tag = files[f].tag /\ rec.path = files[f].path
        /\ rec.dir = files[f].dir /\ rec.ver = v + 1
    <2>1. v + 1 \in 0 .. MaxRenames
      BY <1>4, <1>6, <1>3, Constants
    <2>2. rec = [tag |-> files[f].tag, path |-> files[f].path, dir |-> files[f].dir, ver |-> v + 1]
      BY <1>2, <1>5, <1>7 DEF File
    <2>3. /\ files[f].tag \in Tags /\ files[f].path \in Paths /\ files[f].dir \in Dirs
      BY <1>5 DEF File
    <2>4. QED
      BY <2>1, <2>2, <2>3 DEF File
  <1>9. /\ files' \in Seq(File) /\ Len(files') = Len(files) /\ DOMAIN files' = DOMAIN files
        /\ files'[f] = rec
        /\ \A g \in DOMAIN files : g # f => files'[g] = files[g]
    <2>1. files' = [files EXCEPT ![f] = rec]
      BY <1>3, <1>7
    <2>2. f \in 1 .. Len(files)
      BY <1>5
    <2>3. /\ [files EXCEPT ![f] = rec] \in Seq(File) /\ Len([files EXCEPT ![f] = rec]) = Len(files)
          /\ \A j \in 1 .. Len(files) : [files EXCEPT ![f] = rec][j] = IF j = f THEN rec ELSE files[j]
      BY <1>5, <1>8, <2>2, ExceptSeq
    <2>4. QED
      BY <1>5, <2>1, <2>2, <2>3, SeqFacts
  <1>10. \A g \in DOMAIN files : /\ files'[g].tag = files[g].tag /\ files'[g].path = files[g].path
                                 /\ files'[g].dir = files[g].dir
    BY <1>8, <1>9
  <1>11. MoreFiles
    BY <1>5, <1>9, <1>10 DEF MoreFiles
  <1>12. FilesType'
    BY <1>1, <1>3, <1>9 DEF FilesType, File, Files, Dirs
  <1>13. \A g \in DOMAIN files' : files'[g].dir \in 1 .. made /\ files'[g].ver <= renames'
    <2> SUFFICES ASSUME NEW g \in DOMAIN files PROVE files'[g].dir \in 1 .. made /\ files'[g].ver <= renames'
      BY <1>9
    <2>1. files'[g].dir \in 1 .. made
      BY <1>1, <1>10 DEF DirsOK
    <2>2. CASE g = f
      BY <1>2, <1>3, <1>4, <1>6, <1>8, <1>9, <2>1, <2>2
    <2>3. CASE g # f
      <3>1. files'[g].ver = files[g].ver /\ files[g].ver <= renames
        BY <1>1, <1>9, <2>3 DEF DirsOK
      <3>2. files[g].ver \in 0 .. MaxRenames
        <4>1. files[g] \in File
          BY <1>5, SeqFacts
        <4>2. QED
          BY <4>1 DEF File
      <3>3. QED
        BY <1>3, <1>4, <2>1, <3>1, <3>2, Constants
    <2>4. QED
      BY <2>2, <2>3
  <1>14. ASSUME NEW g \in DOMAIN files'
         PROVE  \E p \in Paths : /\ p = files'[g].path
                                 /\ at[p] = files'[g].dir \/ (g \in DOMAIN files /\ files'[g].dir = files[g].dir)
    <2>1. files'[g] \in File
      BY <1>9, SeqFacts
    <2>2. PICK p \in Paths : p = files'[g].path
      BY <2>1 DEF File
    <2>3. g \in DOMAIN files /\ files'[g].dir = files[g].dir
      BY <1>9, <1>10
    <2>4. QED
      BY <2>2, <2>3
  <1>15. w # 0 => w \in DOMAIN watches /\ w \in 1 .. Len(watches) /\ watches[w].dir = files[f].dir /\ w \in Int
    <2>1. w # 0 => w \in DOMAIN watches /\ watches[w].dir = files[f].dir
      BY <1>1, <1>2, WatchOfFacts
    <2>2. DOMAIN watches = 1 .. Len(watches) /\ Len(watches) \in Nat
      BY <1>1, SeqFacts DEF WatchesType
    <2>3. QED
      BY <2>1, <2>2
  <1>16. PICK old, new : /\ old = Event("from", w, f, v, c, FALSE)
                         /\ new = Event("to", w, f, v + 1, c, FALSE)
    OBVIOUS
  <1>17. Notify(w, <<old, new>>)
    BY <1>2, <1>16 DEF Rename
  <1>18. CASE w = 0
    <2>1. queue' = queue /\ lossy' = lossy
      BY <1>17, <1>18 DEF Notify
    <2>2. PICK qs \in Seq(AnyEvent) : Queued(qs) /\ Fresh(qs, Len(files)) /\ qs = << >>
      BY <1>1, <1>5, <2>1, QueuedNothing
    <2>3. Range(qs) = {}
      BY <2>2 DEF Range
    <2>4. renames' \in 0 .. MaxRenames /\ renames <= renames'
      BY <1>3, <1>4, Constants
    <2>5. QED
      BY <1>3, <1>4, <1>11, <1>12, <1>13, <1>14, <2>2, <2>3, <2>4, FilesStep
  <1>19. CASE w # 0
    <2>0. w \in Int /\ w \in DOMAIN watches /\ w \in 1 .. Len(watches) /\ watches[w].dir = files[f].dir
      BY <1>15, <1>19
    <2>1. /\ old \in AnyEvent /\ old.what = "from" /\ old.wd = w /\ old.file = f
          /\ old.ver = v /\ old.cookie = c
          /\ new \in AnyEvent /\ new.what = "to" /\ new.wd = w /\ new.file = f
          /\ new.ver = v + 1 /\ new.cookie = c
      <3>1. /\ "from" \in Whats /\ "to" \in Whats /\ w \in Int /\ f \in Nat /\ v \in Nat /\ v + 1 \in Nat
            /\ c \in Nat /\ FALSE \in BOOLEAN
        BY <1>4, <1>5, <1>6, <2>0 DEF Whats
      <3>2. QED
        BY <1>16, <3>1 DEF Event, AnyEvent
    <2>2. <<old, new>> \in Seq(AnyEvent) /\ Range(<<old, new>>) = {old, new}
      <3>1. DOMAIN <<old, new>> = 1 .. 2 /\ <<old, new>>[1] = old /\ <<old, new>>[2] = new
        OBVIOUS
      <3>2. \A i \in 1 .. 2 : i = 1 \/ i = 2
        OBVIOUS
      <3>3. Range(<<old, new>>) = {old, new}
        BY <3>1, <3>2 DEF Range
      <3>4. QED
        BY <2>1, <3>3
    <2>3. PICK qs \in Seq(AnyEvent) : Queued(qs) /\ qs = <<old, new>>
      BY <1>1, <1>17, <1>19, <2>2, NotifyQueued
    <2>4. Fresh(qs, Len(files))
      <3>1. DOMAIN qs = 1 .. 2 /\ qs[1] = old /\ qs[2] = new
        BY <2>3
      <3> SUFFICES ASSUME NEW i \in DOMAIN qs
                   PROVE  /\ qs[i].what = "close" => i = 1 /\ qs[i].file > Len(files)
                          /\ qs[i].what = "to" =>
                               /\ i > 1 /\ qs[i - 1].what = "from" /\ qs[i - 1].wd = qs[i].wd
                               /\ qs[i - 1].file = qs[i].file /\ qs[i - 1].cookie = qs[i].cookie
        BY DEF Fresh
      <3>2. CASE i = 1
        BY <2>1, <3>1, <3>2
      <3>3. CASE i = 2
        <4>1. i - 1 = 1 /\ i > 1
          BY <3>3
        <4>2. qs[i - 1] = old /\ qs[i] = new
          BY <3>1, <3>3, <4>1
        <4>3. QED
          BY <2>1, <4>1, <4>2
      <3>4. QED
        BY <3>1, <3>2, <3>3
    <2>5. renames' \in 0 .. MaxRenames /\ renames <= renames'
      BY <1>3, <1>4, Constants
    <2>6. ASSUME NEW ev \in Range(qs)
          PROVE  /\ Told(ev)' /\ ev.wd \in DOMAIN watches /\ watches[ev.wd].dir # 0
                 /\ watches[ev.wd].dir = files'[ev.file].dir /\ ev.file \in DOMAIN files'
      <3>1. /\ ev.what \in {"from", "to"} /\ ev.wd = w /\ ev.file = f /\ ev.cookie = c
            /\ (ev.ver = v \/ ev.ver = v + 1)
        BY <2>1, <2>2, <2>3
      <3>2. files'[f].dir = files[f].dir /\ files[f].dir # 0 /\ f # 0 /\ f <= Len(files)
        BY <1>5, <1>6, <1>10
      <3>3. ev.ver <= renames' /\ ev.cookie <= renames' /\ ev.cookie # 0
        BY <1>2, <1>3, <1>4, <1>6, <3>1
      <3>4. ev.what \in OfFiles
        BY <3>1 DEF OfFiles
      <3>5. Told(ev)'
        BY <1>3, <1>9, <2>0, <3>1, <3>2, <3>3, <3>4 DEF Told
      <3>6. QED
        BY <1>9, <2>0, <3>1, <3>2, <3>5
    <2>7. QED
      BY <1>3, <1>4, <1>11, <1>12, <1>13, <1>14, <2>3, <2>4, <2>5, <2>6, FilesStep
  <1>20. QED
    BY <1>18, <1>19

FewerWatches ==
  /\ watches' \in Seq(Watch) /\ Len(watches') = Len(watches) /\ DOMAIN watches' = DOMAIN watches
  /\ \A w \in DOMAIN watches : watches'[w].dir = 0 \/ watches'[w] = watches[w]

LEMMA FewerDirs ==
  ASSUME WatchesType, DirsOK, FewerWatches, UNCHANGED <<wds, cwds>>
  PROVE  /\ WatchesType'
         /\ \A v, w \in DOMAIN watches' : watches'[v].dir = watches'[w].dir /\ watches'[v].dir # 0 => v = w
         /\ \A w \in DOMAIN watches' :
              watches'[w].dir # 0 => w \in DOMAIN watches /\ watches'[w].dir = watches[w].dir
  <1>1. WatchesType'
    BY DEF WatchesType, FewerWatches, Wds, Watch, Dirs
  <1>2. \A w \in DOMAIN watches' : w \in DOMAIN watches /\ (watches'[w].dir = 0 \/ watches'[w].dir = watches[w].dir)
    BY DEF FewerWatches
  <1>3. \A v, w \in DOMAIN watches : watches[v].dir = watches[w].dir /\ watches[v].dir # 0 => v = w
    BY DEF DirsOK
  <1>4. QED
    BY <1>1, <1>2, <1>3

\* Paths of directories, and those when directories were moved or made.
HomesGrow(home, own, home2) ==
  /\ HomeOf(home, own) /\ home2 \in [1 .. made' -> Paths]
  /\ \A x \in 1 .. made : home2[x] = home[x]
  /\ \A p \in Paths : at'[p] # 0 => home2[at'[p]] = p
  /\ \A m \in away' : home2[m.dir] = m.path

\* What a step leaves that changes directories, their watches and the queue only.
LEMMA DirsStep ==
  ASSUME Inv, NEW qs \in Seq(AnyEvent), Queued(qs), FewerWatches,
         UNCHANGED <<files, buf, daemon, reports, noticed, renames, faults>>,
         moves' \in 0 .. MaxMoves, DirsType', CountOK', made <= made',
         \A p \in Paths : at'[p] <= made',
         \A m \in away' : m.dir \in 1 .. made',
         \E home, own, home2 : HomesGrow(home, own, home2),
         \A ev \in Range(qs) : /\ ev.wd \in 1 .. Len(watches) /\ ev.file = 0 /\ ev.ver = 0
                               /\ ev.cookie = 0 /\ ev.what \in Gone \cup {"ignored"},
         \A r \in Rows :
           lossy' = FALSE /\ wds[r] # -1 /\ watches[wds[r]].dir = at[Table[r].path] /\ at[Table[r].path] # 0
             => \/ watches'[wds[r]].dir = at'[Table[r].path] /\ at'[Table[r].path] # 0
                \/ \E ev \in Events' : ev.wd = wds[r] /\ ev.what \in Gone
  PROVE  Inv'
  <1>1. /\ Typing /\ DirsOK /\ CountOK /\ HomeOK /\ OwnRows /\ Order /\ DirsFollowed
        /\ DirsType /\ FilesType /\ WatchesType /\ EventsType /\ ReportsType /\ CountsType
    BY DEF Inv, Typing
  <1>2. UNCHANGED <<files, buf, wds, cwds, moved, up, reports, noticed, renames, faults>>
    BY DEF daemon
  <1>h. PICK home, own, home2 :
          /\ HomeOf(home, own) /\ home2 \in [1 .. made' -> Paths]
          /\ \A x \in 1 .. made : home2[x] = home[x]
          /\ \A p \in Paths : at'[p] # 0 => home2[at'[p]] = p
          /\ \A m \in away' : home2[m.dir] = m.path
    BY DEF HomesGrow
  <1>3. /\ buf' \in Seq(AnyEvent) /\ queue' \in Seq(AnyEvent) /\ Len(queue') <= MaxQueue + 1
        /\ \A ev \in Events' : ev \in Events \/ ev = Overflow \/ ev \in Range(qs)
        /\ lossy' = FALSE => \A ev \in Events : ev \in Events'
        /\ lossy' \in BOOLEAN /\ (lossy' = FALSE => lossy = FALSE)
    BY <1>1, <1>2, AddedEvents DEF Queued
  <1>4. /\ WatchesType'
        /\ \A v, w \in DOMAIN watches' : watches'[v].dir = watches'[w].dir /\ watches'[v].dir # 0 => v = w
        /\ \A w \in DOMAIN watches' :
             watches'[w].dir # 0 => w \in DOMAIN watches /\ watches'[w].dir = watches[w].dir
    BY <1>1, <1>2, FewerDirs
  <1>5. /\ Len(watches) \in Nat /\ DOMAIN watches = 1 .. Len(watches) /\ Len(watches') = Len(watches)
        /\ Len(files) \in Nat /\ renames \in Nat /\ made \in Nat /\ made' \in Nat
    <2>1. Len(watches) \in Nat /\ DOMAIN watches = 1 .. Len(watches)
      BY <1>1, SeqFacts DEF WatchesType
    <2>2. Len(files) \in Nat
      BY <1>1, SeqFacts DEF FilesType
    <2>3. made \in Nat /\ made' \in Nat
      BY <1>1, Constants DEF DirsType, Dirs
    <2>4. renames \in Nat
      BY <1>1, Constants DEF CountsType
    <2>5. QED
      BY <2>1, <2>2, <2>3, <2>4 DEF FewerWatches
  <1>6. FilesType' /\ ReportsType' /\ OwnRows'
    BY <1>1, <1>2, SameReports DEF FilesType, Files, Dirs
  <1>7. EventsType'
    <2>1. ASSUME NEW ev \in Range(qs) PROVE Told(ev)'
      <3>1. ev.wd \in 1 .. Len(watches') /\ ev.what \notin OfFiles /\ ev.what # "to"
        BY <1>5 DEF OfFiles, Gone
      <3>2. ev.file <= Len(files') /\ ev.ver <= renames' /\ ev.cookie <= renames' /\ ev.file = 0
        BY <1>2, <1>5
      <3>3. QED
        BY <3>1, <3>2 DEF Told
    <2>2. QED
      BY <1>1, <1>2, <1>3, <1>5, <2>1, EventsGrow
  <1>8. CountsType'
    BY <1>1, <1>2, <1>3 DEF CountsType
  <1>9. MoreFiles /\ Fresh(qs, Len(files))
    <2>1. MoreFiles
      BY <1>2, <1>5 DEF MoreFiles
    <2>2. \A i \in DOMAIN qs : qs[i] \in Range(qs)
      BY DEF Range
    <2>3. \A i \in DOMAIN qs : qs[i].what # "close" /\ qs[i].what # "to"
      BY <2>2 DEF Gone
    <2>4. QED
      BY <2>1, <2>3 DEF Fresh
  <1>10. Order'
    BY <1>1, <1>2, <1>9, AddedOrder
  <1>11. DirsOK'
    <2>1. \A f \in DOMAIN files' : files'[f].dir \in 1 .. made' /\ files'[f].ver <= renames'
      BY <1>1, <1>2, <1>5 DEF DirsOK
    <2>2. ASSUME NEW w \in DOMAIN watches' PROVE watches'[w].dir <= made'
      <3>1. CASE watches'[w].dir = 0
        BY <1>5, <3>1
      <3>2. CASE watches'[w].dir # 0
        <4>1. w \in DOMAIN watches /\ watches'[w].dir = watches[w].dir
          BY <1>4, <3>2
        <4>2. watches[w].dir <= made /\ watches[w].dir \in Nat
          <5>1. watches \in Seq(Watch)
            BY <1>1 DEF WatchesType, Watch
          <5>2. watches[w] \in Watch
            BY <4>1, <5>1, SeqFacts
          <5>3. watches[w].dir \in Dirs
            BY <5>2 DEF Watch
          <5>4. QED
            BY <1>1, <4>1, <5>3, Constants DEF DirsOK, Dirs
        <4>3. QED
          BY <1>5, <4>1, <4>2
      <3>3. QED
        BY <3>1, <3>2
    <2>3. QED
      BY <1>4, <2>1, <2>2 DEF DirsOK
  <1>12. HomeOK'
    <2>1. \A f \in DOMAIN files' : home2[files'[f].dir] = files'[f].path
      BY <1>1, <1>2, <1>h DEF HomeOf, DirsOK
    <2>2. ASSUME NEW w \in DOMAIN watches', watches'[w].dir # 0
          PROVE  home2[watches'[w].dir] = own[w]
      <3>1. w \in DOMAIN watches /\ watches'[w].dir = watches[w].dir
        BY <1>4, <2>2
      <3>2. watches \in Seq(Watch)
        BY <1>1 DEF WatchesType, Watch
      <3>3. watches[w] \in Watch
        BY <3>1, <3>2, SeqFacts
      <3>4. watches[w].dir \in Dirs /\ watches[w].dir <= made /\ watches[w].dir # 0
        BY <1>1, <2>2, <3>1, <3>3 DEF Watch, DirsOK
      <3>5. watches[w].dir \in 1 .. made
        <4>1. watches[w].dir \in Nat /\ watches[w].dir <= made /\ watches[w].dir # 0 /\ made \in Nat
          BY <1>5, <3>4, Constants DEF Dirs
        <4>2. QED
          BY <4>1
      <3>6. QED
        BY <1>h, <2>2, <3>1, <3>5 DEF HomeOf
    <2>3. \A ev \in Events' : ev.file # 0 => own[ev.wd] = files'[ev.file].path
      BY <1>2, <1>3, <1>h, OverflowFacts DEF HomeOf
    <2>4. own \in [1 .. Len(watches') -> Paths] /\ \A r \in Rows : wds'[r] # -1 => own[wds'[r]] = Table[r].path
      BY <1>2, <1>5, <1>h DEF HomeOf
    <2>5. HomeOf(home2, own)'
      BY <1>h, <2>1, <2>2, <2>3, <2>4, Zenon DEF HomeOf
    <2>6. QED
      BY <2>5 DEF HomeOK, HomeOf
  <1>13. DirsFollowed'
    BY <1>1, <1>2, <1>3, FollowedKept
  <1>14. QED
    BY <1>4, <1>6, <1>7, <1>8, <1>10, <1>11, <1>12, <1>13 DEF Inv, Typing

LEMMA SelfEventFacts ==
  ASSUME NEW what \in Whats, NEW wd \in Int, NEW isdir \in BOOLEAN, NEW ev, ev = SelfEvent(what, wd, isdir)
  PROVE  /\ ev \in AnyEvent /\ ev.what = what /\ ev.wd = wd /\ ev.file = 0
         /\ ev.ver = 0 /\ ev.cookie = 0
  BY DEF SelfEvent, Event, AnyEvent

LEMMA SameWatches ==
  ASSUME WatchesType, watches' = watches
  PROVE  FewerWatches
  BY DEF WatchesType, FewerWatches, Watch

\* Events that tell of the directory of the watch w are queued, one that it is gone.
Tells(w, es) ==
  /\ Notify(w, es)
  /\ \A ev \in Range(es) : /\ ev.wd = w /\ ev.file = 0 /\ ev.ver = 0
                           /\ ev.cookie = 0 /\ ev.what \in Gone \cup {"ignored"}
  /\ \E ev \in Range(es) : ev.what \in Gone

\* A path loses its directory, and its watch tells it.
LEMMA EmptyStep ==
  ASSUME Inv, NEW p \in Paths, at[p] # 0, Move, at' = [at EXCEPT ![p] = 0], made' = made,
         away' = away \/ away' = away \cup {[path |-> p, dir |-> at[p]]},
         UNCHANGED <<files, buf, daemon, reports, noticed, renames, faults>>,
         \/ watches' = watches
         \/ WatchOf(at[p]) # 0 /\ watches' = Unwatch(watches, WatchOf(at[p])),
         \E es \in Seq(AnyEvent) : Tells(WatchOf(at[p]), es)
  PROVE  Inv'
  <1>w. PICK w : w = WatchOf(at[p]) /\ (watches' = watches \/ (w # 0 /\ watches' = Unwatch(watches, w)))
    OBVIOUS
  <1>e. PICK es \in Seq(AnyEvent) :
          /\ Notify(w, es)
          /\ \A ev \in Range(es) : /\ ev.wd = w /\ ev.file = 0 /\ ev.ver = 0
                                   /\ ev.cookie = 0 /\ ev.what \in Gone \cup {"ignored"}
          /\ \E ev \in Range(es) : ev.what \in Gone
    BY <1>w DEF Tells
  <1>1. /\ Typing /\ DirsOK /\ CountOK /\ HomeOK
        /\ DirsType /\ WatchesType /\ EventsType /\ CountsType
    BY DEF Inv, Typing
  <1>2. moves \in Nat /\ moves < MaxMoves /\ moves' = moves + 1
    BY <1>1, Constants DEF Move, CountsType
  <1>3. PICK qs \in Seq(AnyEvent) : (qs = << >> \/ qs = es) /\ (w # 0 => qs = es) /\ (w = 0 => qs = << >>) /\ Queued(qs)
    BY <1>1, <1>e, NotifyQueued
  <1>4. watches \in Seq(Watch) /\ Len(watches) \in Nat /\ DOMAIN watches = 1 .. Len(watches)
    <2>1. watches \in Seq(Watch)
      BY <1>1 DEF WatchesType, Watch
    <2>2. QED
      BY <2>1, SeqFacts
  <1>5. /\ w # 0 => w \in DOMAIN watches /\ watches[w].dir = at[p]
        /\ \A x \in DOMAIN watches : watches[x].dir = at[p] => w = x
    BY <1>1, <1>w, WatchOfFacts
  <1>6. FewerWatches /\ \A x \in DOMAIN watches : watches'[x] = watches[x] \/ (x = w /\ w # 0)
    <2>1. CASE watches' = watches
      BY <1>1, <2>1, SameWatches
    <2>2. CASE w # 0 /\ watches' = Unwatch(watches, w)
      <3>1. w \in 1 .. Len(watches)
        BY <1>4, <1>5, <2>2
      <3>2. /\ watches' \in Seq(Watch) /\ Len(watches') = Len(watches)
            /\ DOMAIN watches' = DOMAIN watches /\ watches'[w].dir = 0
            /\ \A x \in DOMAIN watches : x # w => watches'[x] = watches[x]
        BY <1>4, <2>2, <3>1, UnwatchFacts
      <3>3. QED
        BY <2>2, <3>2 DEF FewerWatches
    <2>3. QED
      BY <1>w, <2>1, <2>2
  <1>7. at \in [Paths -> Dirs] /\ made \in Nat /\ made \in Dirs /\ at[p] \in 1 .. made /\ 0 \in Dirs
    <2>1. at \in [Paths -> Dirs] /\ made \in Dirs /\ at[p] <= made
      BY <1>1 DEF DirsType, DirsOK
    <2>2. at[p] \in Dirs
      BY <2>1
    <2>3. QED
      BY <2>1, <2>2, Constants DEF Dirs
  <1>8. DirsType'
    <2>1. at' \in [Paths -> Dirs]
      BY <1>7
    <2>2. away' \subseteq [path : Paths, dir : Dirs]
      BY <1>1, <1>7 DEF DirsType
    <2>3. QED
      BY <1>7, <2>1, <2>2 DEF DirsType, Dirs
  <1>9. CountOK'
    <2>1. /\ Cardinality(Missing) \in Nat /\ Cardinality(Missing') = Cardinality(Missing) + 1
      BY <1>1, EmptiedPath
    <2>2. made + Cardinality(Missing) <= Cardinality(Paths) + moves
      BY <1>1 DEF CountOK
    <2>3. made' + Cardinality(Missing') <= Cardinality(Paths) + moves'
      BY <1>2, <1>7, <2>1, <2>2, Constants
    <2>4. QED
      BY <2>3 DEF CountOK
  <1>10. \A q \in Paths : at'[q] = IF q = p THEN 0 ELSE at[q]
    BY <1>7
  <1>11. \A q \in Paths : at'[q] <= made'
    BY <1>1, <1>7, <1>10 DEF DirsOK
  <1>12. PICK home, own : HomeOf(home, own)
    BY <1>1 DEF HomeOK
  <1>13. home \in [1 .. made' -> Paths] /\ \A q \in Paths : at'[q] # 0 => home[at'[q]] = q
    BY <1>10, <1>12 DEF HomeOf
  <1>14. \A m \in away' : m.dir \in 1 .. made' /\ home[m.dir] = m.path
    <2>1. \A m \in away : m.dir \in 1 .. made' /\ home[m.dir] = m.path
      BY <1>1, <1>12 DEF DirsOK, HomeOf
    <2>2. PICK x : x = [path |-> p, dir |-> at[p]]
      OBVIOUS
    <2>3. x.dir = at[p] /\ x.path = p
      BY <2>2
    <2>4. x.dir \in 1 .. made' /\ home[x.dir] = x.path
      BY <1>7, <1>12, <2>3 DEF HomeOf
    <2>5. \A m \in away' : m \in away \/ m = x
      BY <2>2
    <2>6. QED
      BY <2>1, <2>4, <2>5
  <1>15. moves' \in 0 .. MaxMoves
    BY <1>2, Constants
  <1>16. \A ev \in Range(qs) : /\ ev.wd \in 1 .. Len(watches) /\ ev.file = 0 /\ ev.ver = 0
                               /\ ev.cookie = 0 /\ ev.what \in Gone \cup {"ignored"}
    <2>1. CASE w = 0
      <3>1. Range(qs) = {}
        BY <1>3, <2>1 DEF Range
      <3>2. QED
        BY <3>1
    <2>2. CASE w # 0
      <3>1. qs = es /\ w \in 1 .. Len(watches)
        BY <1>3, <1>4, <1>5, <2>2
      <3>2. QED
        BY <1>e, <3>1
    <2>3. QED
      BY <2>1, <2>2
  <1>17. ASSUME NEW r \in Rows, lossy' = FALSE, wds[r] # -1, watches[wds[r]].dir = at[Table[r].path],
                at[Table[r].path] # 0
         PROVE  \/ watches'[wds[r]].dir = at'[Table[r].path] /\ at'[Table[r].path] # 0
                \/ \E ev \in Events' : ev.wd = wds[r] /\ ev.what \in Gone
    <2>1. Table[r].path \in Paths /\ wds[r] \in DOMAIN watches /\ wds[r] # 0
      <3>1. wds[r] \in 1 .. Len(watches)
        BY <1>1, <1>17 DEF WatchesType, Wds
      <3>2. QED
        BY <1>4, <3>1, TableAssumption
    <2>2. CASE Table[r].path = p
      <3>1. w = wds[r] /\ qs = es
        BY <1>3, <1>5, <1>17, <2>1, <2>2
      <3>2. PICK ev \in Range(es) : ev.what \in Gone /\ ev.wd = w
        BY <1>e
      <3>3. ev \in Events'
        BY <1>1, <1>3, <1>17, <3>1, <3>2, AddedEvents
      <3>4. QED
        BY <3>1, <3>2, <3>3
    <2>3. CASE Table[r].path # p
      <3>1. wds[r] # w \/ w = 0
        <4>1. SUFFICES ASSUME wds[r] = w, w # 0 PROVE FALSE
          OBVIOUS
        <4>2. at[Table[r].path] = at[p]
          BY <1>5, <1>17, <4>1
        <4>3. home[at[p]] = p /\ home[at[Table[r].path]] = Table[r].path
          BY <1>12, <1>17, <2>1 DEF HomeOf
        <4>4. QED
          BY <2>3, <4>2, <4>3
      <3>2. watches'[wds[r]] = watches[wds[r]]
        BY <1>6, <2>1, <3>1
      <3>3. at'[Table[r].path] = at[Table[r].path]
        BY <1>10, <2>1, <2>3
      <3>4. QED
        BY <1>17, <3>2, <3>3
    <2>4. QED
      BY <2>2, <2>3
  <1>18. made <= made'
    BY <1>7
  <1>19. HomesGrow(home, own, home)
    BY <1>12, <1>13, <1>14 DEF HomesGrow
  <1>20. \E home1, own1, home2 : HomesGrow(home1, own1, home2)
    BY <1>19
  <1>22. \A m \in away' : m.dir \in 1 .. made'
    BY <1>14
  <1>24. FewerWatches /\ Queued(qs)
    BY <1>3, <1>6
  <1>25. UNCHANGED <<files, buf, daemon, reports, noticed, renames, faults>>
    OBVIOUS
  <1>26. \A r \in Rows :
           lossy' = FALSE /\ wds[r] # -1 /\ watches[wds[r]].dir = at[Table[r].path] /\ at[Table[r].path] # 0
             => \/ watches'[wds[r]].dir = at'[Table[r].path] /\ at'[Table[r].path] # 0
                \/ \E ev \in Events' : ev.wd = wds[r] /\ ev.what \in Gone
    BY <1>17
  <1>27. QED
    BY <1>8, <1>9, <1>11, <1>15, <1>16, <1>18, <1>20, <1>22, <1>24, <1>25, <1>26, DirsStep

LEMMA RemoveDirStep ==
  ASSUME Inv, NEW p \in Paths, RemoveDir(p)
  PROVE  Inv'
  <1>1. PICK w : w = WatchOf(at[p])
    OBVIOUS
  <1>2. PICK isdir \in SelfFlags :
          Notify(w, <<SelfEvent("delself", w, isdir), SelfEvent("ignored", w, FALSE)>>)
    BY <1>1 DEF RemoveDir
  <1>3. PICK old, new : old = SelfEvent("delself", w, isdir) /\ new = SelfEvent("ignored", w, FALSE)
    OBVIOUS
  <1>4. w \in Int
    <2>1. WatchesType /\ DirsOK
      BY DEF Inv, Typing
    <2>2. w = 0 \/ w \in DOMAIN watches
      BY <1>1, <2>1, WatchOfFacts
    <2>3. QED
      BY <2>1, <2>2, SeqFacts DEF WatchesType
  <1>5. /\ old \in AnyEvent /\ old.what = "delself" /\ old.wd = w /\ old.file = 0
        /\ old.ver = 0 /\ old.cookie = 0
        /\ new \in AnyEvent /\ new.what = "ignored" /\ new.wd = w /\ new.file = 0
        /\ new.ver = 0 /\ new.cookie = 0
    <2>1. /\ "delself" \in Whats /\ "ignored" \in Whats /\ isdir \in BOOLEAN
      BY TableAssumption DEF Whats
    <2>2. QED
      BY <1>3, <1>4, <2>1 DEF SelfEvent, Event, AnyEvent
  <1>6. PICK es \in Seq(AnyEvent) : es = <<old, new>>
    <2>1. <<old, new>> \in Seq(AnyEvent)
      BY <1>5
    <2>2. QED
      BY <2>1
  <1>7. Range(es) = {old, new}
    <2>1. DOMAIN es = 1 .. 2 /\ es[1] = old /\ es[2] = new
      BY <1>6
    <2>2. \A i \in 1 .. 2 : i = 1 \/ i = 2
      OBVIOUS
    <2>3. QED
      BY <2>1, <2>2 DEF Range
  <1>8. /\ at[p] # 0 /\ Move /\ at' = [at EXCEPT ![p] = 0] /\ made' = made /\ away' = away
        /\ UNCHANGED <<files, buf, daemon, reports, noticed, renames, faults>>
        /\ watches' = watches \/ (w # 0 /\ watches' = Unwatch(watches, w))
    BY <1>1 DEF RemoveDir
  <1>9. Notify(w, es)
    BY <1>2, <1>3, <1>6
  <1>10. \A ev \in Range(es) : /\ ev.wd = w /\ ev.file = 0 /\ ev.ver = 0
                               /\ ev.cookie = 0 /\ ev.what \in Gone \cup {"ignored"}
    BY <1>5, <1>7 DEF Gone
  <1>11. \E ev \in Range(es) : ev.what \in Gone
    BY <1>5, <1>7 DEF Gone
  <1>12. \E es1 \in Seq(AnyEvent) : Tells(WatchOf(at[p]), es1)
    BY <1>1, <1>9, <1>10, <1>11 DEF Tells
  <1>13. QED
    BY <1>1, <1>8, <1>12, EmptyStep

LEMMA MoveDirStep ==
  ASSUME Inv, NEW p \in Paths, MoveDir(p)
  PROVE  Inv'
  <1>1. PICK w : w = WatchOf(at[p])
    OBVIOUS
  <1>2. PICK isdir \in SelfFlags : Notify(w, <<SelfEvent("moveself", w, isdir)>>)
    BY <1>1 DEF MoveDir
  <1>3. PICK old : old = SelfEvent("moveself", w, isdir)
    OBVIOUS
  <1>4. w \in Int
    <2>1. WatchesType /\ DirsOK
      BY DEF Inv, Typing
    <2>2. w = 0 \/ w \in DOMAIN watches
      BY <1>1, <2>1, WatchOfFacts
    <2>3. QED
      BY <2>1, <2>2, SeqFacts DEF WatchesType
  <1>5. /\ old \in AnyEvent /\ old.what = "moveself" /\ old.wd = w /\ old.file = 0
        /\ old.ver = 0 /\ old.cookie = 0
    <2>1. "moveself" \in Whats /\ isdir \in BOOLEAN
      BY TableAssumption DEF Whats
    <2>2. QED
      BY <1>3, <1>4, <2>1 DEF SelfEvent, Event, AnyEvent
  <1>6. PICK es \in Seq(AnyEvent) : es = <<old>>
    <2>1. <<old>> \in Seq(AnyEvent)
      BY <1>5
    <2>2. QED
      BY <2>1
  <1>7. Range(es) = {old}
    BY <1>6 DEF Range
  <1>8. /\ at[p] # 0 /\ Move /\ at' = [at EXCEPT ![p] = 0] /\ made' = made
        /\ away' = away \cup {[path |-> p, dir |-> at[p]]}
        /\ UNCHANGED <<files, buf, daemon, reports, noticed, renames, faults>>
        /\ watches' = watches
    BY <1>1 DEF MoveDir
  <1>9. Notify(w, es)
    BY <1>2, <1>3, <1>6
  <1>10. \A ev \in Range(es) : /\ ev.wd = w /\ ev.file = 0 /\ ev.ver = 0
                               /\ ev.cookie = 0 /\ ev.what \in Gone \cup {"ignored"}
    BY <1>5, <1>7 DEF Gone
  <1>11. \E ev \in Range(es) : ev.what \in Gone
    BY <1>5, <1>7 DEF Gone
  <1>12. \E es1 \in Seq(AnyEvent) : Tells(WatchOf(at[p]), es1)
    BY <1>1, <1>9, <1>10, <1>11 DEF Tells
  <1>13. QED
    BY <1>1, <1>8, <1>12, EmptyStep

\* A path gets a directory, one that was moved away or a new one.
LEMMA FillStep ==
  ASSUME Inv, NEW p \in Paths, at[p] = 0, Move, NEW d \in Dirs, at' = [at EXCEPT ![p] = d],
         made' \in Dirs, made <= made', away' \subseteq away,
         \/ made' = made + 1 /\ d = made + 1
         \/ made' = made /\ [path |-> p, dir |-> d] \in away,
         UNCHANGED <<files, watches, buf, daemon, reports, noticed, renames, faults>>,
         NEW qs \in Seq(AnyEvent), Queued(qs),
         \A ev \in Range(qs) : /\ ev.wd \in 1 .. Len(watches) /\ ev.file = 0 /\ ev.ver = 0
                               /\ ev.cookie = 0 /\ ev.what \in Gone \cup {"ignored"}
  PROVE  Inv'
  <1>1. /\ Typing /\ DirsOK /\ CountOK /\ HomeOK
        /\ DirsType /\ WatchesType /\ EventsType /\ CountsType
    BY DEF Inv, Typing
  <1>2. moves \in Nat /\ moves < MaxMoves /\ moves' = moves + 1
    BY <1>1, Constants DEF Move, CountsType
  <1>3. moves' \in 0 .. MaxMoves
    BY <1>2, Constants
  <1>4. FewerWatches
    BY <1>1, SameWatches
  <1>5. at \in [Paths -> Dirs] /\ made \in Nat /\ made' \in Nat /\ \A q \in Paths : at[q] \in Nat /\ at[q] <= made
    BY <1>1, Constants DEF DirsType, Dirs, DirsOK
  <1>6. PICK home, own : HomeOf(home, own)
    BY <1>1 DEF HomeOK
  <1>7. d \in 1 .. made' /\ (d \in 1 .. made => home[d] = p)
    <2>1. CASE made' = made + 1 /\ d = made + 1
      BY <1>5, <2>1
    <2>2. CASE made' = made /\ [path |-> p, dir |-> d] \in away
      <3>1. PICK m \in away : m = [path |-> p, dir |-> d]
        BY <2>2
      <3>2. m.dir = d /\ m.path = p
        BY <3>1
      <3>3. m.dir \in 1 .. made /\ home[m.dir] = m.path
        BY <1>1, <1>6 DEF DirsOK, HomeOf
      <3>4. QED
        BY <2>2, <3>2, <3>3
    <2>3. QED
      BY <2>1, <2>2
  <1>8. DirsType'
    <2>1. at' \in [Paths -> Dirs]
      BY <1>5
    <2>2. QED
      BY <1>1, <2>1 DEF DirsType, Dirs
  <1>9. CountOK'
    <2>1. d \in Nat \ {0}
      BY <1>5, <1>7
    <2>2. /\ Cardinality(Missing) \in Nat /\ Cardinality(Missing') \in Nat
          /\ Cardinality(Missing') = Cardinality(Missing) - 1
      BY <1>1, <2>1, FilledPath
    <2>3. made + Cardinality(Missing) <= Cardinality(Paths) + moves
      BY <1>1 DEF CountOK
    <2>4. made' <= made + 1
      BY <1>5
    <2>5. made' + Cardinality(Missing') <= Cardinality(Paths) + moves'
      BY <1>2, <1>5, <2>2, <2>3, <2>4, Constants
    <2>6. QED
      BY <2>5 DEF CountOK
  <1>10. \A q \in Paths : at'[q] = IF q = p THEN d ELSE at[q]
    BY <1>5
  <1>11. \A q \in Paths : at'[q] <= made'
    BY <1>5, <1>7, <1>10
  <1>12. \A m \in away' : m.dir \in 1 .. made' /\ m.dir \in 1 .. made /\ home[m.dir] = m.path
    <2>1. \A m \in away : m.dir \in 1 .. made /\ home[m.dir] = m.path
      BY <1>1, <1>6 DEF DirsOK, HomeOf
    <2>2. \A x \in 1 .. made : x \in 1 .. made'
      BY <1>5
    <2>3. QED
      BY <2>1, <2>2
  <1>13. PICK home2 : home2 = [x \in 1 .. made' |-> IF x = d THEN p ELSE home[x]]
    OBVIOUS
  <1>14. \A x \in 1 .. made : home2[x] = home[x]
    <2>1. \A x \in 1 .. made : x \in 1 .. made'
      BY <1>5
    <2>2. QED
      BY <1>7, <1>13, <2>1
  <1>15. home2 \in [1 .. made' -> Paths]
    <2>1. \A x \in 1 .. made' : x # d => x \in 1 .. made
      BY <1>5
    <2>2. QED
      BY <1>6, <1>13, <2>1 DEF HomeOf
  <1>16. \A q \in Paths : at'[q] # 0 => home2[at'[q]] = q
    <2> SUFFICES ASSUME NEW q \in Paths, at'[q] # 0 PROVE home2[at'[q]] = q
      OBVIOUS
    <2>1. CASE q = p
      BY <1>7, <1>10, <1>13, <2>1
    <2>2. CASE q # p
      <3>1. at'[q] = at[q] /\ at[q] \in 1 .. made
        BY <1>5, <1>10, <2>2
      <3>2. home[at[q]] = q
        BY <1>6, <3>1 DEF HomeOf
      <3>3. QED
        BY <1>14, <3>1, <3>2
    <2>3. QED
      BY <2>1, <2>2
  <1>17. \E home1, own1, home3 : HomesGrow(home1, own1, home3)
    <2>1. HomesGrow(home, own, home2)
      BY <1>6, <1>12, <1>14, <1>15, <1>16 DEF HomesGrow
    <2>2. QED
      BY <2>1
  <1>18. \A m \in away' : m.dir \in 1 .. made'
    BY <1>12
  <1>19. \A r \in Rows :
           lossy' = FALSE /\ wds[r] # -1 /\ watches[wds[r]].dir = at[Table[r].path] /\ at[Table[r].path] # 0
             => \/ watches'[wds[r]].dir = at'[Table[r].path] /\ at'[Table[r].path] # 0
                \/ \E ev \in Events' : ev.wd = wds[r] /\ ev.what \in Gone
    BY <1>10, TableAssumption
  <1>20. UNCHANGED <<files, buf, daemon, reports, noticed, renames, faults>>
    OBVIOUS
  <1>21. QED
    BY <1>3, <1>4, <1>8, <1>9, <1>11, <1>17, <1>18, <1>19, <1>20, DirsStep

LEMMA MoveBackStep ==
  ASSUME Inv, NEW m \in away, MoveBack(m)
  PROVE  Inv'
  <1>1. /\ Typing /\ DirsOK /\ DirsType /\ WatchesType /\ EventsType /\ CountsType
    BY DEF Inv, Typing
  <1>2. PICK p, d, w : p = m.path /\ d = m.dir /\ w = WatchOf(m.dir)
    OBVIOUS
  <1>3. p \in Paths /\ d \in Dirs /\ m = [path |-> p, dir |-> d]
    <2>1. m \in [path : Paths, dir : Dirs]
      BY <1>1 DEF DirsType
    <2>2. QED
      BY <1>2, <2>1
  <1>4. /\ Move /\ at[p] = 0 /\ at' = [at EXCEPT ![p] = d] /\ away' = away \ {m}
        /\ made' = made
        /\ UNCHANGED <<files, watches, buf, daemon, reports, noticed, renames, faults>>
    BY <1>2 DEF MoveBack
  <1>5. PICK isdir \in SelfFlags : Notify(w, <<SelfEvent("moveself", w, isdir)>>)
    BY <1>2 DEF MoveBack
  <1>6. PICK ev : ev = SelfEvent("moveself", w, isdir)
    OBVIOUS
  <1>7. w \in Int /\ (w # 0 => w \in 1 .. Len(watches))
    <2>1. w = 0 \/ w \in DOMAIN watches
      BY <1>1, <1>2, WatchOfFacts
    <2>2. DOMAIN watches = 1 .. Len(watches)
      BY <1>1, SeqFacts DEF WatchesType
    <2>3. QED
      BY <2>1, <2>2
  <1>8. /\ ev \in AnyEvent /\ ev.what = "moveself" /\ ev.wd = w /\ ev.file = 0
        /\ ev.ver = 0 /\ ev.cookie = 0
    <2>1. "moveself" \in Whats /\ isdir \in BOOLEAN
      BY TableAssumption DEF Whats
    <2>2. QED
      BY <1>6, <1>7, <2>1 DEF SelfEvent, Event, AnyEvent
  <1>9. <<ev>> \in Seq(AnyEvent) /\ Range(<<ev>>) = {ev} /\ Range(<< >>) = {}
    BY <1>8 DEF Range
  <1>10. PICK qs \in Seq(AnyEvent) : (qs = << >> \/ qs = <<ev>>) /\ (w = 0 => qs = << >>) /\ Queued(qs)
    BY <1>1, <1>5, <1>6, <1>9, NotifyQueued
  <1>11. \A x \in Range(qs) : /\ x.wd \in 1 .. Len(watches) /\ x.file = 0 /\ x.ver = 0
                              /\ x.cookie = 0 /\ x.what \in Gone \cup {"ignored"}
    BY <1>7, <1>8, <1>9, <1>10 DEF Gone
  <1>12. made' \in Dirs /\ made <= made' /\ away' \subseteq away /\ [path |-> p, dir |-> d] \in away
    BY <1>1, <1>3, <1>4, Constants DEF DirsType, Dirs
  <1>13. QED
    BY <1>3, <1>4, <1>10, <1>11, <1>12, FillStep

LEMMA MakeDirStep ==
  ASSUME Inv, NEW p \in Paths, MakeDir(p)
  PROVE  Inv'
  <1>1. /\ Typing /\ CountOK /\ DirsType /\ EventsType /\ CountsType
    BY DEF Inv, Typing
  <1>2. PICK d : d = made + 1
    OBVIOUS
  <1>3. /\ Move /\ at[p] = 0 /\ at' = [at EXCEPT ![p] = d] /\ made' = made + 1 /\ away' = away
        /\ queue' = queue /\ lossy' = lossy
        /\ UNCHANGED <<files, watches, buf, daemon, reports, noticed, renames, faults>>
    BY <1>2 DEF MakeDir
  <1>4. made + 1 \in Dirs
    BY <1>1, <1>3, RoomForDir
  <1>5. d \in Dirs /\ made' \in Dirs /\ made <= made'
    <2>1. made \in Nat
      BY <1>1, Constants DEF DirsType, Dirs
    <2>2. QED
      BY <1>2, <1>3, <1>4, <2>1
  <1>6. PICK qs \in Seq(AnyEvent) : Queued(qs) /\ qs = << >>
    BY <1>1, <1>3, QueuedNothing
  <1>7. Range(qs) = {}
    BY <1>6 DEF Range
  <1>8. made' = made + 1 /\ d = made + 1 /\ away' \subseteq away
    BY <1>2, <1>3
  <1>9. QED
    BY <1>3, <1>5, <1>6, <1>7, <1>8, FillStep

\* Steps after which the state says that events were lost.
LEMMA LostOrder ==
  ASSUME lossy' = TRUE
  PROVE  Order' /\ DirsFollowed'
  BY DEF Order, DirsFollowed

LEMMA SelfFailsStep == Inv /\ HandleSelfFails => Inv'
  <1> SUFFICES ASSUME Inv, HandleSelfFails PROVE Inv'
    OBVIOUS
  <1>1. /\ Typing /\ DirsOK /\ CountOK /\ HomeOK /\ OwnRows
        /\ DirsType /\ FilesType /\ WatchesType /\ EventsType /\ ReportsType /\ CountsType
    BY DEF Inv, Typing
  <1>2. PICK wd, ev : wd = e.wd /\ ev = SelfEvent("ignored", wd, FALSE)
    OBVIOUS
  <1>3. /\ Handling /\ IsSelf /\ RowsOf(e.wd) # {} /\ faults < MaxFaults /\ faults' = faults + 1
        /\ watches' = Unwatch(watches, wd) /\ buf' = << >> /\ lossy' = TRUE
        /\ queue' = queue \/ queue' = Push(queue, <<ev>>)
        /\ UNCHANGED <<fs, files, wds, cwds, moved, up, reports, noticed, renames, moves>>
    BY <1>2 DEF HandleSelfFails, Fault, daemon
  <1>4. wd \in 1 .. Len(watches)
    BY <1>1, <1>2, <1>3, SelfFacts
  <1>5. watches \in Seq(Watch) /\ Len(watches) \in Nat /\ DOMAIN watches = 1 .. Len(watches)
    <2>1. watches \in Seq(Watch)
      BY <1>1 DEF WatchesType, Watch
    <2>2. QED
      BY <2>1, SeqFacts
  <1>6. FewerWatches
    <2>1. /\ watches' \in Seq(Watch) /\ Len(watches') = Len(watches)
          /\ DOMAIN watches' = DOMAIN watches /\ watches'[wd].dir = 0
          /\ \A x \in DOMAIN watches : x # wd => watches'[x] = watches[x]
      BY <1>3, <1>4, <1>5, UnwatchFacts
    <2>2. QED
      BY <2>1 DEF FewerWatches
  <1>7. /\ WatchesType'
        /\ \A v, w \in DOMAIN watches' : watches'[v].dir = watches'[w].dir /\ watches'[v].dir # 0 => v = w
        /\ \A w \in DOMAIN watches' :
             watches'[w].dir # 0 => w \in DOMAIN watches /\ watches'[w].dir = watches[w].dir
    BY <1>1, <1>3, <1>6, FewerDirs
  <1>8. /\ ev \in AnyEvent /\ ev.what = "ignored" /\ ev.wd = wd /\ ev.file = 0
        /\ ev.ver = 0 /\ ev.cookie = 0
    <2>1. wd \in Int
      BY <1>4
    <2>2. QED
      BY <1>2, <2>1, IgnoredFacts
  <1>9. <<ev>> \in Seq(AnyEvent) /\ Range(<<ev>>) = {ev} /\ Range(<< >>) = {}
    BY <1>8 DEF Range
  <1>10. /\ buf' \in Seq(AnyEvent) /\ queue' \in Seq(AnyEvent) /\ Len(queue') <= MaxQueue + 1
         /\ \A x \in Events' : x \in Events \/ x = Overflow \/ x = ev
    <2>1. queue \in Seq(AnyEvent) /\ Len(queue) <= MaxQueue + 1
      BY <1>1 DEF EventsType
    <2>2. /\ Push(queue, <<ev>>) \in Seq(AnyEvent) /\ Len(Push(queue, <<ev>>)) <= MaxQueue + 1
          /\ Range(Push(queue, <<ev>>)) \subseteq Range(queue) \cup Range(<<ev>>) \cup {Overflow}
      BY <1>9, <2>1, PushFacts
    <2>3. /\ queue' \in Seq(AnyEvent) /\ Len(queue') <= MaxQueue + 1
          /\ Range(queue') \subseteq Range(queue) \cup {ev} \cup {Overflow}
      BY <1>3, <1>9, <2>1, <2>2
    <2>4. Events' = Range(queue')
      BY <1>3, <1>9 DEF Events
    <2>5. buf' \in Seq(AnyEvent)
      BY <1>3, EmptySeq
    <2>6. QED
      BY <2>3, <2>4, <2>5 DEF Events
  <1>11. EventsType'
    <2>1. Told(ev)'
      <3>1. ev.wd \in 1 .. Len(watches') /\ ev.what \notin OfFiles /\ ev.what # "to"
        BY <1>4, <1>6, <1>8 DEF OfFiles, FewerWatches
      <3>2. Len(files') \in Nat /\ renames' \in Nat
        BY <1>1, <1>3, SeqFacts, Constants DEF FilesType, CountsType
      <3>3. ev.file <= Len(files') /\ ev.ver <= renames' /\ ev.cookie <= renames'
        BY <1>8, <3>2
      <3>4. QED
        BY <1>8, <3>1, <3>3 DEF Told
    <2>2. Len(files) \in Nat /\ renames \in Nat
      BY <1>1, SeqFacts, Constants DEF FilesType, CountsType
    <2>3. /\ Len(watches') = Len(watches) /\ Len(files') = Len(files) /\ renames' = renames
          /\ Len(watches) <= Len(watches') /\ Len(files) <= Len(files') /\ renames <= renames'
      BY <1>3, <1>5, <1>6, <2>2 DEF FewerWatches
    <2>4. QED
      BY <1>1, <1>5, <1>10, <2>1, <2>2, <2>3, EventsGrow
  <1>12. DirsType' /\ FilesType' /\ ReportsType' /\ OwnRows' /\ CountOK'
    BY <1>1, <1>3, SameReports DEF DirsType, FilesType, Files, Dirs, CountOK, Missing, fs
  <1>13. CountsType'
    <2>1. faults' \in 0 .. MaxFaults /\ lossy' \in BOOLEAN
      BY <1>1, <1>3, Constants DEF CountsType
    <2>2. QED
      BY <1>1, <1>3, <2>1 DEF CountsType
  <1>14. \A w \in DOMAIN watches : watches[w].dir \in 0 .. made
    <2> SUFFICES ASSUME NEW w \in DOMAIN watches PROVE watches[w].dir \in 0 .. made
      OBVIOUS
    <2>1. watches[w] \in Watch
      BY <1>5, SeqFacts
    <2>2. watches[w].dir \in Dirs /\ watches[w].dir <= made /\ made \in Dirs
      BY <1>1, <2>1 DEF Watch, DirsOK, DirsType
    <2>3. QED
      BY <2>2, Constants DEF Dirs
  <1>15. made' = made /\ made \in Nat /\ at' = at /\ away' = away /\ files' = files
    BY <1>1, <1>3, Constants DEF fs, DirsType, Dirs
  <1>16. DirsOK'
    <2>1. \A w \in DOMAIN watches' : watches'[w].dir <= made'
      <3> SUFFICES ASSUME NEW w \in DOMAIN watches' PROVE watches'[w].dir <= made
        BY <1>15
      <3>1. CASE watches'[w].dir = 0
        BY <1>15, <3>1
      <3>2. CASE watches'[w].dir # 0
        BY <1>7, <1>14, <1>15, <3>2
      <3>3. QED
        BY <3>1, <3>2
    <2>2. QED
      BY <1>1, <1>3, <1>7, <1>15, <2>1 DEF DirsOK
  <1>17. HomeOK'
    <2>1. PICK home, own : HomeOf(home, own)
      BY <1>1 DEF HomeOK
    <2>2. ASSUME NEW w \in DOMAIN watches', watches'[w].dir # 0
          PROVE  home[watches'[w].dir] = own[w]
      BY <1>7, <2>1, <2>2 DEF HomeOf
    <2>3. \A x \in Events' : x.file # 0 => own[x.wd] = files'[x.file].path
      BY <1>8, <1>10, <1>15, <2>1, OverflowFacts DEF HomeOf
    <2>4. own \in [1 .. Len(watches') -> Paths] /\ \A r \in Rows : wds'[r] # -1 => own[wds'[r]] = Table[r].path
      BY <1>3, <1>6, <2>1 DEF HomeOf, FewerWatches
    <2>5. HomeOf(home, own)'
      BY <1>15, <2>1, <2>2, <2>3, <2>4, Zenon DEF HomeOf
    <2>6. QED
      BY <2>5 DEF HomeOK, HomeOf
  <1>18. QED
    BY <1>3, <1>7, <1>11, <1>12, <1>13, <1>16, <1>17, LostOrder DEF Inv, Typing

LEMMA SelfUnknownStep == Inv /\ HandleSelfUnknown => Inv'
  <1> SUFFICES ASSUME Inv, HandleSelfUnknown PROVE Inv'
    OBVIOUS
  <1>1. /\ Typing /\ DirsOK /\ CountOK /\ HomeOK /\ OwnRows /\ DirsFollowed
        /\ EventsType /\ ReportsType /\ CountsType
    BY DEF Inv, Typing
  <1>2. /\ UNCHANGED <<fs, files, watches, queue, buf, wds, cwds, moved, reports, noticed, renames, moves, faults>>
        /\ up' = FALSE /\ lossy' = TRUE
    BY DEF HandleSelfUnknown
  <1>3. DirsType' /\ FilesType' /\ WatchesType'
    BY <1>1, <1>2 DEF Typing, DirsType, FilesType, WatchesType, fs, Dirs, Files, Wds
  <1>4. EventsType'
    BY <1>1, <1>2 DEF EventsType, Events, Told
  <1>5. ReportsType' /\ OwnRows' /\ CountsType'
    BY <1>1, <1>2, SameReports DEF CountsType
  <1>6. DirsOK' /\ CountOK'
    BY <1>1, <1>2 DEF DirsOK, CountOK, Missing, fs
  <1>7. HomeOK'
    <2>1. PICK home, own : HomeOf(home, own)
      BY <1>1 DEF HomeOK
    <2>2. UNCHANGED <<at, away, made, files, watches, wds, queue, buf>>
      BY <1>2 DEF fs
    <2>3. Events' = Events
      BY <2>2 DEF Events
    <2>4. HomeOf(home, own)'
      BY <2>1, <2>2, <2>3, Zenon DEF HomeOf
    <2>5. QED
      BY <2>4 DEF HomeOK, HomeOf
  <1>8. QED
    BY <1>2, <1>3, <1>4, <1>5, <1>6, <1>7, LostOrder DEF Inv, Typing
-----------------------------------------------------------------------------
(* The daemon starts.                                                      *)

LEMMA PlacesFacts ==
  /\ Len(Table) + Len(Configs) \in Nat /\ DOMAIN Places = 1 .. Len(Table) + Len(Configs)
  /\ \A i \in DOMAIN Places : Places[i] \in Paths
  /\ \A r \in Rows : r \in DOMAIN Places /\ Places[r] = Table[r].path
  /\ \A c \in DOMAIN Configs :
       Len(Table) + c \in DOMAIN Places /\ Places[Len(Table) + c] = Configs[c].path
  <1>1. /\ Len(Table) \in Nat /\ Len(Configs) \in Nat /\ Rows = 1 .. Len(Table)
        /\ DOMAIN Configs = 1 .. Len(Configs)
    BY TableAssumption
  <1>2. DOMAIN Places = 1 .. Len(Table) + Len(Configs)
    BY DEF Places
  <1>3. ASSUME NEW i \in DOMAIN Places PROVE Places[i] \in Paths
    <2>1. CASE i <= Len(Table)
      <3>1. i \in Rows
        BY <1>1, <1>2, <2>1
      <3>2. Places[i] = Table[i].path
        BY <2>1 DEF Places
      <3>3. QED
        BY <3>1, <3>2, TableAssumption
    <2>2. CASE ~ (i <= Len(Table))
      <3>1. i - Len(Table) \in DOMAIN Configs
        BY <1>1, <1>2, <2>2
      <3>2. Places[i] = Configs[i - Len(Table)].path
        BY <2>2 DEF Places
      <3>3. QED
        BY <3>1, <3>2, TableAssumption
    <2>3. QED
      BY <2>1, <2>2
  <1>4. ASSUME NEW r \in Rows PROVE r \in DOMAIN Places /\ Places[r] = Table[r].path
    <2>1. r \in 1 .. Len(Table) + Len(Configs) /\ r <= Len(Table)
      BY <1>1
    <2>2. QED
      BY <1>2, <2>1 DEF Places
  <1>5. ASSUME NEW c \in DOMAIN Configs
        PROVE  Len(Table) + c \in DOMAIN Places /\ Places[Len(Table) + c] = Configs[c].path
    <2>1. /\ Len(Table) + c \in 1 .. Len(Table) + Len(Configs) /\ ~ (Len(Table) + c <= Len(Table))
          /\ Len(Table) + c - Len(Table) = c
      BY <1>1
    <2>2. PICK k : k = Len(Table) + c
      OBVIOUS
    <2>3. k \in DOMAIN Places /\ Places[k] = Configs[k - Len(Table)].path
      BY <1>2, <2>1, <2>2 DEF Places
    <2>4. k - Len(Table) = c
      <3>1. Len(Table) \in Nat /\ c \in Nat
        BY <1>1
      <3>2. QED
        BY <2>2, <3>1
    <2>5. QED
      BY <2>2, <2>3, <2>4
  <1>6. QED
    BY <1>1, <1>2, <1>3, <1>4, <1>5

LEMMA FirstAtFacts ==
  ASSUME NEW p, NEW i \in DOMAIN Places, Places[i] = p
  PROVE  FirstAt(p) \in DOMAIN Places /\ Places[FirstAt(p)] = p
  <1>1. {j \in DOMAIN Places : Places[j] = p} \in SUBSET Nat
    BY PlacesFacts
  <1>2. {j \in DOMAIN Places : Places[j] = p} # {}
    OBVIOUS
  <1>3. Min({j \in DOMAIN Places : Places[j] = p}) \in {j \in DOMAIN Places : Places[j] = p}
    BY <1>1, <1>2, MinFacts
  <1>4. QED
    BY <1>3 DEF FirstAt

\* Each directory that is there is watched once, for all rows of its path.
LEMMA WatchedFacts ==
  ASSUME NEW dirs \in [Paths -> Dirs], \A p, q \in Paths : dirs[p] = dirs[q] /\ dirs[p] # 0 => p = q,
         NEW nwatches, NEW nwds, NEW ncwds, Watched(dirs, nwatches, nwds, ncwds)
  PROVE  /\ nwatches \in Seq(Watch) /\ Len(nwatches) \in Nat /\ DOMAIN nwatches = 1 .. Len(nwatches)
         /\ DOMAIN nwatches = DOMAIN Places
         /\ nwds \in [Rows -> {-1} \cup (1 .. Len(nwatches))]
         /\ ncwds \in [DOMAIN Configs -> {-1} \cup (1 .. Len(nwatches))]
         /\ \A r, s \in Rows : Table[r].path = Table[s].path => nwds[r] = nwds[s]
         /\ \A w \in DOMAIN nwatches :
              nwatches[w].dir # 0 => nwatches[w].dir = dirs[Places[w]]
         /\ \A v, w \in DOMAIN nwatches : nwatches[v].dir = nwatches[w].dir /\ nwatches[v].dir # 0 => v = w
         /\ \A r \in Rows : nwds[r] # -1 =>
              /\ nwds[r] \in DOMAIN Places /\ Places[nwds[r]] = Table[r].path
              /\ nwatches[nwds[r]].dir = dirs[Table[r].path] /\ dirs[Table[r].path] # 0
  <1>1. PICK n \in Nat : n = Len(Table) + Len(Configs)
    BY PlacesFacts
  <1>2. /\ nwatches = [i \in DOMAIN Places |-> WatchAt(dirs, i)]
        /\ nwds = [r \in Rows |-> WdOf(dirs, Table[r].path)]
        /\ ncwds = [c \in DOMAIN Configs |-> WdOf(dirs, Configs[c].path)]
    BY DEF Watched
  <1>3. DOMAIN Places = 1 .. n /\ \A i \in DOMAIN Places : Places[i] \in Paths
    BY <1>1, PlacesFacts
  <1>4. ASSUME NEW i \in DOMAIN Places
        PROVE  /\ nwatches[i] \in Watch /\ nwatches[i].dir \in Dirs
               /\ nwatches[i].dir = IF i = FirstAt(Places[i]) THEN dirs[Places[i]] ELSE 0
    <2>1. PICK create \in BOOLEAN : create = (\E c \in DOMAIN Configs : Configs[c].path = Places[i])
      OBVIOUS
    <2>2. PICK d : d = IF i = FirstAt(Places[i]) THEN dirs[Places[i]] ELSE 0
      OBVIOUS
    <2>3. d \in Dirs
      BY <1>3, <2>2, Constants DEF Dirs
    <2>4. nwatches[i] = [dir |-> d, create |-> create]
      BY <1>2, <2>1, <2>2 DEF WatchAt
    <2>5. QED
      BY <2>2, <2>3, <2>4 DEF Watch
  <1>5. /\ nwatches \in Seq(Watch) /\ Len(nwatches) = n /\ DOMAIN nwatches = 1 .. n
    <2>1. nwatches \in [1 .. n -> Watch]
      BY <1>2, <1>3, <1>4
    <2>2. nwatches \in Seq(Watch)
      BY <2>1, SeqDef
    <2>3. DOMAIN nwatches = 1 .. n
      BY <2>1
    <2>4. DOMAIN nwatches = 1 .. Len(nwatches) /\ Len(nwatches) \in Nat
      BY <2>2, SeqFacts
    <2>5. QED
      BY <2>2, <2>3, <2>4
  <1>6. ASSUME NEW p \in Paths, NEW i \in DOMAIN Places, Places[i] = p
        PROVE  /\ WdOf(dirs, p) \in {-1} \cup (1 .. n)
               /\ WdOf(dirs, p) # -1 =>
                    /\ WdOf(dirs, p) \in DOMAIN Places /\ Places[WdOf(dirs, p)] = p
                    /\ nwatches[WdOf(dirs, p)].dir = dirs[p] /\ dirs[p] # 0
    <2>1. FirstAt(p) \in DOMAIN Places /\ Places[FirstAt(p)] = p
      BY <1>6, FirstAtFacts
    <2>2. nwatches[FirstAt(p)].dir = dirs[p]
      BY <1>4, <2>1
    <2>3. CASE dirs[p] = 0
      BY <2>3 DEF WdOf
    <2>4. CASE dirs[p] # 0
      BY <1>3, <2>1, <2>2, <2>4 DEF WdOf
    <2>5. QED
      BY <2>3, <2>4
  <1>7. ASSUME NEW r \in Rows
        PROVE  /\ nwds[r] = WdOf(dirs, Table[r].path) /\ nwds[r] \in {-1} \cup (1 .. n)
               /\ nwds[r] # -1 =>
                    /\ nwds[r] \in DOMAIN Places /\ Places[nwds[r]] = Table[r].path
                    /\ nwatches[nwds[r]].dir = dirs[Table[r].path] /\ dirs[Table[r].path] # 0
    <2>1. PICK p \in Paths : p = Table[r].path
      BY TableAssumption
    <2>2. r \in DOMAIN Places /\ Places[r] = p
      BY <2>1, PlacesFacts
    <2>3. nwds[r] = WdOf(dirs, p)
      BY <1>2, <2>1
    <2>4. QED
      BY <1>6, <2>1, <2>2, <2>3
  <1>8. ASSUME NEW c \in DOMAIN Configs
        PROVE  ncwds[c] \in {-1} \cup (1 .. n)
    <2>1. PICK p \in Paths : p = Configs[c].path
      BY TableAssumption
    <2>2. Len(Table) + c \in DOMAIN Places /\ Places[Len(Table) + c] = p
      BY <2>1, PlacesFacts
    <2>3. ncwds[c] = WdOf(dirs, p)
      BY <1>2, <2>1
    <2>4. QED
      BY <1>6, <2>2, <2>3
  <1>9. ASSUME NEW w \in DOMAIN nwatches, nwatches[w].dir # 0
        PROVE  nwatches[w].dir = dirs[Places[w]] /\ w = FirstAt(Places[w]) /\ Places[w] \in Paths
    BY <1>3, <1>4, <1>5, <1>9
  <1>10. ASSUME NEW v \in DOMAIN nwatches, NEW w \in DOMAIN nwatches,
                nwatches[v].dir = nwatches[w].dir, nwatches[v].dir # 0
         PROVE  v = w
    <2>1. /\ nwatches[v].dir = dirs[Places[v]] /\ v = FirstAt(Places[v]) /\ Places[v] \in Paths
          /\ nwatches[w].dir = dirs[Places[w]] /\ w = FirstAt(Places[w]) /\ Places[w] \in Paths
      BY <1>9, <1>10
    <2>2. Places[v] = Places[w]
      BY <1>10, <2>1
    <2>3. QED
      BY <2>1, <2>2
  <1>11. nwds \in [Rows -> {-1} \cup (1 .. n)] /\ ncwds \in [DOMAIN Configs -> {-1} \cup (1 .. n)]
    BY <1>2, <1>7, <1>8
  <1>12. \A r, s \in Rows : Table[r].path = Table[s].path => nwds[r] = nwds[s]
    BY <1>7
  <1>13. QED
    BY <1>3, <1>5, <1>7, <1>9, <1>10, <1>11, <1>12

LEMMA RespawnStep == Inv /\ Respawn => Inv'
  <1> SUFFICES ASSUME Inv, Respawn PROVE Inv'
    OBVIOUS
  <1>1. /\ Typing /\ DirsOK /\ CountOK /\ HomeOK /\ OwnRows
        /\ DirsType /\ FilesType /\ EventsType /\ ReportsType /\ CountsType
    BY DEF Inv, Typing
  <1>2. /\ UNCHANGED <<at, away, made, files, reports, noticed, renames, moves>>
        /\ Watched(at, watches', wds', cwds')
        /\ queue' = << >> /\ buf' = << >> /\ moved' = 0 /\ up' = TRUE /\ lossy' = TRUE
        /\ (IF up THEN Fault ELSE UNCHANGED faults)
    BY DEF Respawn, fs
  <1>3. PICK home, own : HomeOf(home, own)
    BY <1>1 DEF HomeOK
  <1>4. at \in [Paths -> Dirs] /\ \A p, q \in Paths : at[p] = at[q] /\ at[p] # 0 => p = q
    BY <1>1, <1>3 DEF DirsType, HomeOf
  <1>5. PICK nwatches, nwds, ncwds : nwatches = watches' /\ nwds = wds' /\ ncwds = cwds'
    OBVIOUS
  <1>6. Watched(at, nwatches, nwds, ncwds)
    BY <1>2, <1>5
  <1>7. /\ nwatches \in Seq(Watch) /\ Len(nwatches) \in Nat /\ DOMAIN nwatches = 1 .. Len(nwatches)
        /\ DOMAIN nwatches = DOMAIN Places
        /\ nwds \in [Rows -> {-1} \cup (1 .. Len(nwatches))]
        /\ ncwds \in [DOMAIN Configs -> {-1} \cup (1 .. Len(nwatches))]
        /\ \A r, s \in Rows : Table[r].path = Table[s].path => nwds[r] = nwds[s]
        /\ \A w \in DOMAIN nwatches :
             nwatches[w].dir # 0 => nwatches[w].dir = at[Places[w]]
        /\ \A v, w \in DOMAIN nwatches : nwatches[v].dir = nwatches[w].dir /\ nwatches[v].dir # 0 => v = w
        /\ \A r \in Rows : nwds[r] # -1 =>
             nwds[r] \in DOMAIN Places /\ Places[nwds[r]] = Table[r].path
    BY <1>4, <1>6, WatchedFacts
  <1>8. DirsType' /\ FilesType'
    BY <1>1, <1>2 DEF DirsType, FilesType, Dirs, Files
  <1>9. WatchesType'
    BY <1>5, <1>7 DEF WatchesType, Wds, Watch
  <1>10. EventsType' /\ Events' = {}
    <2>1. Events' = {}
      BY <1>2 DEF Events, Range
    <2>2. << >> \in Seq(AnyEvent) /\ Len(<< >>) = 0
      OBVIOUS
    <2>3. Len(<< >>) <= MaxQueue + 1
      BY <2>2, Constants
    <2>4. QED
      BY <1>2, <2>1, <2>2, <2>3 DEF EventsType
  <1>11. CountsType'
    <2>1. faults' \in 0 .. MaxFaults
      <3>1. CASE up
        <4>1. faults < MaxFaults /\ faults' = faults + 1 /\ faults \in 0 .. MaxFaults
          BY <1>1, <1>2, <3>1 DEF Fault, CountsType
        <4>2. QED
          BY <4>1, Constants
      <3>2. CASE ~up
        BY <1>1, <1>2, <3>2 DEF CountsType
      <3>3. QED
        BY <3>1, <3>2
    <2>2. renames \in 0 .. MaxRenames
      BY <1>1 DEF CountsType
    <2>3. 0 \in 0 .. renames
      BY <2>2, Constants
    <2>4. QED
      BY <1>1, <1>2, <2>1, <2>3 DEF CountsType
  <1>12. ReportsType' /\ OwnRows'
    BY <1>1, <1>2, SameReports
  <1>13. CountOK'
    BY <1>1, <1>2 DEF CountOK, Missing
  <1>14. DirsOK'
    <2>1. \A w \in DOMAIN nwatches : nwatches[w].dir <= made
      <3>1. \A p \in Paths : at[p] <= made
        BY <1>1 DEF DirsOK
      <3>2. made \in Nat
        BY <1>1, Constants DEF DirsType, Dirs
      <3>3. QED
        BY <1>7, <3>1, <3>2, PlacesFacts
    <2>2. QED
      BY <1>1, <1>2, <1>5, <1>7, <2>1 DEF DirsOK
  <1>15. HomeOK'
    <2>1. PICK places : places = [w \in 1 .. Len(nwatches) |-> Places[w]]
      OBVIOUS
    <2>2. places \in [1 .. Len(watches') -> Paths] /\ \A w \in DOMAIN nwatches : places[w] = Places[w]
      BY <1>5, <1>7, <2>1, PlacesFacts
    <2>3. ASSUME NEW w \in DOMAIN watches', watches'[w].dir # 0
          PROVE  home[watches'[w].dir] = places[w]
      <3>1. w \in DOMAIN nwatches /\ nwatches[w].dir = at[Places[w]] /\ nwatches[w].dir # 0
        BY <1>5, <1>7, <2>3
      <3>2. places[w] = Places[w] /\ Places[w] \in Paths
        BY <1>7, <2>2, <3>1, PlacesFacts
      <3>3. home[at[Places[w]]] = Places[w]
        BY <1>3, <3>1, <3>2 DEF HomeOf
      <3>4. QED
        BY <1>5, <3>1, <3>2, <3>3
    <2>4. \A r \in Rows : wds'[r] # -1 => places[wds'[r]] = Table[r].path
      BY <1>5, <1>7, <2>2
    <2>5. HomeOf(home, places)'
      BY <1>2, <1>3, <1>10, <2>2, <2>3, <2>4, Zenon DEF HomeOf
    <2>6. QED
      BY <2>5 DEF HomeOK, HomeOf
  <1>16. QED
    BY <1>2, <1>8, <1>9, <1>10, <1>11, <1>12, <1>13, <1>14, <1>15, LostOrder DEF Inv, Typing

\* There is a numbering of the directories that are there.
LEMMA NumberedFacts ==
  ASSUME NEW present \in SUBSET Paths
  PROVE  /\ Cardinality(present) \in Nat /\ Cardinality(present) <= Cardinality(Paths)
         /\ Cardinality({p \in Paths : p \notin present}) = Cardinality(Paths) - Cardinality(present)
         /\ Numbered(present) \in [Paths -> 0 .. Cardinality(present)]
         /\ \A p \in Paths : Numbered(present)[p] = 0 <=> p \notin present
         /\ \A p, q \in present : Numbered(present)[p] = Numbered(present)[q] => p = q
  <1>1. PICK n : n = Cardinality(present)
    OBVIOUS
  <1>2. IsFiniteSet(present) /\ n \in Nat /\ n <= Cardinality(Paths)
    BY <1>1, PathsAssumption, FS_Subset, FS_CardinalityType
  <1>3. Cardinality({p \in Paths : p \notin present}) = Cardinality(Paths) - n
    <2>1. {p \in Paths : p \notin present} = Paths \ present /\ Paths \cap present = present
      OBVIOUS
    <2>2. Cardinality(Paths \ present) = Cardinality(Paths) - Cardinality(Paths \cap present)
      BY PathsAssumption, FS_Difference
    <2>3. QED
      BY <1>1, <2>1, <2>2
  <1>4. ExistsBijection(1 .. n, present)
    BY <1>1, <1>2, FS_CardinalityType
  <1>5. PICK g \in Bijection(1 .. n, present) : TRUE
    BY <1>4 DEF ExistsBijection
  <1>6. /\ g \in [1 .. n -> present]
        /\ \A p \in present : \E i \in 1 .. n : g[i] = p
    BY <1>5 DEF Bijection, Surjection
  <1>7. PICK f : f = [p \in Paths |-> IF p \in present THEN CHOOSE i \in 1 .. n : g[i] = p ELSE 0]
    OBVIOUS
  <1>8. ASSUME NEW p \in present PROVE f[p] \in 1 .. n /\ g[f[p]] = p
    <2>1. f[p] = CHOOSE i \in 1 .. n : g[i] = p
      BY <1>7
    <2>2. QED
      BY <1>6, <2>1
  <1>9. \A p \in Paths : p \notin present => f[p] = 0
    BY <1>7
  <1>10. \A p \in Paths : f[p] = 0 <=> p \notin present
    BY <1>2, <1>8, <1>9
  <1>11. \A p, q \in present : f[p] = f[q] => p = q
    BY <1>8
  <1>12. f \in [Paths -> 0 .. n]
    <2>1. \A p \in Paths : f[p] \in 0 .. n
      BY <1>2, <1>8, <1>9
    <2>2. QED
      BY <1>7, <2>1
  <1>13. \E h \in [Paths -> 0 .. Cardinality(present)] :
           /\ \A p \in Paths : h[p] = 0 <=> p \notin present
           /\ \A p, q \in present : h[p] = h[q] => p = q
    BY <1>1, <1>10, <1>11, <1>12
  <1>14. QED
    BY <1>1, <1>2, <1>3, <1>13 DEF Numbered

LEMMA InitStep == Init => Inv
  <1> SUFFICES ASSUME Init PROVE Inv
    OBVIOUS
  <1>1. PICK present \in SUBSET Paths : at = Numbered(present) /\ made = Cardinality(present)
    BY DEF Init
  <1>2. /\ away = {} /\ files = << >> /\ Watched(at, watches, wds, cwds)
        /\ queue = << >> /\ buf = << >> /\ moved = 0 /\ up = TRUE
        /\ reports = << >> /\ noticed = {} /\ lossy = FALSE
        /\ renames = 0 /\ moves = 0 /\ faults = 0
    BY DEF Init
  <1>3. /\ made \in Nat /\ made <= Cardinality(Paths)
        /\ Cardinality({p \in Paths : p \notin present}) = Cardinality(Paths) - made
        /\ at \in [Paths -> 0 .. made]
        /\ \A p \in Paths : at[p] = 0 <=> p \notin present
        /\ \A p, q \in present : at[p] = at[q] => p = q
    BY <1>1, NumberedFacts
  <1>4. at \in [Paths -> Dirs] /\ \A p, q \in Paths : at[p] = at[q] /\ at[p] # 0 => p = q
    <2>1. 0 .. made \subseteq Dirs
      BY <1>3, Constants DEF Dirs
    <2>2. QED
      BY <1>3, <2>1
  <1>5. /\ watches \in Seq(Watch) /\ Len(watches) \in Nat /\ DOMAIN watches = 1 .. Len(watches)
        /\ DOMAIN watches = DOMAIN Places
        /\ wds \in [Rows -> {-1} \cup (1 .. Len(watches))]
        /\ cwds \in [DOMAIN Configs -> {-1} \cup (1 .. Len(watches))]
        /\ \A r, s \in Rows : Table[r].path = Table[s].path => wds[r] = wds[s]
        /\ \A w \in DOMAIN watches :
             watches[w].dir # 0 => watches[w].dir = at[Places[w]]
        /\ \A v, w \in DOMAIN watches : watches[v].dir = watches[w].dir /\ watches[v].dir # 0 => v = w
        /\ \A r \in Rows : wds[r] # -1 =>
             /\ wds[r] \in DOMAIN Places /\ Places[wds[r]] = Table[r].path
             /\ watches[wds[r]].dir = at[Table[r].path] /\ at[Table[r].path] # 0
    <2>1. PICK nat, nwatches, nwds, ncwds :
            nat = at /\ nwatches = watches /\ nwds = wds /\ ncwds = cwds
      OBVIOUS
    <2>2. /\ nat \in [Paths -> Dirs] /\ \A p, q \in Paths : nat[p] = nat[q] /\ nat[p] # 0 => p = q
          /\ Watched(nat, nwatches, nwds, ncwds)
      BY <1>2, <1>4, <2>1
    <2>3. /\ nwatches \in Seq(Watch) /\ Len(nwatches) \in Nat /\ DOMAIN nwatches = 1 .. Len(nwatches)
          /\ DOMAIN nwatches = DOMAIN Places
          /\ nwds \in [Rows -> {-1} \cup (1 .. Len(nwatches))]
          /\ ncwds \in [DOMAIN Configs -> {-1} \cup (1 .. Len(nwatches))]
          /\ \A r, s \in Rows : Table[r].path = Table[s].path => nwds[r] = nwds[s]
          /\ \A w \in DOMAIN nwatches :
               nwatches[w].dir # 0 => nwatches[w].dir = nat[Places[w]]
          /\ \A v, w \in DOMAIN nwatches : nwatches[v].dir = nwatches[w].dir /\ nwatches[v].dir # 0 => v = w
          /\ \A r \in Rows : nwds[r] # -1 =>
               /\ nwds[r] \in DOMAIN Places /\ Places[nwds[r]] = Table[r].path
               /\ nwatches[nwds[r]].dir = nat[Table[r].path] /\ nat[Table[r].path] # 0
      BY <2>2, WatchedFacts
    <2>4. QED
      BY <2>1, <2>3
  <1>6. DirsType
    <2>1. made \in Dirs
      BY <1>3, Constants DEF Dirs
    <2>2. QED
      BY <1>2, <1>4, <2>1 DEF DirsType
  <1>7. FilesType
    <2>1. Len(<< >>) = 0 /\ 0 <= MaxFiles
      BY Constants
    <2>2. QED
      BY <1>2, <2>1 DEF FilesType
  <1>8. WatchesType
    BY <1>5 DEF WatchesType, Wds, Watch
  <1>9. EventsType /\ Events = {}
    <2>1. Events = {}
      BY <1>2 DEF Events, Range
    <2>2. << >> \in Seq(AnyEvent) /\ Len(<< >>) = 0
      OBVIOUS
    <2>3. Len(<< >>) <= MaxQueue + 1
      BY <2>2, Constants
    <2>4. QED
      BY <1>2, <2>1, <2>2, <2>3 DEF EventsType
  <1>10. DOMAIN reports = {} /\ DOMAIN files = {} /\ ReportsType /\ OwnRows
    BY <1>2 DEF ReportsType, OwnRows
  <1>11. CountsType
    <2>1. 0 \in 0 .. 0 /\ 0 \in 0 .. MaxRenames /\ 0 \in 0 .. MaxMoves /\ 0 \in 0 .. MaxFaults
      BY Constants
    <2>2. moved \in 0 .. renames /\ up \in BOOLEAN /\ lossy \in BOOLEAN
      BY <1>2, <2>1
    <2>3. QED
      BY <1>2, <2>1, <2>2 DEF CountsType
  <1>12. DirsOK
    <2>1. \A p \in Paths : at[p] <= made
      BY <1>3
    <2>2. \A w \in DOMAIN watches : watches[w].dir <= made
      BY <1>3, <1>5, <2>1, PlacesFacts
    <2>3. QED
      BY <1>2, <1>5, <1>10, <2>1, <2>2 DEF DirsOK
  <1>13. CountOK
    <2>1. Missing = {p \in Paths : p \notin present}
      BY <1>3 DEF Missing
    <2>2. QED
      BY <1>2, <1>3, <2>1, Constants DEF CountOK
  <1>14. HomeOK
    <2>1. PICK home : home = [x \in 1 .. made |-> CHOOSE p \in Paths : (\E q \in Paths : at[q] = x) => at[p] = x]
      OBVIOUS
    <2>2. ASSUME NEW x \in 1 .. made
          PROVE  home[x] \in Paths /\ ((\E q \in Paths : at[q] = x) => at[home[x]] = x)
      <3>1. \E p \in Paths : TRUE
        <4>1. CASE present = {}
          BY <1>1, <4>1, <1>3, FS_EmptySet
        <4>2. CASE present # {}
          BY <4>2
        <4>3. QED
          BY <4>1, <4>2
      <3>2. \E p \in Paths : (\E q \in Paths : at[q] = x) => at[p] = x
        BY <3>1
      <3>3. home[x] = CHOOSE p \in Paths : (\E q \in Paths : at[q] = x) => at[p] = x
        BY <2>1
      <3>4. QED
        BY <3>2, <3>3
    <2>3. home \in [1 .. made -> Paths]
      BY <2>1, <2>2
    <2>4. ASSUME NEW p \in Paths, at[p] # 0 PROVE home[at[p]] = p
      <3>1. at[p] \in 1 .. made
        BY <1>3, <2>4
      <3>2. home[at[p]] \in Paths /\ at[home[at[p]]] = at[p]
        BY <2>2, <3>1
      <3>3. QED
        BY <1>4, <2>4, <3>2
    <2>5. PICK own : own = [w \in 1 .. Len(watches) |-> Places[w]]
      OBVIOUS
    <2>6. own \in [1 .. Len(watches) -> Paths] /\ \A w \in DOMAIN watches : own[w] = Places[w]
      BY <1>5, <2>5, PlacesFacts
    <2>7. ASSUME NEW w \in DOMAIN watches, watches[w].dir # 0
          PROVE  home[watches[w].dir] = own[w]
      <3>1. watches[w].dir = at[Places[w]] /\ at[Places[w]] # 0 /\ own[w] = Places[w] /\ Places[w] \in Paths
        BY <1>5, <2>6, <2>7, PlacesFacts
      <3>2. QED
        BY <2>4, <3>1
    <2>8. \A r \in Rows : wds[r] # -1 => own[wds[r]] = Table[r].path
      BY <1>5, <2>6
    <2>9. HomeOf(home, own)
      BY <1>2, <1>9, <1>10, <2>3, <2>4, <2>6, <2>7, <2>8, Zenon DEF HomeOf
    <2>10. QED
      BY <2>9 DEF HomeOK, HomeOf
  <1>15. Order
    <2>1. Stream = << >>
      BY <1>2 DEF Stream
    <2>2. DOMAIN << >> = {}
      OBVIOUS
    <2>3. Paired(<< >>) /\ ClosedOnce(<< >>) /\ NotYet(<< >>) /\ Single
      BY <1>10, <2>2 DEF Paired, ClosedOnce, NotYet, Single
    <2>4. Expected
      BY <2>1 DEF Expected
    <2>5. QED
      BY <2>1, <2>3, <2>4 DEF Order
  <1>16. DirsFollowed
    BY <1>5 DEF DirsFollowed
  <1>17. QED
    BY <1>6, <1>7, <1>8, <1>9, <1>10, <1>11, <1>12, <1>13, <1>14, <1>15, <1>16 DEF Inv, Typing
-----------------------------------------------------------------------------
(* The theorems.                                                           *)

LEMMA StutterStep == Inv /\ UNCHANGED vars => Inv'
  <1> SUFFICES ASSUME Inv, UNCHANGED vars PROVE Inv'
    OBVIOUS
  <1>1. /\ Typing /\ DirsOK /\ CountOK /\ HomeOK /\ OwnRows /\ Order /\ DirsFollowed
        /\ EventsType /\ ReportsType /\ CountsType
    BY DEF Inv, Typing
  <1>2. UNCHANGED <<at, away, made, files, watches, queue, buf, wds, cwds, moved, up, reports,
                    noticed, lossy, renames, moves, faults>>
    BY DEF vars, fs, daemon
  <1>3. UNCHANGED <<fs, files, watches, wds, cwds, up, noticed, renames, moves>>
    BY <1>2 DEF fs
  <1>4. Events' = Events
    BY <1>2 DEF Events
  <1>5. /\ buf' \in Seq(AnyEvent) /\ queue' \in Seq(AnyEvent) /\ Len(queue') <= MaxQueue + 1
        /\ lossy' \in BOOLEAN /\ (lossy' = FALSE => lossy = FALSE)
    BY <1>1, <1>2 DEF EventsType, CountsType
  <1>6. /\ DirsType' /\ FilesType' /\ WatchesType' /\ EventsType' /\ DirsOK' /\ CountOK' /\ HomeOK'
        /\ DirsFollowed'
    BY <1>1, <1>3, <1>4, <1>5, TakenStep
  <1>7. ReportsType' /\ OwnRows' /\ CountsType'
    BY <1>1, <1>2, SameReports DEF CountsType
  <1>8. Order'
    BY <1>1, <1>2 DEF Order, Paired, Expected, ClosedOnce, NotYet, Single, Stream, RowOf
  <1>9. QED
    BY <1>6, <1>7, <1>8 DEF Inv, Typing

LEMMA NextStep == Inv /\ [Next]_vars => Inv'
  <1> SUFFICES ASSUME Inv, [Next]_vars PROVE Inv'
    OBVIOUS
  <1>1. CASE Handle
    BY <1>1, ReadStep, StrayStep, FromStep, RenamedStep, FileStep, SelfStep, SelfUnknownStep,
       CreatedStep DEF Handle
  <1>2. CASE HandleSelfFails
    BY <1>2, SelfFailsStep
  <1>3. CASE Respawn
    BY <1>3, RespawnStep
  <1>4. ASSUME NEW p \in Paths, RemoveDir(p) PROVE Inv'
    BY <1>4, RemoveDirStep
  <1>5. ASSUME NEW p \in Paths, MoveDir(p) PROVE Inv'
    BY <1>5, MoveDirStep
  <1>6. ASSUME NEW p \in Paths, MakeDir(p) PROVE Inv'
    BY <1>6, MakeDirStep
  <1>7. ASSUME NEW p \in Paths, NEW tag \in Tags, CloseFile(p, tag) PROVE Inv'
    BY <1>7, CloseStep
  <1>8. ASSUME NEW p \in Paths, NEW tag \in Tags, CreateDir(p, tag) PROVE Inv'
    BY <1>8, CreateDirStep
  <1>9. ASSUME NEW f \in DOMAIN files, Rename(f) PROVE Inv'
    BY <1>9, RenameStep
  <1>10. ASSUME NEW m \in away, MoveBack(m) PROVE Inv'
    BY <1>10, MoveBackStep
  <1>11. CASE UNCHANGED vars
    BY <1>11, StutterStep
  <1>12. QED
    BY <1>1, <1>2, <1>3, <1>4, <1>5, <1>6, <1>7, <1>8, <1>9, <1>10, <1>11 DEF Next

\* The inductive invariant holds of the daemon and the kernel together, whatever the table of
\* rows, the configurations, the size of the queue and the number of files and directories.
THEOREM Invariance == Spec => []Inv
  BY InitStep, NextStep, PTL DEF Spec

\* What receive_inotify_events reads and keeps is well formed: every event is about a watch that
\* there was and a file that was created, the queue never holds more than its limit and one event
\* that says so, and all rows of wd_array with one path have one descriptor.
THEOREM TypeCorrect == Spec => []TypeOK
  <1>1. ASSUME Inv PROVE TypeOK
    <2>1. DirsType /\ FilesType /\ WatchesType /\ EventsType /\ ReportsType /\ CountsType
      BY <1>1 DEF Inv, Typing
    <2>2. ASSUME NEW ev \in Events PROVE ev \in EventSet
      <3>1. Told(ev) /\ ev \in AnyEvent
        BY <2>1, SeqFacts DEF EventsType, Events, Range
      <3>2. ev.wd \in {-1} \cup (1 .. Len(watches))
        BY <3>1, OverflowFacts DEF Told
      <3>3. /\ ev.file \in Nat /\ ev.ver \in Nat /\ ev.cookie \in Nat
            /\ ev.what \in Whats /\ ev.isdir \in BOOLEAN
        BY <3>1 DEF AnyEvent
      <3>4. ev.file <= MaxFiles /\ ev.ver <= MaxRenames /\ ev.cookie <= MaxRenames
        <4>1. /\ Len(files) \in Nat /\ Len(files) <= MaxFiles
              /\ renames \in Nat /\ renames <= MaxRenames
          BY <2>1, SeqFacts, Constants DEF FilesType, CountsType
        <4>2. ev.file <= Len(files) /\ ev.ver <= renames /\ ev.cookie <= renames
          BY <3>1 DEF Told
        <4>3. QED
          BY <3>3, <4>1, <4>2, Constants
      <3>5. ev.file \in Files /\ ev.ver \in 0 .. MaxRenames /\ ev.cookie \in 0 .. MaxRenames
        BY <3>3, <3>4, Constants DEF Files
      <3>6. ev = [what |-> ev.what, wd |-> ev.wd, file |-> ev.file, ver |-> ev.ver,
                  cookie |-> ev.cookie, isdir |-> ev.isdir]
        BY <3>1 DEF AnyEvent
      <3>7. QED
        BY <3>2, <3>3, <3>5, <3>6 DEF EventSet, Whats
    <2>3. Events \subseteq EventSet
      BY <2>2
    <2>4. QED
      BY <2>1, <2>3 DEF TypeOK, DirsType, FilesType, WatchesType, EventsType, ReportsType,
                        CountsType, Wds
  <1>2. QED
    BY <1>1, Invariance, PTL

\* A row is reported only for a file of its own directory and pattern, the first that takes it;
\* and as long as no event was lost a file is reported once, though its name changes before,
\* while and after its events wait in the queue and in the buffer.
THEOREM OneReport == Spec => []ReportedOnce
  <1>1. ASSUME Inv PROVE ReportedOnce
    <2>1. \A i \in DOMAIN reports : OwnRow(i)
      BY <1>1 DEF Inv, OwnRows
    <2>2. ASSUME ~lossy, NEW f \in DOMAIN files PROVE Cardinality(ReportsOf(f)) <= 1
      <3>1. Single
        BY <1>1, <2>2 DEF Inv, Order
      <3>2. \A k, l \in ReportsOf(f) : k = l
        BY <3>1 DEF Single, ReportsOf
      <3>3. CASE ReportsOf(f) = {}
        BY <3>3, FS_EmptySet
      <3>4. CASE ReportsOf(f) # {}
        <4>1. PICK k : ReportsOf(f) = {k}
          BY <3>2, <3>4
        <4>2. Cardinality({k}) = 1
          BY FS_Singleton, Zenon
        <4>3. QED
          BY <4>1, <4>2
      <3>5. QED
        BY <3>3, <3>4
    <2>3. QED
      BY <2>1, <2>2 DEF ReportedOnce
  <1>2. QED
    BY <1>1, Invariance, PTL

\* As long as no event was lost, a row's watch is that of the directory at its path, or the event
\* that this directory was removed or moved still comes: HandleSelf never leaves a row behind.
THEOREM NoRowLeft == Spec => []DirsFollowed
  <1>1. Inv => DirsFollowed
    BY DEF Inv
  <1>2. QED
    BY <1>1, Invariance, PTL
=============================================================================
