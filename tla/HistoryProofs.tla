--------------------------- MODULE HistoryProofs ---------------------------
(***************************************************************************)
(* Proofs about History, for every size of the buffer and every number of  *)
(* events: typing, the safety of the rewrite and the order of the file,    *)
(* the folders that the cleaning keeps, under all the failures of Spec;    *)
(* and that the file implements HistoryLog until something parts it from   *)
(* the buffer.                                                             *)
(*                                                                         *)
(* Every action hands a Hist record to one operator of History, so the     *)
(* inductive invariant is made of predicates on such a record: Good(h, n), *)
(* n being the number of events raised, Mirrors(h), that the buffer is the *)
(* end of the file, and Covers(h), that it has the folders of the crashes  *)
(* there.  The bulk of the proof is one lemma per operator and predicate.  *)
(***************************************************************************)
EXTENDS History, SequenceTheorems, TLAPS

Histories ==
  [there : BOOLEAN, file : Seq(Line), ring : [Slots -> Record \cup {Null}],
   next : {-1} \cup Slots]

\* After two lines a file holds events only, and from the start when the CURRENTUPTIME
\* line is missing; the events are among the first n and in order.
FileOK(f, n) ==
  /\ f \in Seq(Line)
  /\ \A i \in 1 .. Len(f) : f[1] # First => f[i] \in Record
  /\ \A i \in 1 .. Len(f) : i > 2 => f[i] \in Record
  /\ \A i \in 1 .. Len(f) : f[i].id <= n
  /\ \A i, j \in 1 .. Len(f) :
       i < j /\ f[i].id > 0 /\ f[j].id > 0 => f[i].id < f[j].id

\* Going round the buffer from nextline, the empty slots come first and the events
\* follow in order.
RingOK(ring, next, n) ==
  /\ ring \in [Slots -> Record \cup {Null}]
  /\ \A s \in Slots : ring[s] # Null => ring[s].id <= n
  /\ next \in Slots =>
       \A s, t \in Slots : Offset(s, next) < Offset(t, next) =>
         /\ ring[t] = Null => ring[s] = Null
         /\ ring[s] # Null /\ ring[t] # Null => ring[s].id < ring[t].id

Good(h, n) ==
  /\ h \in Histories
  /\ ~h.there => h.file = << >>
  /\ FileOK(h.file, n)
  /\ RingOK(h.ring, h.next, n)

Inv ==
  /\ Good(Hist, raised)
  /\ raised \in 0 .. MaxEvents
  /\ dirs \in SUBSET Dirs
  /\ abortclean \in BOOLEAN
  /\ dropped \in BOOLEAN /\ disturbed \in BOOLEAN
-----------------------------------------------------------------------------
(* Sequences.                                                              *)

LEMMA SeqFacts ==
  ASSUME NEW S, NEW s \in Seq(S)
  PROVE  Len(s) \in Nat /\ DOMAIN s = 1 .. Len(s) /\ \A i \in DOMAIN s : s[i] \in S
  BY LenProperties, ElementOfSeq

LEMMA AppendFacts ==
  ASSUME NEW S, NEW s \in Seq(S), NEW e \in S
  PROVE  /\ Append(s, e) \in Seq(S)
         /\ Len(Append(s, e)) = Len(s) + 1 /\ DOMAIN Append(s, e) = 1 .. Len(s) + 1
         /\ \A i \in DOMAIN s : Append(s, e)[i] = s[i]
         /\ Append(s, e)[Len(s) + 1] = e
  BY AppendProperties, LenProperties
-----------------------------------------------------------------------------
(* Lines.                                                                  *)

\* A line is an event, with a positive number, or one of three lines numbered 0.
LEMMA LineFacts ==
  /\ \A l \in Line : l.id \in Nat
  /\ \A r \in Record : r \in Line /\ r # Null /\ r.id \in 1 .. MaxEvents
  /\ First \in Line /\ First.id = 0
  /\ Title \in Line /\ Title.id = 0
  /\ Torn \in Line /\ Torn.id = 0
  <1>1. First.id = 0 /\ Title.id = 0 /\ Torn.id = 0
    BY DEF First, Title, Torn, Header
  <1>2. \A r \in Record : r.id \in 1 .. MaxEvents
    BY DEF Record
  <1>3. QED
    BY <1>1, <1>2, NullAssumption, SizesAssumption DEF Line

\* Going round the buffer by one slot.
LEMMA SuccFacts ==
  ASSUME NEW s \in Slots
  PROVE  Succ(s) = IF s = MaxRecords - 1 THEN 0 ELSE s + 1
  <1>1. s \in Nat /\ s < MaxRecords /\ MaxRecords \in Nat \ {0}
    BY SizesAssumption DEF Slots
  <1>2. CASE s = MaxRecords - 1
    BY <1>1, <1>2 DEF Succ
  <1>3. CASE s # MaxRecords - 1
    <2>1. s + 1 < MaxRecords /\ s + 1 >= 0
      BY <1>1, <1>3
    <2>2. (s + 1) % MaxRecords = s + 1
      BY <1>1, <2>1
    <2>3. QED
      BY <1>3, <2>2 DEF Succ
  <1>4. QED
    BY <1>2, <1>3

LEMMA OffsetFacts ==
  ASSUME NEW s \in Slots, NEW n \in Slots
  PROVE  /\ Succ(n) \in Slots
         /\ Offset(s, n) \in Slots
         /\ Offset(s, Succ(n)) = IF s = n THEN MaxRecords - 1 ELSE Offset(s, n) - 1
         /\ (Offset(s, n) = 0) <=> (s = n)
  BY SuccFacts, SizesAssumption DEF Offset, Slots
-----------------------------------------------------------------------------
(* Reading the file back.                                                  *)

\* cache_history_file builds a good buffer, in use from now on, from any good file.
LEMMA CacheHistoryFileGood ==
  ASSUME NEW n \in Nat, NEW h, Good(h, n)
  PROVE  Good(CacheHistoryFile(h), n) /\ CacheHistoryFile(h).next \in Slots
  <1> DEFINE f == IF h.there THEN h.file ELSE Blank
             skip == IF Len(f) <= MaxRecords + 2 THEN 2 ELSE Len(f) - MaxRecords
             c == CacheFile(f)
             k == CacheNext(f)
  <1>1. Len(Blank) = 2 /\ Blank \in Seq(Line) /\ Blank[1] = First /\ Blank[2] = Title
    BY LineFacts DEF Blank
  <1>2. FileOK(f, n)
    <2>1. CASE h.there
      BY <2>1 DEF Good
    <2>2. CASE ~h.there
      <3>1. \A i \in 1 .. Len(f) : (i = 1 \/ i = 2) /\ f[i].id = 0
        <4>1. f = Blank
          BY <2>2
        <4>2. \A i \in 1 .. 2 : (i = 1 \/ i = 2) /\ Blank[i].id = 0
          BY <1>1, LineFacts
        <4>3. QED
          BY <1>1, <4>1, <4>2
      <3>2. f \in Seq(Line)
        BY <1>1, <2>2
      <3>3. f[1] = First
        BY <1>1, <2>2
      <3>4. QED
        BY <3>1, <3>2, <3>3 DEF FileOK
    <2>3. QED
      BY <2>1, <2>2
  <1>3. Len(f) \in Nat /\ skip \in Nat /\ skip >= 2 /\ skip <= Len(f) + 2
    BY <1>2, LenProperties, SizesAssumption DEF FileOK
  <1>4. /\ k \in Slots
        /\ Len(f) < 2 \/ Len(f) >= MaxRecords + 2 => k = 0
        /\ Len(f) >= 2 /\ Len(f) < MaxRecords + 2 => k = Len(f) - 2
    BY <1>3, SizesAssumption DEF CacheNext, Slots
  <1>5. \A s \in Slots : c[s] = IF skip + s + 1 <= Len(f) THEN f[skip + s + 1] ELSE Null
    BY DEF CacheFile
  <1>6. \A s \in Slots : skip + s + 1 <= Len(f) =>
          skip + s + 1 \in 1 .. Len(f) /\ f[skip + s + 1] \in Record
    BY <1>2, <1>3 DEF FileOK, Slots
  <1>7. c \in [Slots -> Record \cup {Null}]
    BY <1>5, <1>6 DEF CacheFile
  <1>8. \A s \in Slots : (c[s] # Null) <=> (skip + s + 1 <= Len(f))
    BY <1>5, <1>6, LineFacts
  <1>a. \A s \in Slots : (c[s] # Null) <=> (Len(f) >= MaxRecords + 2 \/ s + 2 < Len(f))
    <2>1. CASE Len(f) <= MaxRecords + 2
      BY <1>3, <1>8, <2>1, SizesAssumption DEF Slots
    <2>2. CASE Len(f) > MaxRecords + 2
      BY <1>3, <1>8, <2>2, SizesAssumption DEF Slots
    <2>3. QED
      BY <1>3, <2>1, <2>2, SizesAssumption
  <1> HIDE DEF c, k, skip
  <1>9. \A s \in Slots : c[s] # Null => c[s].id <= n
    BY <1>2, <1>5, <1>6, <1>8 DEF FileOK
  <1>10. ASSUME NEW s \in Slots, NEW t \in Slots, Offset(s, k) < Offset(t, k)
         PROVE  /\ c[t] = Null => c[s] = Null
                /\ c[s] # Null /\ c[t] # Null => c[s].id < c[t].id
    <2>1. s \in Nat /\ t \in Nat /\ s < MaxRecords /\ t < MaxRecords
      BY SizesAssumption DEF Slots
    <2>2. c[t] = Null => c[s] = Null
      BY <1>3, <1>4, <1>a, <1>10, <2>1, SizesAssumption DEF Offset, Slots
    <2>3. ASSUME c[s] # Null, c[t] # Null PROVE c[s].id < c[t].id
      <3>1. s < t
        BY <1>3, <1>4, <1>a, <1>10, <2>1, <2>3, SizesAssumption DEF Offset, Slots
      <3>2. /\ skip + s + 1 \in 1 .. Len(f) /\ skip + t + 1 \in 1 .. Len(f)
            /\ f[skip + s + 1].id > 0 /\ f[skip + t + 1].id > 0
        BY <1>6, <1>8, <2>3, LineFacts
      <3>3. skip + s + 1 < skip + t + 1
        BY <1>3, <2>1, <3>1
      <3>4. f[skip + s + 1].id < f[skip + t + 1].id
        BY <1>2, <3>2, <3>3 DEF FileOK
      <3>5. QED
        BY <1>5, <1>8, <2>3, <3>4
    <2>4. QED
      BY <2>2, <2>3
  <1>11. RingOK(c, k, n)
    BY <1>7, <1>9, <1>10 DEF RingOK
  <1>12. CacheHistoryFile(h) = [there |-> TRUE, file |-> f, ring |-> c, next |-> k]
    BY DEF CacheHistoryFile, c, k
  <1>13. QED
    BY <1>2, <1>4, <1>7, <1>11, <1>12 DEF Good, Histories, FileOK

LEMMA LoadedGood ==
  ASSUME NEW n \in Nat, NEW h, Good(h, n)
  PROVE  Good(Loaded(h), n) /\ Loaded(h).next \in Slots /\ Loaded(h).there
  <1>1. CASE ~h.there \/ h.next < 0
    BY <1>1, CacheHistoryFileGood DEF Loaded, CacheHistoryFile
  <1>2. CASE ~(~h.there \/ h.next < 0)
    <2>1. h.next \in {-1} \cup Slots
      BY DEF Good, Histories
    <2>2. QED
      BY <1>2, <2>1 DEF Loaded
  <1>3. QED
    BY <1>1, <1>2
-----------------------------------------------------------------------------
(* Recording an event.                                                     *)

\* Event n + 1 at nextline: the buffer stays in order.
LEMMA PutGood ==
  ASSUME NEW n \in Nat, NEW h, Good(h, n), h.there, h.next \in Slots,
         NEW r \in Record, r.id = n + 1
  PROVE  /\ Good(Put(h, r), n + 1)
         /\ Put(h, r).next \in Slots
         /\ Put(h, r).file = h.file
  <1> DEFINE p == Put(h, r)
             k == h.next
  <1>1. /\ p.there = h.there /\ p.file = h.file /\ p.next = Succ(k)
        /\ p.ring = [h.ring EXCEPT ![k] = r]
    <2>1. h \in Histories
      BY DEF Good
    <2>2. QED
      BY <2>1 DEF Put, Histories
  <1>2. Succ(k) \in Slots
    BY OffsetFacts
  <1>3. FileOK(h.file, n) /\ RingOK(h.ring, k, n) /\ h.file \in Seq(Line)
    BY DEF Good, Histories
  <1>4. FileOK(h.file, n + 1)
    <2>1. \A i \in 1 .. Len(h.file) : h.file[i].id \in Nat
      BY <1>3, LineFacts, ElementOfSeq
    <2>2. QED
      BY <1>3, <2>1 DEF FileOK
  <1>5. p.ring \in [Slots -> Record \cup {Null}]
    BY <1>1, <1>3 DEF RingOK
  <1>6. \A s \in Slots : p.ring[s] = IF s = k THEN r ELSE h.ring[s]
    BY <1>1, <1>3 DEF RingOK
  <1>7. r # Null
    BY LineFacts
  <1>8. \A s \in Slots : h.ring[s] # Null => h.ring[s].id \in Nat /\ h.ring[s].id <= n
    BY <1>3, LineFacts, SizesAssumption DEF RingOK
  <1>9. ASSUME NEW s \in Slots, NEW t \in Slots, Offset(s, Succ(k)) < Offset(t, Succ(k))
        PROVE  /\ p.ring[t] = Null => p.ring[s] = Null
               /\ p.ring[s] # Null /\ p.ring[t] # Null => p.ring[s].id < p.ring[t].id
    <2>1. /\ Offset(s, Succ(k)) = IF s = k THEN MaxRecords - 1 ELSE Offset(s, k) - 1
          /\ Offset(t, Succ(k)) = IF t = k THEN MaxRecords - 1 ELSE Offset(t, k) - 1
          /\ Offset(s, k) \in Slots /\ Offset(t, k) \in Slots
      BY OffsetFacts
    <2>2. s # k
      BY <1>9, <2>1, SizesAssumption DEF Slots
    <2>3. CASE t = k
      BY <1>6, <1>7, <1>8, <2>2, <2>3
    <2>4. CASE t # k
      <3>1. Offset(s, k) < Offset(t, k)
        BY <1>9, <2>1, <2>2, <2>4, SizesAssumption DEF Slots
      <3>2. QED
        BY <1>3, <1>6, <2>2, <2>4, <3>1 DEF RingOK
    <2>5. QED
      BY <2>3, <2>4
  <1>10. \A s \in Slots : p.ring[s] # Null => p.ring[s].id <= n + 1
    BY <1>6, <1>8
  <1>11. RingOK(p.ring, Succ(k), n + 1)
    BY <1>5, <1>9, <1>10 DEF RingOK
  <1>12. p \in Histories
    <2>1. h \in Histories
      BY DEF Good
    <2>2. QED
      BY <1>1, <1>2, <1>5, <2>1 DEF Put, Histories
  <1>13. QED
    BY <1>1, <1>2, <1>4, <1>11, <1>12 DEF Good

\* A function on 1 .. n is a sequence of length n.
LEMMA FunctionIsSeq ==
  ASSUME NEW n \in Nat, NEW S, NEW F \in [1 .. n -> S]
  PROVE  F \in Seq(S) /\ Len(F) = n
  OBVIOUS

\* The file starts with its two header lines.
Headed(f) == Len(f) >= 2 /\ f[1] = First /\ f[2] = Title

\* An event in every slot: the state a full rewrite needs.
Full(h) == \A s \in Slots : h.ring[s] # Null

\* A full rewrite writes the two header lines, then every slot from the oldest one on.
LEMMA RewrittenGood ==
  ASSUME NEW n \in Nat, NEW h, Good(h, n), h.next \in Slots, Full(h)
  PROVE  /\ FileOK(Rewritten(h), n) /\ Len(Rewritten(h)) = MaxRecords + 2
         /\ Headed(Rewritten(h))
         /\ \A i \in 3 .. MaxRecords + 2 :
              \E s \in Slots : Offset(s, h.next) = i - 3 /\ Rewritten(h)[i] = h.ring[s]
  <1> DEFINE k == h.next
             A == [s \in 1 .. MaxRecords - k |-> h.ring[k + s - 1]]
             B == [s \in 1 .. k |-> h.ring[s - 1]]
             slot(i) == IF k + i - 3 < MaxRecords THEN k + i - 3 ELSE k + i - 3 - MaxRecords
             w == Rewritten(h)
  <1>1. MaxRecords \in Nat \ {0} /\ k \in Nat /\ k < MaxRecords
    BY SizesAssumption DEF Slots
  <1>2. /\ RingOK(h.ring, k, n)
        /\ \A s \in Slots : h.ring[s] \in Record /\ h.ring[s] \in Line /\ h.ring[s] # Null
    BY LineFacts DEF Good, RingOK, Full
  <1>3. A \in Seq(Line) /\ Len(A) = MaxRecords - k
    <2>1. \A s \in 1 .. MaxRecords - k : k + s - 1 \in Slots
      BY <1>1 DEF Slots
    <2>2. A \in [1 .. MaxRecords - k -> Line]
      BY <1>2, <2>1
    <2>3. MaxRecords - k \in Nat
      BY <1>1
    <2> HIDE DEF A
    <2>4. QED
      BY <2>2, <2>3, FunctionIsSeq
  <1>4. B \in Seq(Line) /\ Len(B) = k
    <2>1. \A s \in 1 .. k : s - 1 \in Slots
      BY <1>1 DEF Slots
    <2>2. B \in [1 .. k -> Line]
      BY <1>2, <2>1
    <2> HIDE DEF B
    <2>3. QED
      BY <1>1, <2>2, FunctionIsSeq
  <1>5. Blank \in Seq(Line) /\ Len(Blank) = 2 /\ Blank[1] = First /\ Blank[2] = Title
    BY LineFacts DEF Blank
  <1>6. w = (Blank \o A) \o B
    BY DEF Rewritten
  <1> HIDE DEF A, B
  <1>7. /\ Blank \o A \in Seq(Line)
        /\ Len(Blank \o A) = MaxRecords - k + 2
        /\ \A i \in 1 .. MaxRecords - k + 2 :
             (Blank \o A)[i] = IF i <= 2 THEN Blank[i] ELSE A[i - 2]
    <2>1. /\ Blank \o A \in Seq(Line)
          /\ Len(Blank \o A) = Len(Blank) + Len(A)
          /\ \A i \in 1 .. Len(Blank) + Len(A) :
               (Blank \o A)[i] = IF i <= Len(Blank) THEN Blank[i] ELSE A[i - Len(Blank)]
      BY <1>3, <1>5, ConcatProperties
    <2>2. Len(Blank) + Len(A) = MaxRecords - k + 2
      BY <1>1, <1>3, <1>5
    <2>3. QED
      BY <1>5, <2>1, <2>2
  <1>8. /\ w \in Seq(Line)
        /\ Len(w) = MaxRecords + 2
        /\ \A i \in 1 .. MaxRecords + 2 :
             w[i] = IF i <= MaxRecords - k + 2 THEN (Blank \o A)[i]
                    ELSE B[i - (MaxRecords - k + 2)]
    <2> DEFINE BA == Blank \o A
    <2>1. BA \in Seq(Line) /\ Len(BA) = MaxRecords - k + 2 /\ w = BA \o B
      BY <1>6, <1>7
    <2> HIDE DEF BA, w
    <2>2. /\ BA \o B \in Seq(Line)
          /\ Len(BA \o B) = Len(BA) + Len(B)
          /\ \A i \in 1 .. Len(BA) + Len(B) :
               (BA \o B)[i] = IF i <= Len(BA) THEN BA[i] ELSE B[i - Len(BA)]
      BY <1>4, <2>1, ConcatProperties
    <2>3. Len(BA) + Len(B) = MaxRecords + 2
      BY <1>1, <1>4, <2>1
    <2>4. /\ w \in Seq(Line) /\ Len(w) = MaxRecords + 2
          /\ \A i \in 1 .. MaxRecords + 2 :
               w[i] = IF i <= MaxRecords - k + 2 THEN BA[i]
                      ELSE B[i - (MaxRecords - k + 2)]
      BY <2>1, <2>2, <2>3
    <2>5. QED
      BY <2>4 DEF BA
  <1> HIDE DEF w
  <1>9. w[1] = First /\ w[2] = Title
    <2>1. \A i \in 1 .. 2 : i \in 1 .. MaxRecords + 2 /\ i \in 1 .. MaxRecords - k + 2
      BY <1>1
    <2>2. \A i \in 1 .. 2 : i <= MaxRecords - k + 2 /\ i <= 2
      BY <1>1
    <2>3. \A i \in 1 .. 2 : w[i] = Blank[i]
      BY <1>7, <1>8, <2>1, <2>2
    <2>4. QED
      BY <1>5, <2>3
  <1>10. ASSUME NEW i \in 3 .. MaxRecords + 2
         PROVE  slot(i) \in Slots /\ Offset(slot(i), k) = i - 3 /\ w[i] = h.ring[slot(i)]
    <2>1. slot(i) \in Slots /\ Offset(slot(i), k) = i - 3
      BY <1>1, <1>10 DEF Slots, Offset
    <2>2. CASE i <= MaxRecords - k + 2
      <3>1. w[i] = A[i - 2]
        <4>1. i \in 1 .. MaxRecords + 2 /\ i \in 1 .. MaxRecords - k + 2 /\ ~(i <= 2)
          BY <1>1, <2>2
        <4>2. QED
          BY <1>7, <1>8, <2>2, <4>1
      <3>2. i - 2 \in 1 .. MaxRecords - k
        BY <1>1, <2>2
      <3>3. A[i - 2] = h.ring[k + (i - 2) - 1]
        BY <3>2 DEF A
      <3>4. k + (i - 2) - 1 = slot(i)
        BY <1>1, <2>2
      <3>5. QED
        BY <2>1, <3>1, <3>3, <3>4
    <2>3. CASE i > MaxRecords - k + 2
      <3> DEFINE j == i - (MaxRecords - k + 2)
      <3>1. w[i] = B[j]
        BY <1>1, <1>8, <2>3
      <3>2. j \in 1 .. k
        BY <1>1, <2>3
      <3>3. B[j] = h.ring[j - 1]
        BY <3>2 DEF B
      <3>4. j - 1 = slot(i)
        BY <1>1, <2>3
      <3>5. QED
        BY <2>1, <3>1, <3>3, <3>4
    <2>4. QED
      BY <1>1, <2>2, <2>3
  <1> HIDE DEF slot
  <1>11. \A i \in 1 .. Len(w) : i > 2 => i \in 3 .. MaxRecords + 2
    BY <1>1, <1>8
  <1>12. \A i \in 1 .. Len(w) : i > 2 => w[i] \in Record /\ w[i].id <= n
    BY <1>2, <1>10, <1>11 DEF RingOK
  <1>13. \A i \in 1 .. Len(w) : i <= 2 => w[i].id = 0
    BY <1>1, <1>8, <1>9, LineFacts
  <1>14. \A i \in 1 .. Len(w) : w[i].id <= n
    BY <1>8, <1>12, <1>13
  <1>15. ASSUME NEW i \in 1 .. Len(w), NEW j \in 1 .. Len(w),
                i < j, w[i].id > 0, w[j].id > 0
         PROVE  w[i].id < w[j].id
    <2>1. i \in 3 .. MaxRecords + 2 /\ j \in 3 .. MaxRecords + 2
      BY <1>8, <1>11, <1>13, <1>15
    <2>2. Offset(slot(i), k) < Offset(slot(j), k)
      BY <1>10, <1>15, <2>1
    <2>3. QED
      BY <1>2, <1>10, <2>1, <2>2 DEF RingOK
  <1>16. \A i \in 3 .. MaxRecords + 2 :
           \E s \in Slots : Offset(s, k) = i - 3 /\ w[i] = h.ring[s]
    BY <1>10
  <1>17. Headed(w)
    BY <1>1, <1>8, <1>9 DEF Headed
  <1>18. QED
    BY <1>8, <1>9, <1>12, <1>14, <1>15, <1>16, <1>17 DEF FileOK, w

\* Appending the next event keeps a file in order.
LEMMA AppendOK ==
  ASSUME NEW n \in Nat, NEW f, FileOK(f, n), NEW r \in Record, r.id = n + 1
  PROVE  FileOK(Append(f, r), n + 1)
  <1>1. f \in Seq(Line) /\ r \in Line
    BY LineFacts DEF FileOK
  <1>2. Len(f) \in Nat /\ \A i \in 1 .. Len(f) : f[i].id \in Nat
    BY <1>1, LenProperties, ElementOfSeq, LineFacts
  <1>3. /\ Append(f, r) \in Seq(Line)
        /\ Len(Append(f, r)) = Len(f) + 1
        /\ \A i \in 1 .. Len(f) : Append(f, r)[i] = f[i]
        /\ Append(f, r)[Len(f) + 1] = r
    BY <1>1, AppendProperties
  <1> DEFINE g == Append(f, r)
  <1> HIDE DEF g
  <1>4. \A i \in 1 .. Len(g) : i \in 1 .. Len(f) \/ i = Len(f) + 1
    BY <1>2, <1>3 DEF g
  <1>5. \A i \in 1 .. Len(g) : i \in 1 .. Len(f) => g[i] = f[i]
    BY <1>3 DEF g
  <1>6. \A i \in 1 .. Len(g) : (i > 2 => g[i] \in Record) /\ g[i].id <= n + 1
    BY <1>2, <1>3, <1>4, <1>5 DEF FileOK, g
  <1>7. ASSUME NEW i \in 1 .. Len(g), NEW j \in 1 .. Len(g),
               i < j, g[i].id > 0, g[j].id > 0
        PROVE  g[i].id < g[j].id
    <2>1. i \in 1 .. Len(f)
      BY <1>2, <1>4, <1>7
    <2>2. CASE j = Len(f) + 1
      BY <1>2, <1>3, <2>1, <2>2 DEF FileOK, g
    <2>3. CASE j \in 1 .. Len(f)
      BY <1>5, <1>7, <2>1, <2>3 DEF FileOK
    <2>4. QED
      BY <1>4, <2>2, <2>3
  <1>8. \A i \in 1 .. Len(g) : g[1] # First => g[i] \in Record
    <2>1. CASE Len(f) = 0
      BY <1>3, <1>4, <2>1 DEF g
    <2>2. CASE Len(f) # 0
      <3>1. 1 \in 1 .. Len(f) /\ g[1] = f[1]
        BY <1>2, <1>3, <2>2 DEF g
      <3>2. QED
        BY <1>3, <1>4, <1>5, <3>1 DEF FileOK, g
    <2>3. QED
      BY <2>1, <2>2
  <1>9. QED
    BY <1>3, <1>6, <1>7, <1>8 DEF FileOK, g

\* So does keeping a beginning of it.
LEMMA PrefixOK ==
  ASSUME NEW n \in Nat, NEW f, FileOK(f, n), NEW m \in 0 .. Len(f)
  PROVE  FileOK(SubSeq(f, 1, m), n)
  <1>1. f \in Seq(Line) /\ Len(f) \in Nat /\ \A i \in 1 .. Len(f) : f[i] \in Line
    BY LenProperties, ElementOfSeq DEF FileOK
  <1>2. \A i \in 1 .. m : i \in 1 .. Len(f)
    BY <1>1
  <1>3. /\ SubSeq(f, 1, m) \in Seq(Line)
        /\ Len(SubSeq(f, 1, m)) = m
        /\ \A i \in 1 .. m : SubSeq(f, 1, m)[i] = f[i]
    <2>1. \A i \in 1 .. m : f[i] \in Line
      BY <1>1, <1>2
    <2>2. m \in Int /\ m - 1 + 1 = m /\ (IF 1 <= m THEN m - 1 + 1 ELSE 0) = m
      BY <1>1
    <2>3. \A i \in 1 .. m : 1 + i - 1 = i
      OBVIOUS
    <2>4. QED
      BY <2>1, <2>2, <2>3, SubSeqProperties
  <1>4. \A i \in 1 .. m : 1 \in 1 .. m
    OBVIOUS
  <1>5. QED
    BY <1>2, <1>3, <1>4 DEF FileOK

LEMMA GoodMonotonic ==
  ASSUME NEW n \in Nat, NEW h, Good(h, n)
  PROVE  Good(h, n + 1)
  <1>1. h.file \in Seq(Line) /\ \A i \in 1 .. Len(h.file) : h.file[i].id \in Nat
    BY ElementOfSeq, LineFacts DEF Good, FileOK
  <1>2. \A s \in Slots : h.ring[s] # Null => h.ring[s].id \in Nat
    BY LineFacts, SizesAssumption DEF Good, RingOK
  <1>3. FileOK(h.file, n + 1)
    BY <1>1 DEF Good, FileOK
  <1>4. RingOK(h.ring, h.next, n + 1)
    BY <1>2 DEF Good, RingOK
  <1>5. QED
    BY <1>3, <1>4 DEF Good

\* A good record stays so with another good file.
LEMMA WithFile ==
  ASSUME NEW n \in Nat, NEW h, Good(h, n), h.there, NEW f, FileOK(f, n)
  PROVE  /\ Good([h EXCEPT !.file = f], n)
         /\ [h EXCEPT !.file = f].next = h.next
         /\ [h EXCEPT !.file = f].there
         /\ [h EXCEPT !.file = f].ring = h.ring
  <1>1. h \in Histories /\ f \in Seq(Line)
    BY DEF Good, FileOK
  <1> DEFINE g == [h EXCEPT !.file = f]
  <1>2. /\ g \in Histories /\ g.there = h.there /\ g.file = f
        /\ g.ring = h.ring /\ g.next = h.next
    BY <1>1 DEF Histories
  <1> HIDE DEF g
  <1>3. Good(g, n) /\ g.next = h.next /\ g.there /\ g.ring = h.ring
    BY <1>2 DEF Good
  <1>4. QED
    BY <1>3 DEF g

\* Or another good buffer.
LEMMA WithRing ==
  ASSUME NEW n \in Nat, NEW h, Good(h, n), NEW ring, RingOK(ring, h.next, n)
  PROVE  Good([h EXCEPT !.ring = ring], n)
  <1>1. h \in Histories /\ ring \in [Slots -> Record \cup {Null}]
    BY DEF Good, RingOK
  <1> DEFINE g == [h EXCEPT !.ring = ring]
  <1>2. /\ g \in Histories /\ g.there = h.there /\ g.file = h.file
        /\ g.ring = ring /\ g.next = h.next
    BY <1>1 DEF Histories
  <1> HIDE DEF g
  <1>3. Good(g, n)
    BY <1>2 DEF Good
  <1>4. QED
    BY <1>3 DEF g

\* The rewrite is taken only with an event in every slot.
LEMMA InUseIsFull ==
  ASSUME NEW n \in Nat, NEW h, Good(h, n), h.next \in Slots, h.ring[h.next] # Null
  PROVE  Full(h)
  <1>1. SUFFICES ASSUME NEW t \in Slots PROVE h.ring[t] # Null
    BY DEF Full
  <1>2. CASE t = h.next
    BY <1>2
  <1>3. CASE t # h.next
    <2>1. Offset(h.next, h.next) < Offset(t, h.next)
      <3>1. Offset(h.next, h.next) = 0 /\ Offset(t, h.next) \in Slots /\ Offset(t, h.next) # 0
        BY <1>3, OffsetFacts
      <3>2. QED
        BY <3>1, SizesAssumption DEF Slots
    <2>2. QED
      BY <2>1 DEF Good, RingOK
  <1>4. QED
    BY <1>2, <1>3

\* update_history_file, when it succeeds and when it fails.
LEMMA UpdateFileGood ==
  ASSUME NEW n \in Nat, NEW h, Good(h, n), NEW r \in Record, r.id = n + 1
  PROVE  Good(UpdateFile(h, r), n + 1)
  <1> DEFINE l == Loaded(h)
             p == Put(l, r)
  <1>1. Good(l, n) /\ l.next \in Slots /\ l.there
    BY LoadedGood
  <1>a. n + 1 \in Nat
    OBVIOUS
  <1> HIDE DEF l
  <1>2. Good(p, n + 1) /\ p.next \in Slots /\ p.file = l.file
    BY <1>1, PutGood
  <1>3. p.there /\ p.ring = [l.ring EXCEPT ![l.next] = r]
    BY <1>1 DEF Put, Good, Histories
  <1>4. FileOK(l.file, n)
    BY <1>1 DEF Good
  <1>5. CASE l.ring[l.next] = Null
    <2>1. FileOK(Append(p.file, r), n + 1)
      BY <1>2, <1>4, AppendOK
    <2> HIDE DEF p
    <2>2. Good([p EXCEPT !.file = Append(p.file, r)], n + 1)
      BY <1>a, <1>1, <1>2, <1>3, <2>1, WithFile
    <2>3. QED
      BY <1>5, <2>2 DEF UpdateFile, l, p
  <1>6. CASE l.ring[l.next] # Null
    <2>1. Full(p)
      BY <1>1, <1>3, <1>6, InUseIsFull, LineFacts DEF Full, Good, RingOK
    <2>2. FileOK(Rewritten(p), n + 1)
      BY <1>a, <1>2, <2>1, RewrittenGood
    <2> HIDE DEF p
    <2>3. Good([p EXCEPT !.file = Rewritten(p)], n + 1)
      BY <1>a, <1>1, <1>2, <1>3, <2>2, WithFile
    <2>4. QED
      BY <1>6, <2>3 DEF UpdateFile, l, p
  <1>7. QED
    BY <1>5, <1>6

LEMMA FailedUpdatesGood ==
  ASSUME NEW n \in Nat, NEW h, Good(h, n), NEW r \in Record, r.id = n + 1,
         NEW g \in FailedUpdates(h, r)
  PROVE  Good(g, n + 1)
  <1> DEFINE l == Loaded(h)
             p == Put(l, r)
             empty == IF h.next > 0 THEN NoCache ELSE h.ring
             freed == [l.ring EXCEPT ![l.next] = Null]
  <1>1. Good(l, n) /\ l.next \in Slots /\ l.there
    BY LoadedGood
  <1>a. n + 1 \in Nat
    OBVIOUS
  <1>2. Good(h, n + 1) /\ Good(l, n + 1)
    BY <1>1, GoodMonotonic
  <1>3. \/ g = [h EXCEPT !.ring = empty]
        \/ g = [l EXCEPT !.ring = freed]
        \/ g = p
        \/ /\ l.ring[l.next] # Null
           /\ \E m \in 0 .. MaxRecords + 1 : g = [p EXCEPT !.file = SubSeq(Rewritten(p), 1, m)]
    BY DEF FailedUpdates
  <1> HIDE DEF l
  <1>4. Good(p, n + 1) /\ p.next \in Slots /\ p.there
        /\ p.ring = [l.ring EXCEPT ![l.next] = r]
    <2>1. Good(p, n + 1) /\ p.next \in Slots
      BY <1>1, PutGood
    <2>2. QED
      BY <1>1, <2>1 DEF Put, Good, Histories
  <1>5. CASE g = [h EXCEPT !.ring = empty]
    <2>1. RingOK(empty, h.next, n + 1)
      BY <1>2 DEF Good, RingOK, NoCache
    <2> HIDE DEF empty
    <2>2. QED
      BY <1>a, <1>2, <1>5, <2>1, WithRing
  <1>6. CASE g = [l EXCEPT !.ring = freed]
    <2>1. /\ freed \in [Slots -> Record \cup {Null}]
          /\ \A s \in Slots : freed[s] = IF s = l.next THEN Null ELSE l.ring[s]
      BY <1>2 DEF Good, RingOK
    <2> HIDE DEF freed
    <2>2. ASSUME NEW s \in Slots, NEW t \in Slots, Offset(s, l.next) < Offset(t, l.next)
          PROVE  /\ freed[t] = Null => freed[s] = Null
                 /\ freed[s] # Null /\ freed[t] # Null => freed[s].id < freed[t].id
      <3>1. t # l.next
        <4>1. Offset(l.next, l.next) = 0 /\ Offset(s, l.next) \in Slots
          BY <1>1, OffsetFacts
        <4>2. QED
          BY <2>2, <4>1, SizesAssumption DEF Slots
      <3>2. /\ l.ring[t] = Null => l.ring[s] = Null
            /\ l.ring[s] # Null /\ l.ring[t] # Null => l.ring[s].id < l.ring[t].id
        BY <1>1, <1>2, <2>2 DEF Good, RingOK
      <3>3. freed[t] = l.ring[t]
        BY <2>1, <3>1
      <3>4. CASE s = l.next
        BY <2>1, <3>4
      <3>5. CASE s # l.next
        <4>1. freed[s] = l.ring[s]
          BY <2>1, <3>5
        <4>2. QED
          BY <3>2, <3>3, <4>1
      <3>6. QED
        BY <3>4, <3>5
    <2>3. RingOK(freed, l.next, n + 1)
      BY <1>2, <2>1, <2>2 DEF Good, RingOK
    <2>4. QED
      BY <1>a, <1>2, <1>6, <2>3, WithRing
  <1>7. ASSUME l.ring[l.next] # Null, NEW m \in 0 .. MaxRecords + 1,
               g = [p EXCEPT !.file = SubSeq(Rewritten(p), 1, m)]
        PROVE  Good(g, n + 1)
    <2>1. Full(p)
      BY <1>1, <1>4, <1>7, InUseIsFull, LineFacts DEF Full, Good, RingOK
    <2>2. FileOK(Rewritten(p), n + 1) /\ Len(Rewritten(p)) = MaxRecords + 2
      BY <1>a, <1>4, <2>1, RewrittenGood
    <2>3. m \in 0 .. Len(Rewritten(p))
      BY <2>2, SizesAssumption
    <2> HIDE DEF p
    <2>4. FileOK(SubSeq(Rewritten(p), 1, m), n + 1)
      BY <1>a, <2>2, <2>3, PrefixOK
    <2>5. QED
      BY <1>a, <1>4, <1>7, <2>4, WithFile
  <1>8. QED
    BY <1>3, <1>4, <1>5, <1>6, <1>7
-----------------------------------------------------------------------------
(* The other operations.                                                   *)

LEMMA BlankOK ==
  ASSUME NEW n \in Nat
  PROVE  FileOK(Blank, n) /\ Blank \in Seq(Line)
  <1>1. Len(Blank) = 2 /\ Blank \in Seq(Line) /\ Blank[1] = First /\ Blank[2] = Title
    BY LineFacts DEF Blank
  <1>2. \A i \in 1 .. Len(Blank) : (i = 1 \/ i = 2) /\ Blank[i].id = 0
    <2>1. \A i \in 1 .. 2 : (i = 1 \/ i = 2) /\ Blank[i].id = 0
      BY <1>1, LineFacts
    <2>2. QED
      BY <1>1, <2>1
  <1>3. QED
    BY <1>1, <1>2 DEF FileOK

\* A new process starts from a good record, with an empty buffer.
LEMMA FreshGood ==
  ASSUME NEW n \in Nat, Good(Hist, n)
  PROVE  Good(Fresh, n) /\ Fresh.there = exists /\ Fresh.file = file
  <1>1. Hist \in Histories /\ (~exists => file = << >>) /\ FileOK(file, n)
    BY DEF Good, Hist
  <1>2. NoCache \in [Slots -> Record \cup {Null}] /\ \A s \in Slots : NoCache[s] = Null
    BY DEF NoCache
  <1>3. /\ Fresh \in Histories /\ Fresh.there = exists /\ Fresh.file = file
        /\ Fresh.ring = NoCache /\ Fresh.next = -1
    BY <1>1, <1>2 DEF Fresh, Hist, Histories
  <1>4. RingOK(NoCache, -1, n)
    BY <1>2, SizesAssumption DEF RingOK, Slots
  <1>5. QED
    BY <1>1, <1>3, <1>4 DEF Good

LEMMA UptimeHistoryGood ==
  ASSUME NEW n \in Nat, NEW h, Good(h, n), NEW r \in Record, r.id = n + 1
  PROVE  Good(UptimeHistory(h, r), n + 1)
  <1>1. n + 1 \in Nat /\ Good(h, n + 1)
    BY GoodMonotonic
  <1>2. FileOK(Append(h.file, r), n + 1)
    BY AppendOK DEF Good
  <1>3. CASE h.there /\ h.file # << >> /\ h.file[1] = First
    BY <1>1, <1>2, <1>3, WithFile DEF UptimeHistory
  <1>4. CASE ~(h.there /\ h.file # << >> /\ h.file[1] = First)
    BY <1>1, <1>4 DEF UptimeHistory
  <1>5. QED
    BY <1>3, <1>4

LEMMA ResetUptimeHistoryGood ==
  ASSUME NEW n \in Nat, NEW h, Good(h, n)
  PROVE  Good(ResetUptimeHistory(h), n)
  <1> DEFINE l == IF h.next < 0 THEN CacheHistoryFile(h) ELSE h
             g == ResetUptimeHistory(h)
  <1>1. Good(l, n)
    BY CacheHistoryFileGood
  <1>2. g = [l EXCEPT !.there = TRUE, !.file = Blank]
    BY DEF ResetUptimeHistory
  <1> HIDE DEF l, g
  <1>3. l \in Histories /\ RingOK(l.ring, l.next, n)
    BY <1>1 DEF Good
  <1>4. FileOK(Blank, n) /\ Blank \in Seq(Line)
    BY BlankOK
  <1>5. /\ g \in Histories /\ g.there /\ g.file = Blank
        /\ g.ring = l.ring /\ g.next = l.next
    BY <1>2, <1>3, <1>4 DEF Histories
  <1>6. QED
    BY <1>3, <1>4, <1>5 DEF Good, g

LEMMA WriteFirstLineOK ==
  ASSUME NEW n \in Nat, NEW f, FileOK(f, n)
  PROVE  FileOK(WriteFirstLine(f), n)
  <1>1. f \in Seq(Line) /\ Len(f) \in Nat
    BY LenProperties DEF FileOK
  <1>2. CASE f = << >>
    <2>1. /\ <<First>> \in Seq(Line) /\ Len(<<First>>) = 1 /\ <<First>>[1] = First
      BY LineFacts
    <2>2. FileOK(<<First>>, n)
      BY <2>1, LineFacts DEF FileOK
    <2>3. QED
      BY <1>2, <2>2 DEF WriteFirstLine
  <1>3. CASE f # << >> /\ f[1] = First
    BY <1>3 DEF WriteFirstLine
  <1>4. CASE f # << >> /\ f[1] # First
    <2> DEFINE two == <<First, Torn>>
               t == Tail(f)
               g == two \o t
    <2>1. two \in Seq(Line) /\ Len(two) = 2 /\ two[1] = First /\ two[2] = Torn
      BY LineFacts
    <2>2. t \in Seq(Line) /\ Len(t) = Len(f) - 1 /\ \A i \in 1 .. Len(t) : t[i] = f[i + 1]
      BY <1>1, <1>4, HeadTailProperties
    <2>3. Len(f) >= 1
      BY <1>1, <1>4, EmptySeq
    <2> HIDE DEF two, t
    <2>4. /\ g \in Seq(Line) /\ Len(g) = Len(two) + Len(t)
          /\ \A i \in 1 .. Len(two) + Len(t) :
               g[i] = IF i <= Len(two) THEN two[i] ELSE t[i - Len(two)]
      BY <2>1, <2>2, ConcatProperties
    <2> HIDE DEF g
    <2>5. Len(g) = Len(f) + 1
      BY <1>1, <2>1, <2>2, <2>4
    <2>6. \A i \in 1 .. Len(g) : i <= 2 => g[i].id = 0
      <3>1. \A i \in 1 .. Len(g) : i <= 2 => g[i] = two[i] /\ (i = 1 \/ i = 2)
        BY <2>1, <2>2, <2>3, <2>4, <2>5
      <3>2. QED
        BY <2>1, <3>1, LineFacts
    <2>7. g[1] = First
      <3>1. 1 \in 1 .. Len(two) + Len(t)
        BY <1>1, <2>1, <2>2, <2>3
      <3>2. QED
        BY <2>1, <2>4, <3>1
    <2>8. \A i \in 1 .. Len(g) : i > 2 => i - 1 \in 1 .. Len(f) /\ g[i] = f[i - 1]
      <3>1. SUFFICES ASSUME NEW i \in 1 .. Len(g), i > 2
                     PROVE  i - 1 \in 1 .. Len(f) /\ g[i] = f[i - 1]
        OBVIOUS
      <3>2. g[i] = t[i - 2] /\ i - 2 \in 1 .. Len(t)
        BY <1>1, <2>1, <2>2, <2>4, <2>5, <3>1
      <3>3. t[i - 2] = f[(i - 2) + 1] /\ (i - 2) + 1 = i - 1
        BY <2>2, <3>1, <3>2
      <3>4. QED
        BY <1>1, <2>5, <3>1, <3>2, <3>3
    <2>9. \A i \in 1 .. Len(f) : f[i] \in Record /\ f[i].id <= n
      BY <1>4 DEF FileOK
    <2>10. \A i \in 1 .. Len(g) : (i > 2 => g[i] \in Record) /\ g[i].id <= n
      BY <1>1, <2>5, <2>6, <2>8, <2>9
    <2>11. ASSUME NEW i \in 1 .. Len(g), NEW j \in 1 .. Len(g),
                  i < j, g[i].id > 0, g[j].id > 0
           PROVE  g[i].id < g[j].id
      <3>1. i > 2 /\ j > 2 /\ i - 1 < j - 1
        BY <1>1, <2>5, <2>6, <2>11
      <3>2. QED
        BY <2>8, <2>11, <3>1 DEF FileOK
    <2>12. FileOK(g, n)
      BY <2>4, <2>7, <2>10, <2>11 DEF FileOK
    <2>13. QED
      BY <1>4, <2>12 DEF WriteFirstLine, g, t, two
  <1>5. QED
    BY <1>2, <1>3, <1>4

\* Marking changes the kind of event lines and nothing else.
LEMMA MarkedOK ==
  ASSUME NEW n \in Nat, NEW f, FileOK(f, n), NEW ids
  PROVE  FileOK(Marked(f, ids), n) /\ Len(Marked(f, ids)) = Len(f)
  <1> DEFINE m == Marked(f, ids)
  <1>1. f \in Seq(Line) /\ Len(f) \in Nat /\ DOMAIN f = 1 .. Len(f)
    BY LenProperties DEF FileOK
  <1>2. ASSUME NEW l \in Line, l.kind = "CRASH"
        PROVE  /\ l \in Record /\ [l EXCEPT !.kind = "DELETE"] \in Record
               /\ [l EXCEPT !.kind = "DELETE"].id = l.id
               /\ l # First /\ [l EXCEPT !.kind = "DELETE"] # First
    <2>1. l \in Record
      BY <1>2 DEF Line, First, Title, Torn, Header
    <2>2. [l EXCEPT !.kind = "DELETE"] \in Record /\ [l EXCEPT !.kind = "DELETE"].id = l.id
      BY <2>1 DEF Record, Kinds
    <2>3. \A r \in Record : r.id # First.id
      BY LineFacts
    <2>4. QED
      BY <2>1, <2>2, <2>3
  <1>3. ASSUME NEW i \in 1 .. Len(f)
        PROVE  /\ m[i] \in Line /\ m[i].id = f[i].id
               /\ (f[i] \in Record => m[i] \in Record)
               /\ (f[i] = First => m[i] = First)
    <2>1. f[i] \in Line
      BY <1>1, ElementOfSeq
    <2>2. m[i] = IF f[i].kind = "CRASH" /\ f[i].id \in ids
                 THEN [f[i] EXCEPT !.kind = "DELETE"] ELSE f[i]
      BY <1>1 DEF Marked
    <2>3. CASE f[i].kind = "CRASH"
      BY <1>2, <2>1, <2>2, <2>3 DEF Line
    <2>4. CASE f[i].kind # "CRASH"
      BY <2>1, <2>2, <2>4
    <2>5. QED
      BY <2>3, <2>4
  <1>4. m \in [1 .. Len(f) -> Line]
    BY <1>1, <1>3 DEF Marked
  <1> HIDE DEF m
  <1>5. m \in Seq(Line) /\ Len(m) = Len(f)
    BY <1>1, <1>4, FunctionIsSeq
  <1>6. \A i \in 1 .. Len(f) : 1 \in 1 .. Len(f)
    BY <1>1
  <1>7. QED
    BY <1>3, <1>5, <1>6 DEF FileOK, m
-----------------------------------------------------------------------------
(* The invariant.                                                          *)

LEMMA InitInv == Init => Inv
  <1>1. SUFFICES ASSUME Init PROVE Inv
    OBVIOUS
  <1>2. /\ Hist.there = FALSE /\ Hist.file = << >> /\ Hist.ring = NoCache /\ Hist.next = -1
        /\ Hist \in Histories
    <2>1. << >> \in Seq(Line) /\ NoCache \in [Slots -> Record \cup {Null}]
      BY DEF NoCache
    <2>2. Hist = [there |-> FALSE, file |-> << >>, ring |-> NoCache, next |-> -1]
      BY <1>1 DEF Init, Hist
    <2>3. QED
      BY <2>1, <2>2 DEF Histories
  <1>3. FileOK(<< >>, 0)
    BY DEF FileOK
  <1>4. RingOK(NoCache, -1, 0)
    BY SizesAssumption DEF RingOK, NoCache, Slots
  <1>5. raised = 0 /\ Good(Hist, 0)
    BY <1>1, <1>2, <1>3, <1>4 DEF Init, Good
  <1>6. raised \in 0 .. MaxEvents
    BY <1>5, SizesAssumption
  <1>7. /\ dirs \in SUBSET Dirs /\ abortclean \in BOOLEAN
        /\ dropped \in BOOLEAN /\ disturbed \in BOOLEAN
    BY <1>1 DEF Init
  <1>8. QED
    BY <1>5, <1>6, <1>7 DEF Inv

\* The fields of a good record are the next state of the four variables.
LEMMA BecomeGood ==
  ASSUME NEW h, NEW n \in Nat, Good(h, n), Become(h)
  PROVE  Good(Hist', n)
  <1>1. h \in Histories
    BY DEF Good
  <1>2. Hist' = [there |-> h.there, file |-> h.file, ring |-> h.ring, next |-> h.next]
    BY DEF Become, Hist
  <1>3. Hist' = h
    BY <1>1, <1>2 DEF Histories
  <1>4. QED
    BY <1>3

LEMMA NewLineFacts ==
  ASSUME Inv, CanRaise, NEW kind \in Kinds, NEW d \in Dirs \cup {NoDir}
  PROVE  NewLine(kind, d) \in Record /\ NewLine(kind, d).id = raised + 1
  BY SizesAssumption DEF Inv, CanRaise, NewLine, Record

\* What the actions do to the file and the buffer, raised events included.
LEMMA InvStep == Inv /\ [Next]_vars => Inv'
  <1> SUFFICES ASSUME Inv, [Next]_vars PROVE Inv'
    OBVIOUS
  <1>1. /\ raised \in Nat /\ raised + 1 \in Nat /\ Good(Hist, raised)
        /\ (CanRaise => raised + 1 \in 0 .. MaxEvents)
    BY SizesAssumption DEF Inv, CanRaise
  <1>2. "CRASH" \in Kinds /\ "OTHER" \in Kinds
    BY DEF Kinds
  <1>3. ASSUME RaiseEvent PROVE Inv'
    <2>1. CanRaise /\ raised' = raised + 1 /\ UNCHANGED <<abortclean, dropped, disturbed>>
      BY <1>3 DEF RaiseEvent
    <2>2. ASSUME NEW d \in Dirs, Become(UpdateFile(Hist, NewLine("CRASH", d))),
                 dirs' = dirs \cup {d}
          PROVE  Good(Hist', raised + 1) /\ dirs' \in SUBSET Dirs
      BY <1>1, <1>2, <2>1, <2>2, NewLineFacts, UpdateFileGood, BecomeGood DEF Inv
    <2>3. ASSUME Become(UpdateFile(Hist, NewLine("OTHER", NoDir))), UNCHANGED dirs
          PROVE  Good(Hist', raised + 1) /\ dirs' \in SUBSET Dirs
      BY <1>1, <1>2, <2>1, <2>3, NewLineFacts, UpdateFileGood, BecomeGood DEF Inv
    <2>4. Good(Hist', raised + 1) /\ dirs' \in SUBSET Dirs
      BY <1>3, <2>2, <2>3 DEF RaiseEvent
    <2>5. QED
      BY <1>1, <2>1, <2>4 DEF Inv
  <1>4. ASSUME RaiseFails PROVE Inv'
    <2>1. /\ CanRaise /\ raised' = raised + 1 /\ dropped' = TRUE
          /\ disturbed' = TRUE /\ UNCHANGED abortclean
      BY <1>4 DEF RaiseFails
    <2>2. PICK d \in Dirs : /\ \E h \in FailedUpdates(Hist, NewLine("CRASH", d)) : Become(h)
                           /\ dirs' = dirs \cup {d}
      BY <1>4 DEF RaiseFails
    <2>3. PICK h \in FailedUpdates(Hist, NewLine("CRASH", d)) : Become(h)
      BY <2>2
    <2>4. Good(h, raised + 1)
      BY <1>1, <1>2, <2>1, <2>2, NewLineFacts, FailedUpdatesGood
    <2>5. Good(Hist', raised + 1)
      BY <1>1, <2>3, <2>4, BecomeGood
    <2>6. QED
      BY <1>1, <2>1, <2>2, <2>5 DEF Inv
  <1>5. ASSUME NEW due \in BOOLEAN, AddUptimeEvent(due) PROVE Inv'
    <2> DEFINE scan == ~abortclean /\ dirs # {}
               h == IF scan THEN Loaded(Hist) ELSE Hist
               w == [h EXCEPT !.file = WriteFirstLine(@)]
               g == IF due THEN UpdateFile(w, NewLine("OTHER", NoDir)) ELSE w
    <2>1. /\ Become(g) /\ dirs' \in SUBSET dirs /\ abortclean' \in BOOLEAN
          /\ raised' = (IF due THEN raised + 1 ELSE raised) /\ (due => CanRaise)
          /\ UNCHANGED <<dropped, disturbed>> /\ exists
      BY <1>5 DEF AddUptimeEvent, Inv
    <2>2. Good(h, raised) /\ h.there
      BY <1>1, <2>1, LoadedGood DEF Hist
    <2> HIDE DEF h
    <2>3. FileOK(WriteFirstLine(h.file), raised)
      BY <1>1, <2>2, WriteFirstLineOK DEF Good
    <2>4. w = [h EXCEPT !.file = WriteFirstLine(h.file)]
      OBVIOUS
    <2>5. Good(w, raised)
      BY <1>1, <2>2, <2>3, <2>4, WithFile
    <2> HIDE DEF w
    <2>6. due => Good(UpdateFile(w, NewLine("OTHER", NoDir)), raised + 1)
      BY <1>1, <1>2, <2>1, <2>5, NewLineFacts, UpdateFileGood
    <2>7. Good(g, raised') /\ raised' \in 0 .. MaxEvents /\ raised' \in Nat
      BY <1>1, <2>1, <2>5, <2>6 DEF Inv
    <2> HIDE DEF g
    <2>8. Good(Hist', raised')
      BY <2>1, <2>7, BecomeGood
    <2>9. QED
      BY <2>1, <2>7, <2>8 DEF Inv
  <1>6. ASSUME CmdDelete PROVE Inv'
    <2>1. PICK ids : file' = Marked(file, ids) /\ dirs' \in SUBSET dirs
      BY <1>6 DEF CmdDelete
    <2>2. /\ UNCHANGED <<exists, cache, nextline, raised, abortclean, dropped>>
          /\ exists /\ disturbed' = TRUE
      BY <1>6 DEF CmdDelete
    <2>3. FileOK(file', raised)
      BY <1>1, <2>1, MarkedOK DEF Good, Hist
    <2>4. Good(Hist', raised)
      BY <1>1, <2>2, <2>3 DEF Good, Hist, Histories, FileOK
    <2>5. QED
      BY <2>1, <2>2, <2>4 DEF Inv
  <1>7. Good(Fresh, raised)
    BY <1>1, FreshGood
  <1>8. ASSUME Respawn PROVE Inv'
    <2>1. Good(Hist', raised)
      BY <1>1, <1>7, <1>8, BecomeGood DEF Respawn
    <2>2. QED
      BY <1>8, <2>1 DEF Respawn, Inv
  <1>9. ASSUME Boot PROVE Inv'
    <2>1. Good(UptimeHistory(Fresh, NewLine("OTHER", NoDir)), raised + 1)
      BY <1>1, <1>2, <1>7, <1>9, NewLineFacts, UptimeHistoryGood DEF Boot
    <2>2. Good(Hist', raised + 1)
      BY <1>1, <1>9, <2>1, BecomeGood DEF Boot
    <2>3. QED
      BY <1>1, <1>9, <2>2 DEF Boot, Inv
  <1>10. ASSUME BootAfterUpdate PROVE Inv'
    <2>1. Good(Hist', raised)
      BY <1>1, <1>7, <1>10, ResetUptimeHistoryGood, BecomeGood DEF BootAfterUpdate
    <2>2. QED
      BY <1>10, <2>1 DEF BootAfterUpdate, Inv
  <1>11. ASSUME RemoveFile PROVE Inv'
    <2>1. FileOK(<< >>, raised) /\ << >> \in Seq(Line)
      BY DEF FileOK
    <2>2. Hist' = [there |-> FALSE, file |-> << >>, ring |-> cache, next |-> nextline]
      BY <1>11 DEF RemoveFile, Hist
    <2> DEFINE g == Hist'
    <2>3. /\ g.there = FALSE /\ g.file = << >> /\ g.ring = Hist.ring /\ g.next = Hist.next
          /\ g \in Histories
      BY <1>1, <2>1, <2>2 DEF Good, Hist, Histories
    <2> HIDE DEF g
    <2>4. Good(g, raised)
      BY <1>1, <2>1, <2>3 DEF Good
    <2>5. Good(Hist', raised)
      BY <2>4 DEF g
    <2>6. QED
      BY <1>11, <2>5 DEF RemoveFile, Inv
  <1>12. ASSUME DelHist PROVE Inv'
    <2>1. FileOK(file, raised) /\ file \in Seq(Line)
      BY <1>1 DEF Good, Hist, FileOK
    <2>2. FileOK(file', raised)
      <3>1. CASE file = << >>
        BY <1>12, <2>1, <3>1 DEF DelHist
      <3>2. CASE file # << >>
        <4>1. Len(file) >= 1 /\ 1 \in 1 .. Len(file) /\ file[1] \in Line
          BY <2>1, <3>2, EmptySeq, LenProperties, ElementOfSeq
        <4>2. FileOK(<<file[1]>>, raised)
          BY <2>1, <4>1 DEF FileOK
        <4>3. QED
          BY <1>12, <3>2, <4>2 DEF DelHist
      <3>3. QED
        BY <3>1, <3>2
    <2>3. Good(Hist', raised)
      BY <1>1, <1>12, <2>2 DEF DelHist, Good, Hist, Histories, FileOK
    <2>4. QED
      BY <1>12, <2>3 DEF DelHist, Inv
  <1>13. ASSUME UNCHANGED vars PROVE Inv'
    BY <1>13 DEF vars, Inv, Hist
  <1>14. QED
    BY <1>3, <1>4, <1>5, <1>6, <1>8, <1>9, <1>10, <1>11, <1>12, <1>13
    DEF Next, NextMaintained, NextLog

THEOREM Invariance == Spec => []Inv
  BY InitInv, InvStep, PTL DEF Spec
-----------------------------------------------------------------------------
(* The buffer and the end of the file.                                     *)

\* The line of the file that slot s of the buffer mirrors, by its place in the file, when the file
\* has that many lines; the slots before the first event are empty.
Place(h, s) == Len(h.file) - MaxRecords + 1 + Offset(s, h.next)
Mirrors(h) ==
  \A s \in Slots : h.ring[s] = IF Place(h, s) > 2 THEN h.file[Place(h, s)] ELSE Null

\* What the cleaning of the folders needs, which survives more than Mirrors: a crash among the last
\* lines of an intact file has its folder in the buffer.
Covers(h) ==
  Headed(h.file) =>
    \A i \in DOMAIN h.file :
      i > Len(h.file) - MaxRecords /\ h.file[i].kind = "CRASH" =>
        \E s \in Slots : h.ring[s] # Null /\ h.ring[s].dir = h.file[i].dir

\* The places of the slots are the last MAX_RECORDS ones.
LEMMA PlaceFacts ==
  ASSUME NEW k \in Slots, NEW len \in Nat
  PROVE  /\ \A s \in Slots : Offset(s, k) \in 0 .. MaxRecords - 1
         /\ \A i \in len - MaxRecords + 1 .. len :
              \E s \in Slots : len - MaxRecords + 1 + Offset(s, k) = i
<1>1. MaxRecords \in Nat \ {0} /\ k \in 0 .. MaxRecords - 1
  BY SizesAssumption DEF Slots
<1>2. \A s \in Slots : Offset(s, k) \in 0 .. MaxRecords - 1
  BY OffsetFacts DEF Slots
<1>3. ASSUME NEW i \in len - MaxRecords + 1 .. len
      PROVE  \E s \in Slots : len - MaxRecords + 1 + Offset(s, k) = i
  <2> DEFINE o == i - len + MaxRecords - 1
             s == IF k + o < MaxRecords THEN k + o ELSE k + o - MaxRecords
  <2>1. o \in 0 .. MaxRecords - 1
    BY <1>1
  <2>2. s \in Slots /\ Offset(s, k) = o
    BY <1>1, <2>1 DEF Slots, Offset
  <2> QED
    BY <1>1, <2>2
<1> QED
  BY <1>2, <1>3

\* The kinds of the lines that are no event.
LEMMA HeaderFacts ==
  /\ First.kind # "CRASH" /\ Title.kind # "CRASH" /\ Torn.kind # "CRASH"
  /\ First # Title /\ Torn # Title /\ First # Torn
  /\ First \notin Record /\ Title \notin Record
  BY LineFacts, SizesAssumption DEF First, Title, Torn, Header

LEMMA BlankFacts == Blank \in Seq(Line) /\ Len(Blank) = 2 /\ Headed(Blank)
  BY LineFacts DEF Blank, Headed

\* A buffer that mirrors the file covers it.
LEMMA MirrorsCovers ==
  ASSUME NEW n \in Nat, NEW h, Good(h, n), h.next \in Slots, Mirrors(h)
  PROVE  Covers(h)
<1> SUFFICES ASSUME Headed(h.file), NEW i \in DOMAIN h.file,
                    i > Len(h.file) - MaxRecords, h.file[i].kind = "CRASH"
             PROVE  \E s \in Slots : h.ring[s] # Null /\ h.ring[s].dir = h.file[i].dir
  BY DEF Covers
<1>1. /\ h.file \in Seq(Line) /\ Len(h.file) \in Nat /\ DOMAIN h.file = 1 .. Len(h.file)
      /\ h.file[i] \in Line /\ MaxRecords \in Nat
  BY SeqFacts, SizesAssumption DEF Good, FileOK
<1>2. i > 2
  BY <1>1, HeaderFacts DEF Headed
<1>3. i \in Len(h.file) - MaxRecords + 1 .. Len(h.file)
  BY <1>1
<1>4. PICK s \in Slots : Place(h, s) = i
  BY <1>1, <1>3, PlaceFacts DEF Place
<1>5. h.ring[s] = h.file[i]
  BY <1>2, <1>4 DEF Mirrors
<1> QED
  BY <1>1, <1>5, NullAssumption

\* cache_history_file: the buffer mirrors the file, whatever it is.
LEMMA CacheMirrors ==
  ASSUME NEW n \in Nat, NEW h, Good(h, n), h.there => Headed(h.file)
  PROVE  LET c == CacheHistoryFile(h)
         IN  c.there /\ c.file = (IF h.there THEN h.file ELSE Blank) /\ Headed(c.file) /\ Mirrors(c)
<1> DEFINE c == CacheHistoryFile(h)
<1>1. PICK f : f = IF h.there THEN h.file ELSE Blank
  OBVIOUS
<1>2. c = [there |-> TRUE, file |-> f, ring |-> CacheFile(f), next |-> CacheNext(f)]
  BY <1>1 DEF CacheHistoryFile
<1>3. f \in Seq(Line) /\ Headed(f)
  BY <1>1, BlankFacts DEF Good, FileOK
<1>4. Len(f) \in Nat /\ Len(f) >= 2 /\ MaxRecords \in Nat \ {0}
  BY <1>3, SeqFacts, SizesAssumption DEF Headed
<1>5. PICK len \in Nat : len = Len(f)
  BY <1>4
<1>6. ASSUME NEW s \in Slots
      PROVE  LET i == len - MaxRecords + 1 + Offset(s, CacheNext(f))
             IN  CacheFile(f)[s] = IF i > 2 THEN f[i] ELSE Null
  <2>1. s \in Int /\ 0 <= s /\ s < MaxRecords
    BY <1>4 DEF Slots
  <2>2. CASE len < MaxRecords + 2
    <3>1. CacheNext(f) = len - 2
      BY <1>4, <1>5, <2>2 DEF CacheNext
    <3>2. CacheFile(f)[s] = IF s + 3 <= len THEN f[s + 3] ELSE Null
      <4>1. Len(f) <= MaxRecords + 2 /\ 2 + s + 1 = s + 3
        BY <1>4, <1>5, <2>1, <2>2
      <4> QED
        BY <1>5, <4>1 DEF CacheFile
    <3>3. len - MaxRecords + 1 + Offset(s, len - 2) =
            IF s >= len - 2 THEN s + 3 - MaxRecords ELSE s + 3
      <4>1. CASE s >= len - 2
        <5>1. Offset(s, len - 2) = s - (len - 2)
          BY <4>1 DEF Offset
        <5> QED
          BY <1>4, <2>1, <4>1, <5>1
      <4>2. CASE ~(s >= len - 2)
        <5>1. Offset(s, len - 2) = s - (len - 2) + MaxRecords
          BY <4>2 DEF Offset
        <5> QED
          BY <1>4, <2>1, <4>2, <5>1
      <4> QED
        BY <4>1, <4>2
    <3> QED
      BY <1>4, <1>5, <2>1, <3>1, <3>2, <3>3
  <2>3. CASE len = MaxRecords + 2
    <3>1. CacheNext(f) = 0
      BY <1>4, <1>5, <2>3 DEF CacheNext
    <3>2. CacheFile(f)[s] = f[s + 3]
      BY <1>4, <1>5, <2>1, <2>3 DEF CacheFile
    <3>3. len - MaxRecords + 1 + Offset(s, 0) = s + 3
      BY <1>4, <1>5, <2>1, <2>3 DEF Offset
    <3> QED
      BY <2>1, <3>1, <3>2, <3>3
  <2>4. CASE len > MaxRecords + 2
    <3>1. CacheNext(f) = 0
      BY <1>4, <1>5, <2>4 DEF CacheNext
    <3>2. CacheFile(f)[s] = f[len - MaxRecords + s + 1]
      BY <1>4, <1>5, <2>1, <2>4 DEF CacheFile
    <3>3. len - MaxRecords + 1 + Offset(s, 0) = len - MaxRecords + s + 1
      BY <1>4, <2>1 DEF Offset
    <3> QED
      BY <1>4, <2>1, <2>4, <3>1, <3>2, <3>3
  <2> QED
    BY <1>4, <2>2, <2>3, <2>4
<1> HIDE DEF c
<1>7. Mirrors(c)
  BY <1>2, <1>5, <1>6 DEF Mirrors, Place
<1> QED
  BY <1>1, <1>2, <1>3, <1>7 DEF c

\* The buffer an update works on mirrors the file, if it did when it was loaded.
LEMMA LoadedMirrors ==
  ASSUME NEW n \in Nat, NEW h, Good(h, n), h.there => Headed(h.file),
         h.there /\ h.next >= 0 => Mirrors(h)
  PROVE  LET l == Loaded(h)
         IN  l.there /\ l.file = (IF h.there THEN h.file ELSE Blank) /\ Headed(l.file) /\ Mirrors(l)
<1>1. h.next \in {-1} \cup Slots
  BY DEF Good, Histories
<1>2. CASE ~h.there \/ h.next < 0
  BY <1>2, CacheMirrors DEF Loaded
<1>3. CASE h.there /\ ~(h.next < 0)
  <2>1. h.next >= 0 /\ Loaded(h) = h
    BY <1>1, <1>3, SizesAssumption DEF Loaded, Slots
  <2> QED
    BY <1>3, <2>1
<1> QED
  BY <1>2, <1>3

\* Or covers the file, which needs less.
LEMMA LoadedCovers ==
  ASSUME NEW n \in Nat, NEW h, Good(h, n), h.there /\ h.next >= 0 => Covers(h)
  PROVE  LET l == Loaded(h)
         IN  l.there /\ l.file = (IF h.there THEN h.file ELSE Blank) /\ Covers(l)
<1>1. h.next \in {-1} \cup Slots
  BY DEF Good, Histories
<1>2. CASE ~h.there \/ h.next < 0
  <2>1. Loaded(h) = CacheHistoryFile(h)
    BY <1>2 DEF Loaded
  <2>2. /\ CacheHistoryFile(h).there
        /\ CacheHistoryFile(h).file = IF h.there THEN h.file ELSE Blank
    BY DEF CacheHistoryFile
  <2>3. CASE h.there => Headed(h.file)
    BY <2>1, <2>2, <2>3, CacheMirrors, MirrorsCovers, CacheHistoryFileGood
  <2>4. CASE ~(h.there => Headed(h.file))
    BY <2>1, <2>2, <2>4 DEF Covers
  <2> QED
    BY <2>3, <2>4
<1>3. CASE h.there /\ ~(h.next < 0)
  <2>1. h.next >= 0 /\ Loaded(h) = h
    BY <1>1, <1>3, SizesAssumption DEF Loaded, Slots
  <2> QED
    BY <1>3, <2>1
<1> QED
  BY <1>2, <1>3

\* One more event while there is room: the line goes to nextline and to the end of the file.
LEMMA AppendMirrors ==
  ASSUME NEW n \in Nat, NEW h, Good(h, n), h.there, h.next \in Slots, h.ring[h.next] = Null,
         NEW r \in Record
  PROVE  LET p == Put(h, r)
             a == [p EXCEPT !.file = Append(@, r)]
         IN  /\ a.there /\ a.file = Append(h.file, r) /\ a.next \in Slots
             /\ Mirrors(h) /\ Len(h.file) >= 2 => Mirrors(a)
             /\ Covers(h) => Covers(a)
<1> DEFINE p == Put(h, r)
           a == [p EXCEPT !.file = Append(@, r)]
           k == h.next
           f == h.file
<1>1. /\ h \in Histories /\ f \in Seq(Line) /\ h.ring \in [Slots -> Record \cup {Null}]
      /\ r \in Line /\ r # Null
  BY LineFacts DEF Good, FileOK, RingOK
<1>2. /\ a.there /\ a.file = Append(f, r) /\ a.next = Succ(k)
      /\ a.ring = [h.ring EXCEPT ![k] = r]
  BY <1>1 DEF Put, Histories
<1>3. \A s \in Slots : a.ring[s] = IF s = k THEN r ELSE h.ring[s]
  BY <1>1, <1>2
<1>4. /\ Len(f) \in Nat /\ DOMAIN f = 1 .. Len(f)
      /\ Len(a.file) = Len(f) + 1 /\ DOMAIN a.file = 1 .. Len(f) + 1
      /\ \A i \in 1 .. Len(f) : a.file[i] = f[i]
      /\ a.file[Len(f) + 1] = r
  BY <1>1, <1>2, SeqFacts, AppendFacts
<1>5. Succ(k) \in Slots /\ MaxRecords \in Nat \ {0}
  BY OffsetFacts, SizesAssumption
<1> HIDE DEF a, p
<1>6. ASSUME Mirrors(h), Len(f) >= 2 PROVE Mirrors(a)
  <2> SUFFICES ASSUME NEW s \in Slots
               PROVE  a.ring[s] = IF Place(a, s) > 2 THEN a.file[Place(a, s)] ELSE Null
    BY DEF Mirrors
  <2>1. /\ Offset(s, Succ(k)) = IF s = k THEN MaxRecords - 1 ELSE Offset(s, k) - 1
        /\ Offset(s, k) \in 0 .. MaxRecords - 1
    BY OffsetFacts DEF Slots
  <2>2. CASE s = k
    <3>1. Place(a, s) = Len(f) + 1
      BY <1>2, <1>4, <1>5, <2>1, <2>2 DEF Place
    <3> QED
      BY <1>3, <1>4, <1>6, <2>2, <3>1
  <2>3. CASE s # k
    <3>1. Place(a, s) = Place(h, s) /\ Place(h, s) \in Int /\ Place(h, s) <= Len(f)
      <4>1. PICK x \in Nat, y \in Nat, m \in Nat : /\ x = Offset(s, k) /\ y = Len(f) /\ m = MaxRecords
                                                /\ x <= m - 1
        BY <1>4, <1>5, <2>1
      <4>2. Offset(s, a.next) = x - 1 /\ Len(a.file) = y + 1
        BY <1>2, <1>4, <2>1, <2>3, <4>1
      <4>3. Place(a, s) = y + 1 - m + 1 + (x - 1)
        BY <4>1, <4>2 DEF Place
      <4>4. Place(h, s) = y - m + 1 + x
        BY <4>1 DEF Place
      <4>5. QED
        BY <4>1, <4>3, <4>4
    <3>2. Place(h, s) > 2 => a.file[Place(a, s)] = f[Place(h, s)]
      BY <1>4, <3>1
    <3> QED
      BY <1>3, <1>6, <2>3, <3>1, <3>2 DEF Mirrors
  <2> QED
    BY <2>2, <2>3
<1>7. ASSUME Covers(h) PROVE Covers(a)
  <2> SUFFICES ASSUME Headed(a.file), NEW i \in DOMAIN a.file,
                      i > Len(a.file) - MaxRecords, a.file[i].kind = "CRASH"
               PROVE  \E s \in Slots : a.ring[s] # Null /\ a.ring[s].dir = a.file[i].dir
    BY DEF Covers
  <2>1. CASE i = Len(f) + 1
    BY <1>1, <1>3, <1>4, <2>1
  <2>2. CASE i # Len(f) + 1
    <3>1. i \in 1 .. Len(f) /\ a.file[i] = f[i] /\ i > Len(f) - MaxRecords
      BY <1>4, <1>5, <2>2
    <3>2. Headed(f)
      <4>1. a.file[1] = First /\ a.file[2] = Title /\ Len(f) + 1 >= 2
        BY <1>4 DEF Headed
      <4>2. Len(f) # 1
        BY <1>4, <4>1, HeaderFacts
      <4> DEFINE len == Len(f)
      <4>a. len \in Nat /\ len + 1 >= 2 /\ len # 1
        BY <1>4, <4>1, <4>2
      <4> HIDE DEF len
      <4>b. len >= 2 /\ 1 \in 1 .. len /\ 2 \in 1 .. len
        BY <4>a
      <4>3. Len(f) >= 2 /\ 1 \in 1 .. Len(f) /\ 2 \in 1 .. Len(f)
        BY <4>b DEF len
      <4>4. a.file[1] = f[1] /\ a.file[2] = f[2]
        BY <1>4, <4>3
      <4> QED
        BY <4>1, <4>3, <4>4 DEF Headed
    <3>3. PICK s \in Slots : h.ring[s] # Null /\ h.ring[s].dir = f[i].dir
      BY <1>4, <1>7, <3>1, <3>2 DEF Covers
    <3> QED
      BY <1>3, <3>1, <3>3
  <2> QED
    BY <2>1, <2>2
<1> QED
  BY <1>2, <1>5, <1>6, <1>7 DEF a, p

\* The full rewrite makes the file from the buffer.
LEMMA RewrittenMirrors ==
  ASSUME NEW n \in Nat, NEW h, Good(h, n), h.there, h.next \in Slots, Full(h)
  PROVE  LET a == [h EXCEPT !.file = Rewritten(h)]
         IN  a.there /\ a.file = Rewritten(h) /\ a.next = h.next /\ Headed(a.file) /\ Mirrors(a)
<1> DEFINE a == [h EXCEPT !.file = Rewritten(h)]
<1>1. a.there /\ a.file = Rewritten(h) /\ a.next = h.next /\ a.ring = h.ring
  BY DEF Good, Histories
<1>2. /\ Headed(a.file) /\ Len(a.file) = MaxRecords + 2
      /\ \A i \in 3 .. MaxRecords + 2 :
           \E t \in Slots : Offset(t, h.next) = i - 3 /\ a.file[i] = h.ring[t]
  BY <1>1, RewrittenGood
<1> HIDE DEF a
<1>3. Mirrors(a)
  <2> SUFFICES ASSUME NEW s \in Slots
               PROVE  a.ring[s] = IF Place(a, s) > 2 THEN a.file[Place(a, s)] ELSE Null
    BY DEF Mirrors
  <2>1. Offset(s, h.next) \in 0 .. MaxRecords - 1 /\ MaxRecords \in Nat \ {0}
    BY PlaceFacts, SizesAssumption
  <2>2. Place(a, s) = Offset(s, h.next) + 3 /\ Place(a, s) \in 3 .. MaxRecords + 2
    BY <1>1, <1>2, <2>1 DEF Place
  <2>3. PICK t \in Slots : /\ Offset(t, h.next) = Place(a, s) - 3
                           /\ a.file[Place(a, s)] = h.ring[t]
    BY <1>2, <2>2
  <2>4. t = s
    <3>1. Offset(t, h.next) = Offset(s, h.next)
      BY <2>1, <2>2, <2>3
    <3> QED
      BY <2>1, <3>1 DEF Offset, Slots
  <2> QED
    BY <1>1, <2>1, <2>2, <2>3, <2>4
<1> QED
  BY <1>1, <1>2, <1>3 DEF a

-----------------------------------------------------------------------------
(* The last lines of the file.                                             *)

\* How many events a reader sees in a file of that length.
Count(len) == IF len <= MaxRecords + 2 THEN len - 2 ELSE MaxRecords

LEMMA CountFacts ==
  ASSUME NEW len \in Nat, len >= 2
  PROVE  Count(len) \in Nat /\ Count(len) <= MaxRecords /\ Count(len) <= len
<1>1. MaxRecords \in Nat \ {0}
  BY SizesAssumption
<1>2. CASE len <= MaxRecords + 2
  BY <1>1, <1>2 DEF Count
<1>3. CASE ~(len <= MaxRecords + 2)
  BY <1>1, <1>3 DEF Count
<1> QED
  BY <1>2, <1>3

LEMMA LastLinesFacts ==
  ASSUME NEW f \in Seq(Line), NEW len \in Nat, len = Len(f), len >= 2
  PROVE  /\ LastLines(f) \in Seq(Line) /\ Len(LastLines(f)) = Count(len)
         /\ \A i \in 1 .. Count(len) : LastLines(f)[i] = f[len - Count(len) + i]
<1> DEFINE first == IF len <= MaxRecords + 2 THEN 3 ELSE len - MaxRecords + 1
<1>a. MaxRecords \in Nat \ {0} /\ first \in Int
  BY SizesAssumption
<1> HIDE DEF first
<1>1. PICK m \in Int : m = first
  BY <1>a
<1>b. /\ len <= MaxRecords + 2 => m = 3
      /\ ~(len <= MaxRecords + 2) => m = len - MaxRecords + 1
  BY <1>1 DEF first
<1>2. LastLines(f) = SubSeq(f, m, len)
  BY <1>1 DEF LastLines, first
<1>3. \A i \in m .. len : f[i] \in Line
  <2>1. \A i \in m .. len : i \in DOMAIN f
    <3>1. DOMAIN f = 1 .. len /\ m >= 1
      BY <1>a, <1>b, SeqFacts
    <3> QED
      BY <3>1
  <2> QED
    BY <2>1, SeqFacts
<1>4. /\ LastLines(f) \in Seq(Line) /\ Len(LastLines(f)) = IF m <= len THEN len - m + 1 ELSE 0
      /\ \A i \in 1 .. len - m + 1 : LastLines(f)[i] = f[m + i - 1]
  BY <1>2, <1>3, SubSeqProperties
<1>5. len - m + 1 = Count(len) /\ (IF m <= len THEN len - m + 1 ELSE 0) = Count(len)
  <2>1. CASE len <= MaxRecords + 2
    BY <1>a, <1>b, <2>1 DEF Count
  <2>2. CASE ~(len <= MaxRecords + 2)
    BY <1>a, <1>b, <2>2 DEF Count
  <2> QED
    BY <2>1, <2>2
<1>6. \A i \in 1 .. Count(len) : m + i - 1 = len - Count(len) + i
  BY <1>5, CountFacts
<1> QED
  BY <1>4, <1>5, <1>6

\* A file that ends with r, after the end of the old one, is the old log with r.
LEMMA LogGrows ==
  ASSUME NEW f \in Seq(Line), NEW g \in Seq(Line), NEW r \in Line,
         NEW lf \in Nat, NEW lg \in Nat, lf = Len(f), lg = Len(g), lf >= 2, lg >= 2,
         Count(lg) = IF Count(lf) < MaxRecords THEN Count(lf) + 1 ELSE MaxRecords,
         g[lg] = r,
         \A j \in 1 .. Count(lg) - 1 : g[lg - j] = f[lf + 1 - j]
  PROVE  LastLines(g) = HL!LastN(Append(LastLines(f), r), MaxRecords)
<1>1. PICK cf \in Nat : cf = Count(lf)
  BY CountFacts
<1>2. PICK cg \in Nat : cg = Count(lg)
  BY CountFacts
<1>3. cg = (IF cf < MaxRecords THEN cf + 1 ELSE MaxRecords) /\ cf <= MaxRecords
      /\ MaxRecords \in Nat \ {0} /\ cg <= lg /\ cg >= 1 /\ cf + 1 >= cg
  BY <1>1, <1>2, CountFacts, SizesAssumption
<1>4. PICK a : a = Append(LastLines(f), r)
  OBVIOUS
<1>5. /\ LastLines(f) \in Seq(Line) /\ Len(LastLines(f)) = cf
      /\ \A i \in 1 .. cf : LastLines(f)[i] = f[lf - cf + i]
  BY <1>1, LastLinesFacts
<1>6. /\ a \in Seq(Line) /\ Len(a) = cf + 1 /\ DOMAIN a = 1 .. cf + 1
      /\ \A i \in 1 .. cf : a[i] = f[lf - cf + i]
      /\ a[cf + 1] = r
  BY <1>4, <1>5, AppendFacts, SeqFacts
<1>7. PICK b : b = HL!LastN(a, MaxRecords)
  OBVIOUS
<1>8. b \in Seq(Line) /\ Len(b) = cg /\ \A i \in 1 .. cg : b[i] = a[cf + 1 - cg + i]
  <2>1. CASE cf < MaxRecords
    <3>1. b = a /\ cg = cf + 1
      BY <1>3, <1>6, <1>7, <2>1 DEF HL!LastN
    <3>2. \A i \in 1 .. cg : cf + 1 - cg + i = i
      BY <1>3, <3>1
    <3> QED
      BY <1>6, <3>1, <3>2
  <2>2. CASE cf = MaxRecords
    <3>1. b = SubSeq(a, 2, cf + 1)
      <4>1. cf + 1 - MaxRecords + 1 = 2 /\ ~(cf + 1 <= MaxRecords)
        BY <1>3, <2>2
      <4>2. Len(a) = cf + 1
        BY <1>6
      <4>3. ~(Len(a) <= MaxRecords) /\ Len(a) - MaxRecords + 1 = 2
        BY <1>3, <4>1, <4>2
      <4>4. b = SubSeq(a, Len(a) - MaxRecords + 1, Len(a))
        BY <1>7, <4>3 DEF HL!LastN
      <4> QED
        BY <4>2, <4>3, <4>4
    <3>2. \A i \in 2 .. cf + 1 : a[i] \in Line
      <4>1. \A i \in 2 .. cf + 1 : i \in DOMAIN a
        BY <1>6
      <4> QED
        BY <1>6, <4>1, SeqFacts
    <3>3. /\ b \in Seq(Line) /\ Len(b) = IF 2 <= cf + 1 THEN cf + 1 - 2 + 1 ELSE 0
          /\ \A i \in 1 .. cf + 1 - 2 + 1 : b[i] = a[2 + i - 1]
      BY <3>1, <3>2, SubSeqProperties
    <3>4. /\ cg = cf /\ (IF 2 <= cf + 1 THEN cf + 1 - 2 + 1 ELSE 0) = cf /\ cf + 1 - 2 + 1 = cf
          /\ \A i \in 1 .. cf : 2 + i - 1 = cf + 1 - cg + i
      BY <1>3, <2>2
    <3> QED
      BY <3>3, <3>4
  <2> QED
    BY <1>3, <2>1, <2>2
<1>9. /\ LastLines(g) \in Seq(Line) /\ Len(LastLines(g)) = cg
      /\ \A i \in 1 .. cg : LastLines(g)[i] = g[lg - cg + i]
  BY <1>2, LastLinesFacts
<1>10. ASSUME NEW i \in 1 .. cg PROVE LastLines(g)[i] = b[i]
  <2>1. CASE i = cg
    <3>1. lg - cg + i = lg /\ cf + 1 - cg + i = cf + 1
      BY <1>3, <2>1
    <3> QED
      BY <1>6, <1>8, <1>9, <3>1
  <2>2. CASE i # cg
    <3> DEFINE j == cg - i
    <3>1. /\ j \in 1 .. cg - 1 /\ lg - cg + i = lg - j /\ cf + 1 - cg + i \in 1 .. cf
          /\ lf - cf + (cf + 1 - cg + i) = lf + 1 - j
      BY <1>3, <2>2
    <3> HIDE DEF j
    <3>2. LastLines(g)[i] = f[lf + 1 - j]
      BY <1>2, <1>9, <3>1
    <3>3. b[i] = f[lf - cf + (cf + 1 - cg + i)]
      BY <1>6, <1>8, <3>1
    <3> QED
      BY <3>1, <3>2, <3>3
  <2> QED
    BY <2>1, <2>2
<1>11. LastLines(g) = b
  BY <1>8, <1>9, <1>10, SeqEqual
<1> QED
  BY <1>4, <1>7, <1>11

\* A line at the end of a file is one more event of the log.
LEMMA AppendLog ==
  ASSUME NEW f \in Seq(Line), Len(f) >= 2, NEW r \in Line
  PROVE  LastLines(Append(f, r)) = HL!LastN(Append(LastLines(f), r), MaxRecords)
<1>1. PICK g : g = Append(f, r)
  OBVIOUS
<1>2. PICK lf \in Nat : lf = Len(f)
  BY SeqFacts
<1>a. PICK lg \in Nat : lg = lf + 1
  OBVIOUS
<1>3. /\ g \in Seq(Line) /\ Len(g) = lg /\ g[lg] = r /\ DOMAIN f = 1 .. lf
      /\ \A i \in 1 .. lf : g[i] = f[i]
  BY <1>1, <1>2, <1>a, AppendFacts, SeqFacts
<1>4. Count(lg) = (IF Count(lf) < MaxRecords THEN Count(lf) + 1 ELSE MaxRecords)
      /\ lg >= 2 /\ Count(lg) <= lf
  <2>1. lf >= 2 /\ MaxRecords \in Nat \ {0}
    BY <1>2, SizesAssumption
  <2>2. CASE lf < MaxRecords + 2
    BY <1>a, <2>1, <2>2 DEF Count
  <2>3. CASE lf >= MaxRecords + 2
    BY <1>a, <2>1, <2>3 DEF Count
  <2> QED
    BY <2>1, <2>2, <2>3
<1>5. ASSUME NEW j \in 1 .. Count(lg) - 1 PROVE g[lg - j] = f[lf + 1 - j]
  <2>1. Count(lg) \in Nat
    BY <1>4, CountFacts
  <2>2. lf + 1 - j \in 1 .. lf /\ lg - j = lf + 1 - j
    BY <1>a, <1>4, <2>1
  <2> QED
    BY <1>3, <2>2
<1>6. LastLines(g) = HL!LastN(Append(LastLines(f), r), MaxRecords)
  BY <1>2, <1>3, <1>4, <1>5, LogGrows
<1> QED
  BY <1>1, <1>6

\* So is the full rewrite after the event has taken the slot of the oldest one.
LEMMA RewrittenLog ==
  ASSUME NEW n \in Nat, NEW h, Good(h, n), h.there, h.next \in Slots, Headed(h.file), Mirrors(h),
         NEW r \in Record, r.id = n + 1, h.ring[h.next] # Null
  PROVE  LastLines(Rewritten(Put(h, r))) =
           HL!LastN(Append(LastLines(h.file), r), MaxRecords)
<1>1. PICK p : p = Put(h, r)
  OBVIOUS
<1>2. PICK k \in Slots : k = h.next
  OBVIOUS
<1>3. /\ h \in Histories /\ h.file \in Seq(Line) /\ h.ring \in [Slots -> Record \cup {Null}]
      /\ r \in Line /\ r # Null
  BY LineFacts DEF Good, FileOK, RingOK
<1>4. /\ p.next = Succ(k) /\ p.next \in Slots /\ Good(p, n + 1) /\ n + 1 \in Nat
      /\ \A s \in Slots : p.ring[s] = IF s = k THEN r ELSE h.ring[s]
  <2>1. p.next = Succ(k) /\ p.ring = [h.ring EXCEPT ![k] = r]
    BY <1>1, <1>2, <1>3 DEF Put, Histories
  <2> QED
    BY <1>1, <1>2, <1>3, <2>1, PutGood
<1>5. Full(h) /\ Full(p)
  BY <1>2, <1>3, <1>4, InUseIsFull DEF Full
<1>6. PICK g : g = Rewritten(p)
  OBVIOUS
<1>7. /\ g \in Seq(Line) /\ Len(g) = MaxRecords + 2
      /\ \A i \in 3 .. MaxRecords + 2 :
           \E s \in Slots : Offset(s, Succ(k)) = i - 3 /\ g[i] = p.ring[s]
  BY <1>4, <1>5, <1>6, RewrittenGood DEF FileOK
<1>8. PICK lf \in Nat : lf = Len(h.file)
  BY <1>3, SeqFacts
<1>9. MaxRecords \in Nat \ {0} /\ k \in 0 .. MaxRecords - 1
  BY SizesAssumption DEF Slots
<1>10. lf >= MaxRecords + 2
  <2>1. Offset(k, k) = 0 /\ h.ring[k] # Null
    BY <1>2, OffsetFacts
  <2>2. Place(h, k) > 2
    BY <2>1 DEF Mirrors
  <2>3. Place(h, k) = lf - MaxRecords + 1
    BY <1>2, <1>8, <1>9, <2>1 DEF Place
  <2> QED
    BY <1>9, <2>2, <2>3
<1>11. ASSUME NEW j \in 0 .. MaxRecords - 1
       PROVE  g[MaxRecords + 2 - j] = IF j = 0 THEN r ELSE h.file[lf + 1 - j]
  <2>1. PICK i \in 3 .. MaxRecords + 2 : i = MaxRecords + 2 - j
    BY <1>9
  <2>2. PICK s \in Slots : Offset(s, Succ(k)) = i - 3 /\ g[i] = p.ring[s]
    BY <1>7
  <2>3. /\ Offset(s, Succ(k)) = IF s = k THEN MaxRecords - 1 ELSE Offset(s, k) - 1
        /\ Offset(s, k) \in 0 .. MaxRecords - 1
    BY OffsetFacts DEF Slots
  <2>4. CASE s = k
    <3>1. j = 0
      BY <1>9, <2>1, <2>2, <2>3, <2>4
    <3> QED
      BY <1>4, <2>1, <2>2, <2>4, <3>1
  <2>5. CASE s # k
    <3>1. j # 0 /\ Offset(s, k) = MaxRecords - j
      BY <1>9, <2>1, <2>2, <2>3, <2>5
    <3>2. Place(h, s) = lf + 1 - j /\ Place(h, s) > 2
      BY <1>2, <1>8, <1>9, <1>10, <3>1 DEF Place
    <3>3. p.ring[s] = h.file[lf + 1 - j]
      BY <1>4, <2>5, <3>2 DEF Mirrors
    <3> QED
      BY <2>1, <2>2, <3>1, <3>3
  <2> QED
    BY <2>4, <2>5
<1>a. PICK lg \in Nat : lg = MaxRecords + 2
  BY <1>9
<1>12. Count(lf) = MaxRecords /\ Count(lg) = MaxRecords /\ lf >= 2 /\ lg >= 2
  <2>1. CASE lf = MaxRecords + 2
    BY <1>9, <1>a, <2>1 DEF Count
  <2>2. CASE lf > MaxRecords + 2
    BY <1>9, <1>a, <2>2 DEF Count
  <2> QED
    BY <1>9, <1>10, <2>1, <2>2
<1>13. g[lg] = r
  <2>1. 0 \in 0 .. MaxRecords - 1 /\ MaxRecords + 2 - 0 = lg
    BY <1>9, <1>a
  <2> QED
    BY <1>11, <2>1
<1>14. \A j \in 1 .. Count(lg) - 1 : g[lg - j] = h.file[lf + 1 - j]
  <2> SUFFICES ASSUME NEW j \in 1 .. MaxRecords - 1 PROVE g[lg - j] = h.file[lf + 1 - j]
    BY <1>12
  <2>1. j \in 0 .. MaxRecords - 1 /\ j # 0
    BY <1>9
  <2>2. g[MaxRecords + 2 - j] = h.file[lf + 1 - j]
    BY <1>11, <2>1
  <2>3. lg - j = MaxRecords + 2 - j
    BY <1>9, <1>a
  <2> QED
    BY <2>2, <2>3
<1>b. PICK f : f = h.file
  OBVIOUS
<1>15. LastLines(g) = HL!LastN(Append(LastLines(f), r), MaxRecords)
  <2>1. Count(lg) = IF Count(lf) < MaxRecords THEN Count(lf) + 1 ELSE MaxRecords
    BY <1>9, <1>12
  <2>2. lg = Len(g) /\ lf = Len(f)
    BY <1>7, <1>8, <1>a, <1>b
  <2>3. f \in Seq(Line) /\ g \in Seq(Line) /\ r \in Line
    BY <1>3, <1>7, <1>b
  <2>4. \A i \in 1 .. Count(lg) - 1 : g[lg - i] = f[lf + 1 - i]
    BY <1>14, <1>b
  <2> QED
    BY <1>12, <1>13, <2>1, <2>2, <2>3, <2>4, LogGrows
<1> QED
  BY <1>1, <1>6, <1>15, <1>b

\* update_history_file on a buffer that mirrors the file.
LEMMA UpdateMirrors ==
  ASSUME NEW n \in Nat, NEW h, Good(h, n), NEW r \in Record, r.id = n + 1,
         h.there => Headed(h.file), h.there /\ h.next >= 0 => Mirrors(h)
  PROVE  LET u == UpdateFile(h, r)
             f == IF h.there THEN h.file ELSE Blank
         IN  /\ u.there /\ u.next \in Slots /\ Headed(u.file) /\ Mirrors(u)
             /\ LastLines(u.file) = HL!LastN(Append(LastLines(f), r), MaxRecords)
<1>1. PICK l : l = Loaded(h)
  OBVIOUS
<1>2. PICK f : f = IF h.there THEN h.file ELSE Blank
  OBVIOUS
<1>3. l.there /\ l.file = f /\ Headed(l.file) /\ Mirrors(l) /\ Good(l, n) /\ l.next \in Slots
  BY <1>1, <1>2, LoadedMirrors, LoadedGood
<1>4. PICK p : p = Put(l, r)
  OBVIOUS
<1>5. PICK u : u = UpdateFile(h, r)
  OBVIOUS
<1>6. /\ r \in Line /\ r # Null /\ l.file \in Seq(Line) /\ n + 1 \in Nat /\ l \in Histories
      /\ l.ring \in [Slots -> Record \cup {Null}]
  BY <1>3, LineFacts DEF Good, FileOK, RingOK
<1>7. CASE l.ring[l.next] = Null
  <2>1. u = [p EXCEPT !.file = Append(@, r)]
    BY <1>1, <1>4, <1>5, <1>7 DEF UpdateFile
  <2>2. u.there /\ u.next \in Slots /\ u.file = Append(f, r) /\ Mirrors(u)
    BY <1>3, <1>4, <1>7, <2>1, AppendMirrors DEF Headed
  <2>3. Headed(u.file)
    <3>1. /\ Len(f) \in Nat /\ Len(f) >= 2 /\ Len(u.file) = Len(f) + 1 /\ DOMAIN f = 1 .. Len(f)
          /\ \A i \in DOMAIN f : u.file[i] = f[i]
      BY <1>3, <1>6, <2>2, AppendFacts, SeqFacts DEF Headed
    <3>2. 1 \in DOMAIN f /\ 2 \in DOMAIN f /\ Len(u.file) >= 2
      BY <3>1
    <3> QED
      BY <1>3, <3>1, <3>2 DEF Headed
  <2>4. LastLines(u.file) = HL!LastN(Append(LastLines(f), r), MaxRecords)
    BY <1>3, <1>6, <2>2, AppendLog DEF Headed
  <2> QED
    BY <1>2, <1>5, <2>2, <2>3, <2>4
<1>8. CASE l.ring[l.next] # Null
  <2>1. u = [p EXCEPT !.file = Rewritten(p)]
    BY <1>1, <1>4, <1>5, <1>8 DEF UpdateFile
  <2>2. Good(p, n + 1) /\ p.next \in Slots /\ p.there /\ p.ring = [l.ring EXCEPT ![l.next] = r]
    BY <1>3, <1>4, <1>6, PutGood DEF Put, Histories
  <2>3. Full(p)
    BY <1>3, <1>6, <1>8, <2>2, InUseIsFull DEF Full
  <2>4. /\ u.there /\ u.next \in Slots /\ u.file = Rewritten(p) /\ Headed(u.file) /\ Mirrors(u)
    BY <1>6, <2>1, <2>2, <2>3, RewrittenMirrors
  <2>5. LastLines(u.file) = HL!LastN(Append(LastLines(f), r), MaxRecords)
    BY <1>3, <1>4, <1>8, <2>4, RewrittenLog
  <2> QED
    BY <1>2, <1>5, <2>4, <2>5
<1> QED
  BY <1>7, <1>8

\* And on one that covers it.
LEMMA UpdateCovers ==
  ASSUME NEW n \in Nat, NEW h, Good(h, n), NEW r \in Record, r.id = n + 1,
         h.there /\ h.next >= 0 => Covers(h)
  PROVE  Covers(UpdateFile(h, r))
<1>1. PICK l : l = Loaded(h)
  OBVIOUS
<1>2. l.there /\ Covers(l) /\ Good(l, n) /\ l.next \in Slots
  BY <1>1, LoadedCovers, LoadedGood
<1>3. PICK p : p = Put(l, r)
  OBVIOUS
<1>4. PICK u : u = UpdateFile(h, r)
  OBVIOUS
<1>5. /\ r # Null /\ n + 1 \in Nat /\ l \in Histories /\ l.ring \in [Slots -> Record \cup {Null}]
  BY <1>2, LineFacts DEF Good, RingOK
<1>6. CASE l.ring[l.next] = Null
  <2>1. u = [p EXCEPT !.file = Append(@, r)]
    BY <1>1, <1>3, <1>4, <1>6 DEF UpdateFile
  <2>2. Covers(u)
    BY <1>2, <1>3, <1>6, <2>1, AppendMirrors
  <2> QED
    BY <1>4, <2>2
<1>7. CASE l.ring[l.next] # Null
  <2>1. u = [p EXCEPT !.file = Rewritten(p)]
    BY <1>1, <1>3, <1>4, <1>7 DEF UpdateFile
  <2>2. Good(p, n + 1) /\ p.next \in Slots /\ p.there /\ p.ring = [l.ring EXCEPT ![l.next] = r]
    BY <1>2, <1>3, <1>5, PutGood DEF Put, Histories
  <2>3. Full(p)
    BY <1>2, <1>5, <1>7, <2>2, InUseIsFull DEF Full
  <2>4. /\ Mirrors(u) /\ u.next \in Slots
    BY <1>5, <2>1, <2>2, <2>3, RewrittenMirrors
  <2>5. Good(u, n + 1)
    BY <1>4, UpdateFileGood
  <2> QED
    BY <1>4, <1>5, <2>4, <2>5, MirrorsCovers
<1> QED
  BY <1>6, <1>7
-----------------------------------------------------------------------------
(* The log of the readers.                                                 *)

\* Until something parts them the buffer mirrors the file, which has its header lines.
InStep == exists /\ ~disturbed => Headed(file) /\ (nextline >= 0 => Mirrors(Hist))

\* And it covers the file as long as no event was dropped since it was loaded.
Covered == exists /\ nextline >= 0 /\ ~dropped => Covers(Hist)

LEMMA HistFields ==
  /\ Hist.there = exists /\ Hist.file = file /\ Hist.ring = cache /\ Hist.next = nextline
  BY DEF Hist

\* What a record that becomes the state says of it.
LEMMA BecomeFields ==
  ASSUME NEW h \in Histories, Become(h)
  PROVE  /\ Hist' = h /\ exists' = h.there /\ file' = h.file /\ cache' = h.ring
         /\ nextline' = h.next
<1>1. Hist' = [there |-> h.there, file |-> h.file, ring |-> h.ring, next |-> h.next]
  BY DEF Become, Hist
<1> QED
  BY <1>1 DEF Become, Histories

LEMMA HeadedAppend ==
  ASSUME NEW f \in Seq(Line), Headed(f), NEW r \in Line
  PROVE  Headed(Append(f, r)) /\ Len(f) >= 2
<1>1. PICK len \in Nat : len = Len(f)
  BY SeqFacts
<1>2. PICK g : g = Append(f, r)
  OBVIOUS
<1>3. Len(g) = len + 1 /\ DOMAIN f = 1 .. len /\ \A i \in DOMAIN f : g[i] = f[i]
  BY <1>1, <1>2, AppendFacts, SeqFacts
<1>4. len >= 2 /\ 1 \in DOMAIN f /\ 2 \in DOMAIN f
  BY <1>1, <1>3 DEF Headed
<1>5. Headed(g)
  BY <1>1, <1>3, <1>4 DEF Headed
<1> QED
  BY <1>1, <1>2, <1>4, <1>5

LEMMA BlankLog == LastLines(Blank) = << >>
<1>1. PICK f \in Seq(Line) : f = Blank
  BY BlankFacts
<1>2. PICK len \in Nat : len = 2
  OBVIOUS
<1>3. Len(f) = len
  BY <1>1, <1>2, BlankFacts
<1>4. Count(len) = 0
  BY <1>2, SizesAssumption DEF Count
<1>5. len >= 2
  BY <1>2
<1>6. LastLines(f) \in Seq(Line) /\ Len(LastLines(f)) = 0
  BY <1>3, <1>4, <1>5, LastLinesFacts
<1> QED
  BY <1>1, <1>6, EmptySeq

\* add_uptime_event leaves an intact file as it is, and does not mend another.
LEMMA WriteFirstLineFacts ==
  ASSUME NEW f \in Seq(Line)
  PROVE  /\ Headed(f) => WriteFirstLine(f) = f
         /\ Headed(WriteFirstLine(f)) => Headed(f)
<1>1. CASE f = << >>
  <2>1. Len(f) = 0 /\ WriteFirstLine(f) = <<First>> /\ Len(<<First>>) = 1
    BY <1>1 DEF WriteFirstLine
  <2> QED
    BY <2>1 DEF Headed
<1>2. CASE f # << >> /\ f[1] = First
  BY <1>2 DEF WriteFirstLine
<1>3. CASE f # << >> /\ f[1] # First
  <2>1. WriteFirstLine(f) = <<First, Torn>> \o Tail(f)
    BY <1>3 DEF WriteFirstLine
  <2>2. /\ <<First, Torn>> \in Seq(Line) /\ Len(<<First, Torn>>) = 2 /\ <<First, Torn>>[2] = Torn
        /\ Tail(f) \in Seq(Line)
    BY <1>3, LineFacts, HeadTailProperties, LenProperties, EmptySeq
  <2>3. WriteFirstLine(f)[2] = Torn
    BY <2>1, <2>2, ConcatProperties, LenProperties
  <2> QED
    BY <1>3, <2>3, HeaderFacts DEF Headed
<1> QED
  BY <1>1, <1>2, <1>3

\* An update is one event of the log.
LEMMA UpdateLogs ==
  ASSUME Inv, disturbed = FALSE, disturbed' = FALSE,
         NEW h, Good(h, raised), h.there = exists, h.file = file,
         h.there => Headed(h.file), h.there /\ h.next >= 0 => Mirrors(h),
         NEW r \in Record, r.id = raised + 1, Become(UpdateFile(h, r))
  PROVE  InStep' /\ HL!Next
<1>1. PICK u : u = UpdateFile(h, r)
  OBVIOUS
<1>2. PICK f : f = IF exists THEN file ELSE Blank
  OBVIOUS
<1>3. raised \in Nat /\ raised + 1 \in Nat
  BY DEF Inv
<1>4. /\ u.there /\ u.next \in Slots /\ Headed(u.file) /\ Mirrors(u)
      /\ LastLines(u.file) = HL!LastN(Append(LastLines(f), r), MaxRecords)
  BY <1>1, <1>2, <1>3, UpdateMirrors
<1>5. u \in Histories
  BY <1>1, <1>3, UpdateFileGood DEF Good
<1>6. Hist' = u /\ exists' = u.there /\ file' = u.file
  BY <1>1, <1>5, BecomeFields
<1>7. InStep'
  BY <1>4, <1>6 DEF InStep
<1>8. Log = LastLines(f)
  BY <1>2, BlankLog DEF Log
<1>9. Log' = HL!LastN(Append(Log, r), MaxRecords)
  BY <1>4, <1>6, <1>8 DEF Log
<1> QED
  BY <1>7, <1>9 DEF HL!Next, HL!LogEvent

\* A step that leaves an intact file alone leaves the log alone.
LEMMA SameLogs ==
  ASSUME disturbed = FALSE, disturbed' = FALSE, NEW h \in Histories, Become(h),
         h.there = exists, h.file = file,
         h.there => Headed(h.file), h.there /\ h.next >= 0 => Mirrors(h)
  PROVE  InStep' /\ UNCHANGED Log
<1>1. Hist' = h /\ exists' = exists /\ file' = file /\ nextline' = h.next
  BY BecomeFields
<1>2. InStep'
  BY <1>1 DEF InStep
<1>3. Log' = Log
  BY <1>1 DEF Log
<1> QED
  BY <1>2, <1>3

\* Every step is a step of HistoryLog or leaves the log alone.
LEMMA LogStep == ASSUME Inv, InStep, [Next]_vars PROVE InStep' /\ [HL!Next]_Log
<1> USE HistFields
<1>1. raised \in Nat /\ Good(Hist, raised) /\ Hist \in Histories /\ disturbed \in BOOLEAN
  BY DEF Inv, Good
<1>2. disturbed = TRUE => disturbed' = TRUE
  BY DEF Next, NextMaintained, NextLog, RaiseEvent, AddUptimeEvent, Respawn, Boot, RemoveFile,
         CmdDelete, BootAfterUpdate, RaiseFails, DelHist, vars
<1>3. CASE disturbed' = TRUE
  <2>1. InStep' /\ Log' = << >>
    BY <1>3 DEF InStep, Log
  <2> QED
    BY <2>1 DEF HL!Next, HL!Wipe
<1>4. ASSUME disturbed = FALSE
      PROVE  /\ exists => Headed(file)
             /\ exists /\ nextline >= 0 => Mirrors(Hist)
  BY <1>4 DEF InStep
<1>5. CASE disturbed = FALSE /\ disturbed' = FALSE
  <2>1. CASE RaiseEvent
    <3>1. PICK r \in Record : r.id = raised + 1 /\ Become(UpdateFile(Hist, r))
      <4>1. CanRaise /\ "CRASH" \in Kinds /\ "OTHER" \in Kinds
        BY <2>1 DEF RaiseEvent, Kinds
      <4>2. CASE \E d \in Dirs : Become(UpdateFile(Hist, NewLine("CRASH", d)))
        BY <4>1, <4>2, NewLineFacts
      <4>3. CASE Become(UpdateFile(Hist, NewLine("OTHER", NoDir)))
        BY <4>1, <4>3, NewLineFacts
      <4> QED
        BY <2>1, <4>2, <4>3 DEF RaiseEvent
    <3> QED
      BY <1>1, <1>4, <1>5, <3>1, UpdateLogs
  <2>2. ASSUME NEW due \in BOOLEAN, AddUptimeEvent(due) PROVE InStep' /\ [HL!Next]_Log
    <3>1. PICK h : h = IF ~abortclean /\ dirs # {} THEN Loaded(Hist) ELSE Hist
      OBVIOUS
    <3>2. PICK w : w = [h EXCEPT !.file = WriteFirstLine(@)]
      OBVIOUS
    <3>3. exists /\ (due => CanRaise)
      BY <2>2 DEF AddUptimeEvent
    <3>4. /\ due = TRUE => Become(UpdateFile(w, NewLine("OTHER", NoDir)))
          /\ due = FALSE => Become(w)
      BY <2>2, <3>1, <3>2 DEF AddUptimeEvent
    <3>5. /\ Good(h, raised) /\ h.there = TRUE /\ h.file = file /\ Headed(file)
          /\ h.next >= 0 => Mirrors(h)
      <4>1. CASE ~abortclean /\ dirs # {}
        <5>1. h = Loaded(Hist)
          BY <3>1, <4>1
        <5>2. Hist.there => Headed(Hist.file)
          BY <1>4, <1>5
        <5>3. Hist.there /\ Hist.next >= 0 => Mirrors(Hist)
          BY <1>4, <1>5
        <5>4. h.there /\ h.file = (IF Hist.there THEN Hist.file ELSE Blank) /\ Mirrors(h)
          BY <1>1, <5>1, <5>2, <5>3, LoadedMirrors
        <5>5. Good(h, raised)
          BY <1>1, <5>1, LoadedGood
        <5>6. h.there \in BOOLEAN
          BY <5>5 DEF Good, Histories
        <5> QED
          BY <1>4, <1>5, <3>3, <5>4, <5>5, <5>6
      <4>2. CASE ~(~abortclean /\ dirs # {})
        <5>1. h = Hist
          BY <3>1, <4>2
        <5>2. Hist.there \in BOOLEAN
          BY <1>1 DEF Histories
        <5> QED
          BY <1>1, <1>4, <1>5, <3>3, <5>1, <5>2
      <4> QED
        BY <4>1, <4>2
    <3>6. w = h
      <4>1. h \in Histories /\ h.file \in Seq(Line)
        BY <3>5 DEF Good, Histories
      <4>2. WriteFirstLine(h.file) = h.file
        BY <3>5, <4>1, WriteFirstLineFacts
      <4> QED
        BY <3>2, <4>1, <4>2 DEF Histories
    <3>7. CASE due = TRUE
      <4>1. PICK r \in Record : r.id = raised + 1 /\ Become(UpdateFile(h, r))
        <5>1. "OTHER" \in Kinds
          BY DEF Kinds
        <5> QED
          BY <3>3, <3>4, <3>6, <3>7, <5>1, NewLineFacts
      <4>2. InStep' /\ HL!Next
        BY <1>5, <3>3, <3>5, <4>1, UpdateLogs
      <4> QED
        BY <4>2
    <3>8. CASE due = FALSE
      <4>1. h \in Histories /\ Become(h)
        BY <3>4, <3>5, <3>6, <3>8 DEF Good
      <4>2. InStep' /\ UNCHANGED Log
        BY <1>5, <3>3, <3>5, <4>1, SameLogs
      <4> QED
        BY <4>2
    <3> QED
      BY <3>7, <3>8
  <2>3. Fresh \in Histories /\ Fresh.there = exists /\ Fresh.file = file /\ Fresh.next = -1
    <3>1. NoCache \in [Slots -> Record \cup {Null}]
      BY DEF NoCache
    <3> QED
      BY <1>1, <3>1 DEF Fresh, Histories
  <2>4. CASE Respawn
    <3>1. Become(Fresh) /\ ~(Fresh.next >= 0)
      BY <2>3, <2>4 DEF Respawn
    <3>2. InStep' /\ UNCHANGED Log
      BY <1>4, <1>5, <2>3, <3>1, SameLogs
    <3> QED
      BY <3>2
  <2>5. CASE Boot
    <3>1. PICK r \in Record : Become(UptimeHistory(Fresh, r))
      <4>1. "OTHER" \in Kinds /\ CanRaise
        BY <2>5 DEF Kinds, Boot
      <4> QED
        BY <2>5, <4>1, NewLineFacts DEF Boot
    <3>2. r \in Line /\ file \in Seq(Line)
      BY <1>1, LineFacts DEF Good, FileOK
    <3>3. CASE exists
      <4>1. Headed(file) /\ file # << >> /\ file[1] = First
        <5>1. Headed(file)
          BY <1>4, <1>5, <3>3
        <5>2. Len(file) # 0
          BY <3>2, <5>1, SeqFacts DEF Headed
        <5> QED
          BY <3>2, <5>1, <5>2, EmptySeq DEF Headed
      <4>2. PICK g : g = Append(file, r)
        OBVIOUS
      <4>3. UptimeHistory(Fresh, r) = [Fresh EXCEPT !.file = g]
        BY <2>3, <3>3, <4>1, <4>2 DEF UptimeHistory, Histories
      <4>4. Headed(g) /\ LastLines(g) = HL!LastN(Append(LastLines(file), r), MaxRecords)
        BY <3>2, <4>1, <4>2, HeadedAppend, AppendLog
      <4>5. exists' = exists /\ file' = g /\ nextline' = -1
        BY <2>3, <3>1, <4>3 DEF Become, Histories
      <4>6. InStep'
        BY <4>4, <4>5 DEF InStep
      <4>7. Log' = HL!LastN(Append(Log, r), MaxRecords)
        BY <1>5, <3>3, <4>4, <4>5 DEF Log
      <4> QED
        BY <4>6, <4>7 DEF HL!Next, HL!LogEvent
    <3>4. CASE ~exists
      <4>1. Become(Fresh)
        BY <2>3, <3>1, <3>4 DEF UptimeHistory
      <4>2. InStep' /\ UNCHANGED Log
        BY <1>5, <2>3, <3>4, <4>1, SameLogs
      <4> QED
        BY <4>2
    <3> QED
      BY <3>3, <3>4
  <2>6. CASE RemoveFile
    <3>1. InStep' /\ Log' = << >>
      BY <2>6 DEF RemoveFile, InStep, Log
    <3> QED
      BY <3>1 DEF HL!Next, HL!Wipe
  <2>7. CASE CmdDelete \/ BootAfterUpdate \/ RaiseFails \/ DelHist
    BY <1>5, <2>7 DEF CmdDelete, BootAfterUpdate, RaiseFails, DelHist
  <2>8. CASE UNCHANGED vars
    <3>1. Hist' = Hist /\ UNCHANGED Log
      BY <2>8 DEF vars, Hist, Log, LastLines
    <3> QED
      BY <2>8, <3>1 DEF InStep, vars
  <2> QED
    BY <2>1, <2>2, <2>4, <2>5, <2>6, <2>7, <2>8 DEF Next, NextMaintained, NextLog
<1> QED
  BY <1>1, <1>2, <1>3, <1>5, InvStep DEF Inv

\* What the cleaning relies on, wherever the file was edited, cut or removed in between.
LEMMA CoverStep == ASSUME Inv, Covered, [Next]_vars PROVE Covered'
<1> USE HistFields
<1>1. /\ raised \in Nat /\ raised + 1 \in Nat /\ Good(Hist, raised) /\ Hist \in Histories
      /\ file \in Seq(Line) /\ dropped \in BOOLEAN
  BY DEF Inv, Good, FileOK
<1> SUFFICES ASSUME dropped' = FALSE, exists', nextline' >= 0 PROVE Covers(Hist')
  <2>1. dropped' \in BOOLEAN
    BY InvStep DEF Inv
  <2> QED
    BY <2>1 DEF Covered
<1>2. Fresh \in Histories /\ Fresh.there = exists /\ Fresh.file = file /\ Fresh.next = -1
      /\ Good(Fresh, raised)
  <2>1. NoCache \in [Slots -> Record \cup {Null}]
    BY DEF NoCache
  <2>2. Fresh.next = -1
    BY <1>1, <2>1 DEF Fresh, Histories
  <2> QED
    BY <1>1, <2>2, FreshGood DEF Good
<1>3. CASE RaiseEvent
  <2>1. PICK r \in Record : r.id = raised + 1 /\ Become(UpdateFile(Hist, r))
    <3>1. CanRaise /\ "CRASH" \in Kinds /\ "OTHER" \in Kinds
      BY <1>3 DEF RaiseEvent, Kinds
    <3>2. CASE \E d \in Dirs : Become(UpdateFile(Hist, NewLine("CRASH", d)))
      BY <3>1, <3>2, NewLineFacts
    <3>3. CASE Become(UpdateFile(Hist, NewLine("OTHER", NoDir)))
      BY <3>1, <3>3, NewLineFacts
    <3> QED
      BY <1>3, <3>2, <3>3 DEF RaiseEvent
  <2>2. dropped = FALSE
    BY <1>3 DEF RaiseEvent
  <2>3. Covers(UpdateFile(Hist, r))
    BY <1>1, <2>1, <2>2, UpdateCovers DEF Covered
  <2>4. UpdateFile(Hist, r) \in Histories
    BY <1>1, <2>1, UpdateFileGood DEF Good
  <2> QED
    BY <2>1, <2>3, <2>4, BecomeFields
<1>4. ASSUME NEW due \in BOOLEAN, AddUptimeEvent(due) PROVE Covers(Hist')
  <2>1. PICK h : h = IF ~abortclean /\ dirs # {} THEN Loaded(Hist) ELSE Hist
    OBVIOUS
  <2>2. PICK w : w = [h EXCEPT !.file = WriteFirstLine(@)]
    OBVIOUS
  <2>3. exists /\ (due => CanRaise) /\ dropped = FALSE
    BY <1>4 DEF AddUptimeEvent
  <2>4. /\ due = TRUE => Become(UpdateFile(w, NewLine("OTHER", NoDir)))
        /\ due = FALSE => Become(w)
    BY <1>4, <2>1, <2>2 DEF AddUptimeEvent
  <2>5. Good(h, raised) /\ h.there /\ (h.next >= 0 => Covers(h))
    <3>1. CASE ~abortclean /\ dirs # {}
      <4>1. h = Loaded(Hist)
        BY <2>1, <3>1
      <4> QED
        BY <1>1, <2>3, <4>1, LoadedCovers, LoadedGood DEF Covered
    <3>2. CASE ~(~abortclean /\ dirs # {})
      BY <1>1, <2>1, <2>3, <3>2 DEF Covered
    <3> QED
      BY <3>1, <3>2
  <2>6. h \in Histories /\ h.file \in Seq(Line) /\ FileOK(WriteFirstLine(h.file), raised)
    BY <1>1, <2>5, WriteFirstLineOK DEF Good, Histories
  <2>7. /\ w.file = WriteFirstLine(h.file) /\ w.ring = h.ring /\ w.next = h.next
        /\ Good(w, raised) /\ w.there
    <3>1. w = [h EXCEPT !.file = WriteFirstLine(h.file)]
      BY <2>2
    <3>2. w.file = WriteFirstLine(h.file)
      BY <2>6, <3>1 DEF Histories
    <3> QED
      BY <1>1, <2>5, <2>6, <3>1, <3>2, WithFile
  <2>8. w.next >= 0 => Covers(w)
    <3> SUFFICES ASSUME w.next >= 0, Headed(w.file) PROVE Covers(w)
      BY DEF Covers
    <3>1. w.file = h.file /\ Covers(h)
      BY <2>5, <2>6, <2>7, WriteFirstLineFacts
    <3> QED
      BY <2>7, <3>1 DEF Covers
  <2>9. CASE due = TRUE
    <3>1. PICK r \in Record : r.id = raised + 1 /\ Become(UpdateFile(w, r))
      <4>1. "OTHER" \in Kinds
        BY DEF Kinds
      <4> QED
        BY <2>3, <2>4, <2>9, <4>1, NewLineFacts
    <3>2. Covers(UpdateFile(w, r))
      BY <1>1, <2>7, <2>8, <3>1, UpdateCovers
    <3>3. UpdateFile(w, r) \in Histories
      BY <1>1, <2>7, <3>1, UpdateFileGood DEF Good
    <3> QED
      BY <3>1, <3>2, <3>3, BecomeFields
  <2>10. CASE due = FALSE
    <3>1. w \in Histories /\ Become(w)
      BY <2>4, <2>7, <2>10 DEF Good
    <3>2. Hist' = w /\ nextline' = w.next
      BY <3>1, BecomeFields
    <3> QED
      BY <2>8, <3>2
  <2> QED
    BY <2>9, <2>10
<1>5. CASE CmdDelete
  <2>1. PICK ids : file' = Marked(file, ids)
    BY <1>5 DEF CmdDelete
  <2>2. UNCHANGED <<exists, cache, nextline, dropped>> /\ exists
    BY <1>5 DEF CmdDelete
  <2>3. Covers(Hist)
    BY <2>2 DEF Covered
  <2>4. DOMAIN file' = DOMAIN file /\ Len(file') = Len(file) /\ DOMAIN file = 1 .. Len(file)
        /\ Len(file) \in Nat
    <3>1. DOMAIN file' = DOMAIN file
      BY <2>1 DEF Marked
    <3>2. Len(file') = Len(file)
      BY <1>1, <2>1, MarkedOK DEF Good
    <3> QED
      BY <1>1, <3>1, <3>2, SeqFacts
  <2>5. ASSUME NEW i \in DOMAIN file
        PROVE  /\ file'[i].kind \in {"CRASH", "FIRST", "TITLE"} => file'[i] = file[i]
    <3>1. file'[i] = IF file[i].kind = "CRASH" /\ file[i].id \in ids
                     THEN [file[i] EXCEPT !.kind = "DELETE"] ELSE file[i]
      BY <2>1 DEF Marked
    <3>2. CASE file[i].kind = "CRASH"
      <4>1. file[i] \in Line
        BY <1>1, SeqFacts
      <4>2. file[i] \in Record
        BY <3>2, <4>1, HeaderFacts DEF Line
      <4>3. [file[i] EXCEPT !.kind = "DELETE"].kind = "DELETE"
        BY <4>2 DEF Record
      <4> QED
        BY <3>1, <4>3
    <3> QED
      BY <3>1, <3>2
  <2> SUFFICES ASSUME Headed(file') PROVE Covers(Hist')
    BY DEF Covers, Hist
  <2>6. Headed(file)
    <3>1. 1 \in DOMAIN file /\ 2 \in DOMAIN file /\ Len(file) >= 2
      BY <2>4 DEF Headed
    <3>2. file'[1].kind = "FIRST" /\ file'[2].kind = "TITLE"
      BY DEF Headed, First, Title, Header
    <3> QED
      BY <2>5, <3>1, <3>2 DEF Headed
  <2>7. ASSUME NEW i \in DOMAIN file', i > Len(file') - MaxRecords, file'[i].kind = "CRASH"
        PROVE  \E s \in Slots : cache'[s] # Null /\ cache'[s].dir = file'[i].dir
    <3>1. i \in DOMAIN file /\ file'[i] = file[i] /\ i > Len(file) - MaxRecords
      BY <2>4, <2>5, <2>7
    <3>2. \E s \in Slots : cache[s] # Null /\ cache[s].dir = file[i].dir
      BY <2>3, <2>6, <2>7, <3>1 DEF Covers
    <3> QED
      BY <2>2, <3>1, <3>2
  <2> QED
    BY <2>7 DEF Covers, Hist
<1>6. CASE Respawn
  <2>1. nextline' = -1
    BY <1>2, <1>6, BecomeFields DEF Respawn
  <2> QED
    BY <2>1
<1>7. CASE Boot
  <2>1. Become(UptimeHistory(Fresh, NewLine("OTHER", NoDir)))
    BY <1>7 DEF Boot
  <2>2. UptimeHistory(Fresh, NewLine("OTHER", NoDir)).next = -1
    BY <1>2 DEF UptimeHistory, Histories
  <2>3. nextline' = -1
    BY <2>1, <2>2 DEF Become
  <2> QED
    BY <2>3
<1>8. CASE BootAfterUpdate
  <2>1. PICK h : h = ResetUptimeHistory(Fresh)
    OBVIOUS
  <2>2. Good(h, raised) /\ h \in Histories
    BY <1>1, <1>2, <2>1, ResetUptimeHistoryGood DEF Good
  <2>3. PICK l : l = CacheHistoryFile(Fresh)
    OBVIOUS
  <2>4. h = [l EXCEPT !.there = TRUE, !.file = Blank] /\ l \in Histories
    BY <1>1, <1>2, <2>1, <2>3, CacheHistoryFileGood DEF ResetUptimeHistory, Good
  <2>5. h.file = Blank
    BY <2>4 DEF Histories
  <2>6. Hist' = h
    BY <1>8, <2>1, <2>2, BecomeFields DEF BootAfterUpdate
  <2>7. \A i \in DOMAIN Blank : Blank[i].kind # "CRASH"
    BY HeaderFacts DEF Blank
  <2> QED
    BY <2>5, <2>6, <2>7 DEF Covers
<1>9. CASE RemoveFile
  BY <1>9 DEF RemoveFile
<1>10. CASE DelHist
  <2>1. ~Headed(file')
    <3>1. CASE file = << >>
      BY <1>10, <3>1 DEF DelHist, Headed
    <3>2. CASE file # << >>
      <4>1. file' = <<file[1]>> /\ Len(<<file[1]>>) = 1
        BY <1>10, <3>2 DEF DelHist
      <4> QED
        BY <4>1 DEF Headed
    <3> QED
      BY <3>1, <3>2
  <2> QED
    BY <2>1 DEF Covers, Hist
<1>11. CASE RaiseFails
  BY <1>11 DEF RaiseFails
<1>12. CASE UNCHANGED vars
  <2>1. Hist' = Hist
    BY <1>12 DEF vars, Hist
  <2>2. exists /\ nextline >= 0 /\ ~dropped
    BY <1>12 DEF vars
  <2>3. Covers(Hist)
    BY <2>2 DEF Covered
  <2> QED
    BY <2>1, <2>3
<1> QED
  BY <1>3, <1>4, <1>5, <1>6, <1>7, <1>8, <1>9, <1>10, <1>11, <1>12 DEF Next, NextMaintained, NextLog

\* The whole invariant, with what the log and the cleaning need.
IInv == Inv /\ InStep /\ Covered

THEOREM LogInvariance == Spec => []IInv
<1>1. Init => IInv
  <2>1. Init => InStep /\ Covered
    BY DEF Init, InStep, Covered
  <2> QED
    BY <2>1, InitInv DEF IInv
<1>2. IInv /\ [Next]_vars => IInv'
  BY InvStep, LogStep, CoverStep DEF IInv
<1> QED
  BY <1>1, <1>2, PTL DEF Spec
-----------------------------------------------------------------------------
(* What the runs check on small instances.                                 *)

\* Every variable keeps its type under all the operations and failures of Spec; in
\* particular nextline stays a slot of historycache.
THEOREM TypeCorrect == Spec => []TypeOK
  <1>1. Inv => TypeOK
    BY DEF Inv, Good, Hist, Histories, TypeOK
  <1>2. QED
    BY <1>1, Invariance, PTL

\* update_history_file never dereferences an empty slot of historycache.
THEOREM RewriteIsSafe == Spec => []RewriteSafe
  <1>1. ASSUME Inv PROVE RewriteSafe
    <2>1. SUFFICES ASSUME nextline >= 0, cache[nextline] # Null
                   PROVE  \A s \in Slots : cache[s] # Null
      BY DEF RewriteSafe
    <2>2. Good(Hist, raised) /\ raised \in Nat /\ nextline \in Slots
      BY <1>1, <2>1, SizesAssumption DEF Inv, Good, Hist, Histories
    <2>3. Hist.next = nextline /\ Hist.ring = cache
      BY DEF Hist
    <2>4. Full(Hist)
      BY <2>1, <2>2, <2>3, InUseIsFull
    <2>5. QED
      BY <2>3, <2>4 DEF Full
  <1>2. QED
    BY <1>1, Invariance, PTL

\* The events of the history file are in the order they were raised, none twice,
\* whatever fails and wherever the daemon stops.
THEOREM FileIsChronological == Spec => []Chronological
  <1>1. Inv => Chronological
    BY DEF Inv, Good, Hist, FileOK, Chronological
  <1>2. QED
    BY <1>1, Invariance, PTL

\* Until a deletion, an update of the software, a failure or an edit of the file, whatever restarts
\* the daemon or removes the file, /logs/history_event is the bounded log of HistoryLog: the buffer
\* that a full rewrite writes from never lags behind the file.
THEOREM HistoryIsALog == Spec => ImplementsLog
<1>1. Init => HL!Init
  BY DEF Init, HL!Init, Log
<1>2. IInv /\ [Next]_vars => [HL!Next]_Log
  BY LogStep DEF IInv
<1> QED
  BY <1>1, <1>2, LogInvariance, PTL DEF Spec, ImplementsLog, HL!Spec

\* The cleaning done at an uptime event never removes the folder of a crash that the file still
\* lists, whatever was deleted, cut, removed or restarted before.
THEOREM CleaningKeepsListed == Spec => CleanKeepsListed
<1> USE HistFields
<1>1. ASSUME IInv, NEW due \in BOOLEAN, AddUptimeEvent(due), HeaderIntact, ~dropped
      PROVE  \A d \in dirs \ dirs' : ~Lists(file, d)
  <2>1. PICK h : h = IF ~abortclean /\ dirs # {} THEN Loaded(Hist) ELSE Hist
    OBVIOUS
  <2>2. exists /\ Headed(file) /\ raised \in Nat /\ Good(Hist, raised)
    BY <1>1 DEF AddUptimeEvent, HeaderIntact, Headed, IInv, Inv
  <2>3. PICK legacy : legacy = IF ~abortclean /\ dirs # {}
                               THEN {d \in dirs : ~HasEvent(h.ring, d)} ELSE {}
    OBVIOUS
  <2>4. PICK gone \in SUBSET legacy : dirs' = dirs \ gone
    BY <1>1, <2>1, <2>3 DEF AddUptimeEvent
  <2> SUFFICES ASSUME NEW d \in gone, Lists(file, d) PROVE FALSE
    BY <2>4
  <2>5. ~abortclean /\ dirs # {} /\ ~HasEvent(h.ring, d) /\ h = Loaded(Hist)
    BY <2>1, <2>3, <2>4
  <2>6. h.file = file /\ Covers(h)
    BY <1>1, <2>2, <2>5, LoadedCovers DEF IInv, Covered
  <2>7. PICK i \in DOMAIN file :
               i > Len(file) - MaxRecords /\ file[i].kind = "CRASH" /\ file[i].dir = d
    BY DEF Lists
  <2>8. \E s \in Slots : h.ring[s] # Null /\ h.ring[s].dir = d
    BY <2>2, <2>6, <2>7 DEF Covers
  <2> QED
    BY <2>5, <2>8 DEF HasEvent
<1>2. IInv /\ [Next]_vars =>
        [(\E due \in BOOLEAN : AddUptimeEvent(due)) /\ HeaderIntact /\ ~dropped
           => \A d \in dirs \ dirs' : ~Lists(file, d)]_vars
  BY <1>1
<1> QED
  BY <1>2, LogInvariance, PTL DEF Spec, CleanKeepsListed
=============================================================================
