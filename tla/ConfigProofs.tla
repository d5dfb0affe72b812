---------------------------- MODULE ConfigProofs ----------------------------
(***************************************************************************)
(* Proofs about Config, for every set of files, paths and patterns.        *)
(*                                                                         *)
(* While the file is read, the list of sections is the heads of the lines  *)
(* that were read, in their order, each with the values that the lines     *)
(* behind it give (Parse): there is a growing function from the sections   *)
(* to the heads.  So the sections that the cursor finds are lines of the   *)
(* file, whatever it was on before: the settings looked for so far are as  *)
(* written (Setting), and the configurations are those of the sections     *)
(* before the one the cursor is on (Taken, Storing).  When the handle is   *)
(* freed, no state but the text and what was taken from it is left.        *)
(*                                                                         *)
(* The watches of the configurations are those of one call for each path   *)
(* (Watches); two with the same path have the same watch, or both none.    *)
(* Each event of a directory that is watched was told as Tellers says, and *)
(* they all are the first configuration with a pattern of the name         *)
(* (Answers).                                                              *)
(***************************************************************************)
EXTENDS Config, SequenceTheorems, WellFoundedInduction, FiniteSetTheorems, TLAPS

\* What a value, a name or an event may be, with the ones the program adds.
Words == STRING \cup {Undefined, None, "left over", "CRASH", "ERROR", "INFO"}

Keyed    == Words \X Words
Parsed   == [name : Words \X Words, kvs : Seq(Keyed)]
Made     == [event : Words, pattern : Words, dir : BOOLEAN, path : Words, linked : Words,
             class : Words]
Copies   == Seq([from : Paths \cup Words, pattern : Words])
Told     == [by : Nat, event : Words, class : Words, ready : BOOLEAN, copies : Copies]
Seen     == [dir : Paths, name : SUBSET Patterns, plain : BOOLEAN, told : Seq(Told)]
Phases   == {"read", "general", "patterns", "loaded", "watching"}

Typing ==
  /\ text \in Seq(Line) /\ pos \in Nat /\ sections \in Seq(Parsed) /\ current \in 0 .. Len(sections)
  /\ phase \in Phases /\ configs \in Seq(Made) /\ reports \in Seq(Seen)

\* The watches are those of one call for each configuration that has a path.
Set(failing) ==
  /\ wds \in [DOMAIN configs -> Paths \cup {None}]
  /\ \A c \in DOMAIN configs : wds[c] \in Watched(c, failing)
Watches == IF phase = "watching" THEN \E failing \in SUBSET Paths : Set(failing) ELSE reports = << >>

\* What is told of an event e.
Matched(e) ==
  /\ e.dir \in Paths /\ \E d \in DOMAIN configs : wds[d] = e.dir /\ configs[d].path = e.dir
  /\ e.plain => Len(e.told) = 0
  /\ ~e.plain => \E row \in BOOLEAN :
       /\ Len(e.told) = Len(Tellers(e.dir, e.name, row))
       /\ \A k \in 1 .. Len(e.told) : e.told[k].by = Tellers(e.dir, e.name, row)[k]
Answers == \A i \in DOMAIN reports : Matched(reports[i])

Inv == Typing /\ Watches /\ Answers
-----------------------------------------------------------------------------
(* Sequences.                                                              *)

LEMMA SeqFacts ==
  ASSUME NEW S, NEW s \in Seq(S)
  PROVE  Len(s) \in Nat /\ DOMAIN s = 1 .. Len(s) /\ \A i \in DOMAIN s : s[i] \in S
  BY LenProperties, ElementOfSeq

LEMMA AppendFacts ==
  ASSUME NEW S, NEW s \in Seq(S), NEW e \in S
  PROVE  /\ Append(s, e) \in Seq(S)
         /\ Len(Append(s, e)) = Len(s) + 1 /\ DOMAIN Append(s, e) = 1 .. Len(s) + 1
         /\ \A i \in DOMAIN s : Append(s, e)[i] = s[i]
         /\ Append(s, e)[Len(s) + 1] = e
  BY AppendProperties, LenProperties
-----------------------------------------------------------------------------
\* A set of numbers has a least one; the relation < of the naturals is well-founded.
LEMMA Least ==
  ASSUME NEW S \in SUBSET Nat, S # {}
  PROVE  \E n \in S : \A m \in S : n <= m
  <1>1. PICK n \in S : \A m \in S : ~ (<<m, n>> \in OpToRel(<, Nat))
    BY Zenon, NatLessThanWellFounded, WFMin
  <1>2. \A m \in S : ~ (m < n)
    BY <1>1 DEF OpToRel
  <1>3. QED
    BY <1>2

\* The one that CHOOSE takes.
LEMMA Chosen ==
  ASSUME NEW S \in SUBSET Nat, S # {}
  PROVE  LET n == CHOOSE i \in S : \A j \in S : i <= j
         IN  n \in S /\ \A j \in S : n <= j
  BY Least
-----------------------------------------------------------------------------
LEMMA FindFacts ==
  ASSUME Typing, NEW n
  PROVE  /\ FindSection(current, n) \in 0 .. Len(sections)
         /\ FindSection(current, n) # 0 => sections[FindSection(current, n)].name = n
         /\ FindSection(current, n) = 0 => \A s \in DOMAIN sections : sections[s].name # n
  <1> DEFINE with == {j \in 1 .. Len(sections) : sections[j].name = n}
  <1>0. Len(sections) \in Nat
    BY SeqFacts DEF Typing
  <1>1. CASE current # 0 /\ sections[current].name = n
    BY <1>1 DEF FindSection, Typing
  <1>2. CASE ~ (current # 0 /\ sections[current].name = n)
    <2>1. FindSection(current, n) =
            IF with = {} THEN 0 ELSE CHOOSE j \in with : \A k \in with : j <= k
      BY <1>2 DEF FindSection, FirstFrom
    <2>2. with \in SUBSET Nat
      BY <1>0
    <2>3. CASE with = {}
      BY <1>0, <2>1, <2>3
    <2>4. CASE with # {}
      <3>1. FindSection(current, n) \in with
        BY <2>1, <2>2, <2>4, Chosen
      <3>2. QED
        BY <1>0, <3>1
    <2>5. QED
      BY <2>3, <2>4
  <1>3. QED
    BY <1>1, <1>2

LEMMA BaseFacts ==
  ASSUME Typing, NEW i \in Nat \ {0}
  PROVE  FirstFrom(i, IsBase) \in 0 .. Len(sections)
  <1> DEFINE with == {j \in i .. Len(sections) : IsBase(sections[j].name)}
  <1>0. Len(sections) \in Nat
    BY SeqFacts DEF Typing
  <1>1. FirstFrom(i, IsBase) = IF with = {} THEN 0 ELSE CHOOSE j \in with : \A k \in with : j <= k
    BY DEF FirstFrom
  <1>2. with \in SUBSET Nat
    BY <1>0
  <1>3. CASE with = {}
    BY <1>0, <1>1, <1>3
  <1>4. CASE with # {}
    <2>1. FirstFrom(i, IsBase) \in with
      BY <1>1, <1>2, <1>4, Chosen
    <2>2. QED
      BY <1>0, <2>1
  <1>5. QED
    BY <1>3, <1>4

LEMMA ValueFacts ==
  ASSUME Typing, NEW s \in 0 .. Len(sections), NEW key
  PROVE  ValueIn(s, key) \in Words
  <1>1. CASE s = 0
    BY <1>1 DEF ValueIn, Words
  <1>2. CASE s # 0
    <2> DEFINE kvs  == sections[s].kvs
               with == {i \in DOMAIN kvs : kvs[i][1] = key}
    <2>0. Len(sections) \in Nat /\ s \in DOMAIN sections
      BY <1>2, SeqFacts DEF Typing
    <2>1. sections[s] \in Parsed
      BY <2>0, SeqFacts DEF Typing
    <2>2. kvs \in Seq(Keyed)
      BY <2>1 DEF Parsed
    <2>3. DOMAIN kvs \in SUBSET Nat /\ \A i \in DOMAIN kvs : kvs[i] \in Keyed
      BY <2>2, SeqFacts
    <2>4. ValueIn(s, key) = IF with = {} THEN Undefined
                            ELSE kvs[CHOOSE i \in with : \A j \in with : i <= j][2]
      BY <1>2 DEF ValueIn
    <2>5. CASE with = {}
      BY <2>4, <2>5 DEF Words
    <2>6. CASE with # {}
      <3>1. with \in SUBSET Nat
        BY <2>3
      <3>2. PICK i \in with : ValueIn(s, key) = kvs[i][2]
        BY <2>4, <2>6, <3>1, Chosen
      <3>3. kvs[i] \in Keyed
        BY <2>3
      <3>4. QED
        BY <3>2, <3>3 DEF Keyed
    <2>7. QED
      BY <2>5, <2>6
  <1>3. QED
    BY <1>1, <1>2

LEMMA StoredFacts ==
  ASSUME Typing, NEW s \in 0 .. Len(sections), NEW c \in Stored(s)
  PROVE  c \in Made
  <1>1. /\ ValueIn(s, "eventname") \in Words /\ ValueIn(s, "matching_pattern") \in Words
        /\ ValueIn(s, "path_trigger") \in Words /\ ValueOr(s, "path_linked", None) \in Words
    BY ValueFacts DEF ValueOr, Words
  <1>2. Class(ValueOr(s, "event_class", "CRASH")) \in Words
    BY DEF Class, Words
  <1>3. IsDir(ValueOr(s, "type", "file")) \in BOOLEAN
    BY DEF IsDir
  <1>4. PICK path \in Words :
          c = [event |-> ValueIn(s, "eventname"), pattern |-> ValueIn(s, "matching_pattern"),
               dir |-> IsDir(ValueOr(s, "type", "file")), path |-> path,
               linked |-> ValueOr(s, "path_linked", None),
               class |-> Class(ValueOr(s, "event_class", "CRASH"))]
    <2>1. PICK path \in IF ValueIn(s, "path_trigger") = Undefined THEN {None, "left over"}
                        ELSE {ValueIn(s, "path_trigger")} :
            c = [event |-> ValueIn(s, "eventname"), pattern |-> ValueIn(s, "matching_pattern"),
                 dir |-> IsDir(ValueOr(s, "type", "file")), path |-> path,
                 linked |-> ValueOr(s, "path_linked", None),
                 class |-> Class(ValueOr(s, "event_class", "CRASH"))]
      BY Zenon DEF Stored
    <2>2. path \in Words
      BY <1>1, <2>1 DEF Words
    <2>3. QED
      BY <2>1, <2>2
  <1>5. QED
    BY <1>1, <1>2, <1>3, <1>4 DEF Made

LEMMA MatchFacts ==
  ASSUME Typing, NEW name
  PROVE  LET with == {c \in DOMAIN configs : configs[c].pattern \in name}
         IN  /\ GenericConfig(name) \in Nat
             /\ with = {} => GenericConfig(name) = 0
             /\ with # {} => GenericConfig(name) \in with /\ GenericConfig(name) # 0
  <1> DEFINE with == {c \in DOMAIN configs : configs[c].pattern \in name}
  <1>0. DOMAIN configs = 1 .. Len(configs) /\ Len(configs) \in Nat
    BY SeqFacts DEF Typing
  <1>1. GenericConfig(name) = IF with = {} THEN 0 ELSE CHOOSE c \in with : \A d \in with : c <= d
    BY DEF GenericConfig
  <1>2. with \in SUBSET Nat /\ 0 \notin with
    BY <1>0
  <1>3. CASE with = {}
    BY <1>1, <1>3
  <1>4. CASE with # {}
    <2>1. GenericConfig(name) \in with
      BY <1>1, <1>2, <1>4, Chosen
    <2>2. QED
      BY <1>2, <1>4, <2>1
  <1>5. QED
    BY <1>3, <1>4

\* GenericConfig is the first of them.
LEMMA FirstMatch ==
  ASSUME Typing, NEW name, NEW d \in DOMAIN configs, configs[d].pattern \in name
  PROVE  GenericConfig(name) <= d
  <1> DEFINE with == {c \in DOMAIN configs : configs[c].pattern \in name}
  <1>1. with \in SUBSET Nat /\ with # {} /\ d \in with
    BY SeqFacts DEF Typing
  <1>2. GenericConfig(name) = CHOOSE c \in with : \A x \in with : c <= x
    BY <1>1 DEF GenericConfig
  <1>3. QED
    BY <1>1, <1>2, Chosen

LEMMA LinkedFacts ==
  ASSUME Typing, NEW c \in DOMAIN configs
  PROVE  Linked(c) \in Copies
  <1> DEFINE from == configs[c].linked
             with == {d \in DOMAIN configs : configs[d].path \in Inside[from]}
             l    == IF from = None THEN 0 ELSE ConfigByPath(from)
  <1>0. /\ DOMAIN configs = 1 .. Len(configs) /\ Len(configs) \in Nat
        /\ \A d \in DOMAIN configs : configs[d] \in Made
    BY SeqFacts DEF Typing
  <1>1. ASSUME l # 0
        PROVE  l \in DOMAIN configs /\ from \in Paths
    <2>1. ConfigByPath(from) # 0
      BY <1>1
    <2>2. from \in Paths /\ with # {}
      BY <2>1 DEF ConfigByPath
    <2>3. ConfigByPath(from) = CHOOSE d \in with : \A e \in with : d <= e
      BY <2>2 DEF ConfigByPath
    <2>4. with \in SUBSET Nat
      BY <1>0
    <2>5. ConfigByPath(from) \in with
      BY <2>2, <2>3, <2>4, Chosen
    <2>6. QED
      BY <1>1, <2>2, <2>5
  <1>2. CASE Linked(c) = << >>
    BY <1>2 DEF Copies
  <1>3. CASE Linked(c) # << >>
    <2>1. l # 0 /\ Linked(c) = <<[from |-> from, pattern |-> configs[l].pattern]>>
      BY <1>3 DEF Linked
    <2>2. configs[l] \in Made /\ from \in Paths
      BY <1>0, <1>1, <2>1
    <2>3. [from |-> from, pattern |-> configs[l].pattern] \in [from : Paths \cup Words, pattern : Words]
      BY <2>2 DEF Made
    <2>4. QED
      BY <2>1, <2>3 DEF Copies
  <1>4. QED
    BY <1>2, <1>3

LEMMA ReportFacts ==
  ASSUME Typing, NEW dir \in Paths, NEW found \in BOOLEAN, NEW c \in DOMAIN configs
  PROVE  Report(c, dir, found) \in Told /\ Report(c, dir, found).by = c
  <1> DEFINE r == Report(c, dir, found)
             own == [from |-> dir, pattern |-> configs[c].pattern]
  <1>1. configs[c] \in Made /\ c \in Nat
    BY SeqFacts DEF Typing
  <1>2. Linked(c) \in Copies
    BY LinkedFacts
  <1>3. own \in [from : Paths \cup Words, pattern : Words]
    BY <1>1 DEF Made
  <1>4. <<own>> \in Copies
    BY <1>3 DEF Copies
  <1>5. <<own>> \o Linked(c) \in Copies
    BY <1>2, <1>4, ConcatProperties DEF Copies
  <1>6. << >> \in Copies
    BY DEF Copies
  <1>7. r.copies \in Copies
    BY <1>5, <1>6 DEF Report
  <1>8. r.class \in Words /\ r.ready \in BOOLEAN
    BY <1>1 DEF Report, Made, Words
  <1>9. QED
    BY <1>1, <1>7, <1>8 DEF Report, Told, Made

\* All that tell of an event are one configuration, the second time by its own watch.
LEMMA TellersFacts ==
  ASSUME Typing, NEW dir, NEW name, NEW row \in BOOLEAN
  PROVE  LET t == Tellers(dir, name, row)
             g == GenericConfig(name)
         IN  /\ Len(t) \in 0 .. 2 /\ DOMAIN t = 1 .. Len(t)
             /\ \A k \in 1 .. Len(t) : t[k] = g /\ g # 0 /\ g \in DOMAIN configs
             /\ Len(t) = 0 => g = 0 \/ wds[g] # dir
             /\ Len(t) # 0 /\ dir # ModemDir => Len(t) = 1 /\ wds[g] = dir
             /\ Len(t) = 2 => dir = ModemDir /\ wds[g] = dir
  <1>0. PICK g : g = GenericConfig(name)
    OBVIOUS
  <1>1. g # 0 => g \in DOMAIN configs
    BY <1>0, MatchFacts
  <1>2. PICK a \in {0, g}, b \in {0, g} :
          /\ Tellers(dir, name, row) = One(a) \o One(b)
          /\ a = IF row /\ dir = ModemDir THEN g ELSE 0
          /\ b = IF g # 0 /\ wds[g] = dir THEN g ELSE 0
    BY <1>0 DEF Tellers, MatchByWd
  <1>3. PICK t : t = Tellers(dir, name, row)
    OBVIOUS
  <1>4. /\ Len(t) \in 0 .. 2 /\ DOMAIN t = 1 .. Len(t)
        /\ \A k \in 1 .. Len(t) : t[k] = g /\ g # 0
        /\ Len(t) = 0 => b = 0
        /\ Len(t) # 0 /\ a = 0 => Len(t) = 1 /\ b # 0
        /\ Len(t) = 2 => a # 0 /\ b # 0
    <2>1. CASE a = 0 /\ b = 0
      <3>1. t = << >>
        BY <1>2, <1>3, <2>1 DEF One
      <3>2. QED
        BY <2>1, <3>1
    <2>2. CASE (a = 0) # (b = 0)
      <3>1. t = <<g>> /\ g # 0
        <4>1. << >> \o <<g>> = <<g>> /\ <<g>> \o << >> = <<g>>
          OBVIOUS
        <4>2. CASE a = 0
          <5>1. b = g /\ g # 0
            BY <1>2, <2>2, <4>2
          <5>2. One(a) = << >> /\ One(b) = <<g>>
            BY <4>2, <5>1 DEF One
          <5>3. QED
            BY <1>2, <1>3, <4>1, <5>1, <5>2
        <4>3. CASE a # 0
          <5>1. a = g /\ g # 0 /\ b = 0
            BY <1>2, <2>2, <4>3
          <5>2. One(a) = <<g>> /\ One(b) = << >>
            BY <5>1 DEF One
          <5>3. QED
            BY <1>2, <1>3, <4>1, <5>1, <5>2
        <4>4. QED
          BY <4>2, <4>3
      <3>2. Len(t) = 1 /\ DOMAIN t = 1 .. 1 /\ t[1] = g
        BY <3>1
      <3>3. QED
        BY <2>2, <3>1, <3>2
    <2>3. CASE a # 0 /\ b # 0
      <3>1. t = <<g>> \o <<g>> /\ g # 0
        <4>1. a = g /\ b = g /\ g # 0
          BY <1>2, <2>3
        <4>2. One(a) = <<g>> /\ One(b) = <<g>>
          BY <4>1 DEF One
        <4>3. QED
          BY <1>2, <1>3, <4>1, <4>2
      <3>2. <<g>> \in Seq({g}) /\ Len(<<g>>) = 1 /\ <<g>>[1] = g
        OBVIOUS
      <3>3. t \in Seq({g}) /\ Len(t) = 2
        BY <3>1, <3>2, ConcatProperties
      <3>4. DOMAIN t = 1 .. Len(t) /\ \A k \in 1 .. Len(t) : t[k] = g
        BY <3>3, SeqFacts
      <3>5. QED
        BY <2>3, <3>1, <3>3, <3>4
    <2>4. QED
      BY <2>1, <2>2, <2>3
  <1>5. QED
    BY <1>0, <1>1, <1>2, <1>3, <1>4

\* What Appears adds.
LEMMA AppearsFacts ==
  ASSUME Typing, Watches, Appears
  PROVE  \E e \in Seen : reports' = Append(reports, e) /\ Matched(e)
  <1>1. PICK dir \in {wds[c] : c \in {d \in DOMAIN wds : configs[d].path = wds[d]}} \ {None},
             name \in SUBSET Patterns, plain \in BOOLEAN, row \in BOOLEAN,
             found \in [1 .. 2 -> BOOLEAN] :
          LET by == IF plain THEN << >> ELSE Tellers(dir, name, row)
          IN  reports' = Append(reports,
                [dir |-> dir, name |-> name, plain |-> plain,
                 told |-> [k \in 1 .. Len(by) |-> Report(by[k], dir, found[k])]])
    BY DEF Appears
  <1> DEFINE by   == IF plain THEN << >> ELSE Tellers(dir, name, row)
             told == [k \in 1 .. Len(by) |-> Report(by[k], dir, found[k])]
             e    == [dir |-> dir, name |-> name, plain |-> plain, told |-> told]
  <1>2. PICK failing \in SUBSET Paths : Set(failing)
    BY DEF Appears, Watches
  <1>3. dir \in Paths /\ \E d \in DOMAIN configs : wds[d] = dir /\ configs[d].path = dir
    BY <1>1, <1>2 DEF Set
  <1>4. Len(by) \in 0 .. 2 /\ \A k \in 1 .. Len(by) : by[k] \in DOMAIN configs
    <2>1. CASE plain
      BY <2>1
    <2>2. CASE ~plain
      BY <2>2, TellersFacts
    <2>3. QED
      BY <2>1, <2>2
  <1>5. \A k \in 1 .. Len(by) : told[k] \in Told /\ told[k].by = by[k]
    <2>1. ASSUME NEW k \in 1 .. Len(by) PROVE told[k] \in Told /\ told[k].by = by[k]
      <3>1. k \in 1 .. 2 /\ by[k] \in DOMAIN configs
        BY <1>4
      <3>2. found[k] \in BOOLEAN
        BY <3>1
      <3>3. QED
        BY <1>3, <3>1, <3>2, ReportFacts
    <2>2. QED
      BY <2>1
  <1>6. told \in Seq(Told) /\ Len(told) = Len(by)
    <2>1. Len(by) \in Nat
      BY <1>4
    <2>2. \A k \in 1 .. Len(by) : told[k] \in Told
      BY <1>5
    <2> HIDE DEF by
    <2>3. [k \in 1 .. Len(by) |-> told[k]] \in Seq(Told)
      BY <2>1, <2>2, IsASeq
    <2>4. QED
      BY <2>1, <2>3, LenProperties
  <1>7. reports' = Append(reports, e)
    BY <1>1
  <1> HIDE DEF told
  <1>8. e \in Seen
    BY <1>3, <1>6 DEF Seen
  <1>9. Matched(e)
    <2>1. plain => Len(told) = 0
      BY <1>6
    <2>2. ~plain => /\ Len(told) = Len(Tellers(dir, name, row))
                    /\ \A k \in 1 .. Len(told) : told[k].by = Tellers(dir, name, row)[k]
      BY <1>5, <1>6
    <2>3. QED
      BY <1>3, <2>1, <2>2 DEF Matched
  <1>10. QED
    BY <1>7, <1>8, <1>9
-----------------------------------------------------------------------------
LEMMA AddedFacts ==
  ASSUME Typing, NEW l \in Line, Added(l)
  PROVE  sections' \in Seq(Parsed) /\ current' \in 0 .. Len(sections')
  <1>0. Len(sections) \in Nat /\ DOMAIN sections = 1 .. Len(sections)
        /\ \A s \in DOMAIN sections : sections[s] \in Parsed
    BY SeqFacts DEF Typing
  <1>1. CASE l.kind = "section"
    <2>1. Section(<<l.base, l.label>>, << >>) \in Parsed
      <3>1. l.base \in Words /\ l.label \in Words
        BY <1>1 DEF Words, Line
      <3>2. << >> \in Seq(Keyed)
        OBVIOUS
      <3>3. QED
        BY <3>1, <3>2 DEF Section, Parsed
    <2>2. sections' = Append(sections, Section(<<l.base, l.label>>, << >>))
          /\ current' = Len(sections) + 1
      BY <1>1 DEF Added
    <2>3. sections' \in Seq(Parsed) /\ Len(sections') = Len(sections) + 1
      BY <2>1, <2>2, AppendFacts DEF Typing
    <2>4. QED
      BY <1>0, <2>2, <2>3
  <1>2. CASE l.kind = "pair" /\ current # 0
    <2> DEFINE old == sections[current].kvs
               new == Append(old, <<l.key, l.value>>)
    <2>1. <<l.key, l.value>> \in Keyed
      BY <1>2 DEF Keyed, Words, Line
    <2>2. sections[current] \in Parsed /\ current \in 1 .. Len(sections)
      BY <1>0, <1>2 DEF Typing
    <2>3. new \in Seq(Keyed)
      BY <2>1, <2>2, AppendFacts DEF Parsed
    <2>4. sections' = [sections EXCEPT ![current].kvs = new] /\ current' = current
      BY <1>2 DEF Added
    <2> HIDE DEF new
    <2>5. [sections[current] EXCEPT !.kvs = new] \in Parsed
      BY <2>2, <2>3 DEF Parsed
    <2>6. sections' = [sections EXCEPT ![current] = [sections[current] EXCEPT !.kvs = new]]
      BY <2>4
    <2>7. sections' \in Seq(Parsed) /\ Len(sections') = Len(sections)
      BY <2>2, <2>5, <2>6, ExceptSeq DEF Typing
    <2>8. QED
      BY <2>4, <2>7 DEF Typing
  <1>3. CASE l.kind # "section" /\ ~ (l.kind = "pair" /\ current # 0)
    BY <1>3 DEF Added, handle, Typing
  <1>4. QED
    BY <1>1, <1>2, <1>3
-----------------------------------------------------------------------------
LEMMA InitOK == Init => Inv
  <1> SUFFICES ASSUME Init PROVE Inv
    OBVIOUS
  <1>1. text \in Seq(Line)
    BY ConfigAssumption DEF Init
  <1>2. /\ sections \in Seq(Parsed) /\ Len(sections) = 0 /\ current = 0
        /\ configs \in Seq(Made) /\ reports \in Seq(Told) /\ DOMAIN reports = {}
    BY DEF Init
  <1>3. Typing
    BY <1>1, <1>2 DEF Init, Typing, Phases
  <1>4. QED
    BY <1>2, <1>3 DEF Inv, Init, Watches, Answers

LEMMA TypingStep == Inv /\ [Next]_vars => Typing'
  <1> SUFFICES ASSUME Inv, [Next]_vars PROVE Typing'
    OBVIOUS
  <1> USE DEF handle
  <1>0. Typing /\ Len(sections) \in Nat
    BY SeqFacts DEF Inv, Typing
  <1>1. CASE ReadLine
    <2>1. pos + 1 \in DOMAIN text
      BY <1>0, <1>1, SeqFacts DEF ReadLine, Typing
    <2>2. text[pos + 1] \in Line
      BY <1>0, <2>1, SeqFacts DEF Typing
    <2>3. sections' \in Seq(Parsed) /\ current' \in 0 .. Len(sections')
      BY <1>0, <1>1, <2>2, AddedFacts DEF ReadLine
    <2>4. QED
      BY <1>0, <1>1, <2>3 DEF ReadLine, Typing
  <1>2. CASE ReadEnd
    BY <1>0, <1>2 DEF ReadEnd, Typing, Phases
  <1>3. CASE LoadSetting
    <2>1. current' \in 0 .. Len(sections)
      BY <1>0, <1>3, FindFacts DEF LoadSetting
    <2>2. QED
      BY <1>0, <1>3, <2>1 DEF LoadSetting, Typing
  <1>4. CASE FirstPattern
    <2>1. current' \in 0 .. Len(sections)
      BY <1>0, <1>4, BaseFacts DEF FirstPattern, FirstNamed
    <2>2. QED
      BY <1>0, <1>4, <2>1 DEF FirstPattern, Typing, Phases
  <1>5. CASE StorePattern
    <2> DEFINE s == FindSection(current, sections[current].name)
    <2>1. s \in 0 .. Len(sections)
      BY <1>0, FindFacts
    <2>2. configs' \in Seq(Made)
      <3>1. CASE configs' = configs
        BY <1>0, <3>1 DEF Typing
      <3>2. CASE configs' # configs
        <4>1. PICK c \in Stored(s) : configs' = Append(configs, c)
          BY <1>5, <3>2 DEF StorePattern
        <4>2. c \in Made
          BY <1>0, <2>1, StoredFacts
        <4>3. QED
          BY <1>0, <4>1, <4>2, AppendFacts DEF Typing
      <3>3. QED
        BY <3>1, <3>2
    <2>3. current' = NextNamed(s)
      BY <1>5 DEF StorePattern
    <2>4. current' \in 0 .. Len(sections)
      <3>1. CASE s = 0
        BY <1>0, <2>3, <3>1 DEF NextNamed
      <3>2. CASE s # 0
        BY <1>0, <2>1, <2>3, <3>2, BaseFacts DEF NextNamed
      <3>3. QED
        BY <3>1, <3>2
    <2>5. QED
      BY <1>0, <1>5, <2>2, <2>4 DEF StorePattern, Typing
  <1>6. CASE EndPatterns
    <2>1. sections' \in Seq(Parsed) /\ current' \in 0 .. Len(sections')
      BY <1>6 DEF EndPatterns
    <2>2. QED
      BY <1>0, <1>6, <2>1 DEF EndPatterns, Typing, Phases
  <1>7. CASE AddWatches
    BY <1>0, <1>7 DEF AddWatches, Typing, Phases
  <1>8. CASE Appears
    <2>1. PICK e \in Seen : reports' = Append(reports, e)
      BY <1>8, AppearsFacts DEF Inv
    <2>2. QED
      BY <1>0, <1>8, <2>1, AppendFacts DEF Appears, Typing
  <1>9. CASE UNCHANGED vars
    BY <1>0, <1>9 DEF vars, Typing
  <1>10. QED
    BY <1>1, <1>2, <1>3, <1>4, <1>5, <1>6, <1>7, <1>8, <1>9 DEF Next

\* What was told stays right when the configurations and the watches stay.
LEMMA MatchedKept ==
  ASSUME UNCHANGED <<configs, wds>>, NEW e, Matched(e)
  PROVE  Matched(e)'
  <1>1. GenericConfig(e.name)' = GenericConfig(e.name)
    BY DEF GenericConfig
  <1>2. MatchByWd(e.name, e.dir)' = MatchByWd(e.name, e.dir)
    BY <1>1 DEF MatchByWd
  <1>3. ASSUME NEW row \in BOOLEAN
        PROVE  Tellers(e.dir, e.name, row)' = Tellers(e.dir, e.name, row)
    BY <1>1, <1>2 DEF Tellers
  <1>4. QED
    BY <1>3 DEF Matched

\* A step that leaves the watches and the reports alone.
LEMMA Idle ==
  ASSUME Inv, UNCHANGED <<configs, wds, reports>>, UNCHANGED phase
  PROVE  Watches' /\ Answers'
  <1>1. \A failing : Set(failing) => Set(failing)'
    BY DEF Set, Watched
  <1>2. Watches'
    BY <1>1 DEF Inv, Watches
  <1>3. \A e : Matched(e) => Matched(e)'
    BY MatchedKept
  <1>4. QED
    BY <1>2, <1>3 DEF Inv, Answers

LEMMA WatchStep == Inv /\ [Next]_vars => Watches' /\ Answers'
  <1> SUFFICES ASSUME Inv, [Next]_vars PROVE Watches' /\ Answers'
    OBVIOUS
  <1>1. ASSUME phase # "watching", phase' # "watching", UNCHANGED reports
        PROVE  Watches' /\ Answers'
    <2>1. reports' = << >>
      BY <1>1 DEF Inv, Watches
    <2>2. DOMAIN reports' = {}
      BY <2>1
    <2>3. QED
      BY <1>1, <2>1, <2>2 DEF Watches, Answers
  <1>2. CASE ReadLine \/ ReadEnd \/ LoadSetting
    BY <1>1, <1>2 DEF ReadLine, ReadEnd, LoadSetting
  <1>3. CASE FirstPattern \/ StorePattern \/ EndPatterns
    BY <1>1, <1>3 DEF FirstPattern, StorePattern, EndPatterns
  <1>4. CASE AddWatches
    <2>1. PICK failing \in SUBSET Paths :
            wds' \in {w \in [DOMAIN configs -> Paths \cup {None}] :
                      \A c \in DOMAIN configs : w[c] \in Watched(c, failing)}
      BY <1>4 DEF AddWatches
    <2>2. phase' = "watching" /\ phase # "watching" /\ configs' = configs /\ reports' = reports
      BY <1>4 DEF AddWatches
    <2>3. Watched(1, failing)' = Watched(1, failing)
          /\ \A c \in DOMAIN configs : Watched(c, failing)' = Watched(c, failing)
      BY <2>2 DEF Watched
    <2>4. Set(failing)'
      BY <2>1, <2>2, <2>3 DEF Set
    <2>5. DOMAIN reports' = {}
      BY <2>2 DEF Inv, Watches
    <2>6. QED
      BY <2>2, <2>4, <2>5 DEF Watches, Answers
  <1>5. CASE Appears
    <2>1. PICK e \in Seen : reports' = Append(reports, e) /\ Matched(e)
      BY <1>5, AppearsFacts DEF Inv
    <2>2. phase = "watching" /\ phase' = phase /\ configs' = configs /\ wds' = wds
      BY <1>5 DEF Appears
    <2>3. PICK failing \in SUBSET Paths : Set(failing)
      BY <2>2 DEF Inv, Watches
    <2>4. \A i \in DOMAIN reports' :
            \/ i \in DOMAIN reports /\ reports'[i] = reports[i]
            \/ reports'[i] = e
      <3>1. /\ DOMAIN reports = 1 .. Len(reports) /\ Len(reports) \in Nat
            /\ DOMAIN reports' = 1 .. Len(reports) + 1
            /\ \A i \in DOMAIN reports : reports'[i] = reports[i]
            /\ reports'[Len(reports) + 1] = e
        BY <2>1, SeqFacts, AppendFacts DEF Inv, Typing
      <3>2. QED
        BY <3>1
    <2>5. \A x : Matched(x) => Matched(x)'
      BY <2>2, MatchedKept
    <2>6. Answers'
      <3>1. ASSUME NEW i \in DOMAIN reports' PROVE Matched(reports'[i])
        BY <2>1, <2>4 DEF Inv, Answers
      <3>2. QED
        BY <2>5, <3>1 DEF Answers
    <2>7. Set(failing)'
      BY <2>2, <2>3 DEF Set, Watched
    <2>8. QED
      BY <2>2, <2>6, <2>7 DEF Watches
  <1>6. CASE UNCHANGED vars
    BY <1>6, Idle DEF vars
  <1>7. QED
    BY <1>2, <1>3, <1>4, <1>5, <1>6 DEF Next

\* The state is typed, the watches are those of one round of calls, and each event was told
\* by the configurations that its directory, its watch and its name give.
THEOREM Invariant == Spec => []Inv
  <1>1. Inv /\ [Next]_vars => Inv'
    BY TypingStep, WatchStep DEF Inv
  <1>2. QED
    BY InitOK, <1>1, PTL DEF Spec
-----------------------------------------------------------------------------
\* Two configurations of a path that is watched have the same watch.
LEMMA Owned == Inv => EventOfOwn
  <1> SUFFICES ASSUME Inv, \A c \in DOMAIN configs : configs[c].path \in Paths,
                      NEW i \in DOMAIN reports
               PROVE  LET e    == reports[i]
                          with == {c \in DOMAIN configs : configs[c].pattern \in e.name}
                          own  == {c \in with : configs[c].path = e.dir}
                      IN  /\ e.plain => e.told = << >>
                          /\ \A k \in DOMAIN e.told :
                               /\ e.told[k].by \in (IF e.dir = ModemDir THEN with ELSE own)
                               /\ k > 1 => e.dir = ModemDir /\ k = 2 /\ e.told[1].by = e.told[2].by
                                           /\ e.told[2].by \in own
                          /\ ~e.plain /\ e.told = << >> =>
                               \A c \in own : \E d \in with \ own : d < c
    BY DEF EventOfOwn
  <1> DEFINE e    == reports[i]
             with == {c \in DOMAIN configs : configs[c].pattern \in e.name}
             own  == {c \in with : configs[c].path = e.dir}
             g    == GenericConfig(e.name)
  <1>1. Typing /\ Matched(e) /\ e \in Seen
    BY SeqFacts DEF Inv, Answers, Typing
  <1>2. e.told \in Seq(Told) /\ DOMAIN e.told = 1 .. Len(e.told) /\ Len(e.told) \in Nat
    BY <1>1, SeqFacts DEF Seen
  <1>3. phase = "watching"
    BY DEF Inv, Watches
  <1>4. PICK failing \in SUBSET Paths : Set(failing)
    BY <1>3 DEF Inv, Watches
  <1>5. e.dir \in Paths /\ e.dir # None
    BY <1>1, ConfigAssumption DEF Matched
  <1>6. with = {} => g = 0
    BY <1>1, MatchFacts
  <1>7. \A c \in DOMAIN configs :
          wds[c] = IF configs[c].path \in failing THEN None ELSE configs[c].path
    BY <1>4, ConfigAssumption DEF Set, Watched
  <1>8. e.dir \notin failing
    BY <1>1, <1>5, <1>7 DEF Matched
  <1>9. g # 0 => g \in with /\ (wds[g] = e.dir <=> g \in own)
    <2>1. g # 0 => g \in with
      BY <1>1, <1>6, MatchFacts
    <2>2. QED
      BY <1>5, <1>7, <1>8, <2>1
  <1>10. CASE e.plain
    <2>1. Len(e.told) = 0
      BY <1>1, <1>10 DEF Matched
    <2>2. e.told = << >>
      BY <1>2, <2>1, EmptySeq
    <2>3. QED
      BY <1>10, <2>2
  <1>11. CASE ~e.plain
    <2>1. PICK row \in BOOLEAN :
            /\ Len(e.told) = Len(Tellers(e.dir, e.name, row))
            /\ \A k \in 1 .. Len(e.told) : e.told[k].by = Tellers(e.dir, e.name, row)[k]
      BY <1>1, <1>11 DEF Matched
    <2>2. /\ Len(e.told) \in 0 .. 2
          /\ \A k \in 1 .. Len(e.told) : e.told[k].by = g /\ g # 0
          /\ Len(e.told) = 0 => g = 0 \/ wds[g] # e.dir
          /\ Len(e.told) # 0 /\ e.dir # ModemDir => Len(e.told) = 1 /\ wds[g] = e.dir
          /\ Len(e.told) = 2 => e.dir = ModemDir /\ wds[g] = e.dir
      BY <1>1, <2>1, TellersFacts
    <2>3. ASSUME NEW k \in DOMAIN e.told
          PROVE  /\ e.told[k].by \in (IF e.dir = ModemDir THEN with ELSE own)
                 /\ k > 1 => e.dir = ModemDir /\ k = 2 /\ e.told[1].by = e.told[2].by
                             /\ e.told[2].by \in own
      <3>1. k \in 1 .. Len(e.told) /\ e.told[k].by = g /\ g \in with /\ g # 0
        BY <1>2, <1>9, <2>2
      <3>2. e.dir # ModemDir => g \in own
        BY <1>9, <2>2, <3>1
      <3>3. ASSUME k > 1
            PROVE  /\ e.dir = ModemDir /\ k = 2 /\ e.told[1].by = e.told[2].by
                   /\ e.told[2].by \in own
        <4>1. Len(e.told) = 2 /\ k = 2
          BY <2>2, <3>1, <3>3
        <4>2. e.dir = ModemDir /\ g \in own /\ e.told[1].by = g /\ e.told[2].by = g
          BY <1>9, <2>2, <3>1, <4>1
        <4>3. QED
          BY <4>1, <4>2
      <3>4. QED
        BY <3>1, <3>2, <3>3
    <2>4. ASSUME e.told = << >>, NEW c \in own
          PROVE  \E d \in with \ own : d < c
      <3>1. g # 0 /\ g \in with
        <4>1. with # {}
          BY <2>4
        <4>2. QED
          BY <1>1, <4>1, MatchFacts
      <3>2. g \notin own
        BY <1>9, <2>2, <2>4, <3>1
      <3>3. g <= c
        BY <1>1, <2>4, FirstMatch
      <3>4. c \in Nat /\ g \in Nat
        BY <1>1, <3>1, SeqFacts DEF Typing
      <3>5. QED
        BY <2>4, <3>1, <3>2, <3>3, <3>4
    <2>5. QED
      BY <1>11, <2>3, <2>4
  <1>12. QED
    BY <1>10, <1>11

\* For every set of configurations and whatever watches fail: a plain file is reported by
\* none, a directory by a configuration with a pattern of its name and, outside the modem's
\* directory, of its directory, at most once; and it is lost only to a configuration of
\* another directory that comes first.
THEOREM OwnEvents == Spec => []EventOfOwn
  BY Invariant, Owned, PTL
-----------------------------------------------------------------------------
(* The list of sections says what the lines that were read say.            *)

First(T) == CHOOSE i \in T : \A j \in T : i <= j

LEMMA FirstFacts ==
  ASSUME NEW T \in SUBSET Nat
  PROVE  /\ T # {} => First(T) \in T /\ \A j \in T : First(T) <= j
         /\ \A n \in T : (\A j \in T : n <= j) => First(T) = n
  <1>1. T # {} => First(T) \in T /\ \A j \in T : First(T) <= j
    BY Chosen DEF First
  <1>2. ASSUME NEW n \in T, \A j \in T : n <= j
        PROVE  First(T) = n
    <2>1. First(T) \in Nat /\ n \in Nat /\ First(T) <= n /\ n <= First(T)
      BY <1>1, <1>2
    <2>2. QED
      BY <2>1
  <1>3. QED
    BY <1>1, <1>2

\* The places of a key in a list of pairs, and in the first n lines behind a head.
Of(kvs, key)       == {i \in DOMAIN kvs : kvs[i][1] = key}
Upto(h, key, n)    == {i \in Body(h) : i <= n /\ text[i].key = key}
Value(kvs, key)    == IF Of(kvs, key) = {} THEN Undefined ELSE kvs[First(Of(kvs, key))][2]
GivenUpto(h, key, n) ==
  IF Upto(h, key, n) = {} THEN Undefined ELSE text[First(Upto(h, key, n))].value

\* The pairs of a section are the lines behind head h, as far as values go.
Same(kvs, h, n) ==
  \A key : /\ Of(kvs, key) = {} <=> Upto(h, key, n) = {}
           /\ Value(kvs, key) = GivenUpto(h, key, n)

\* Section s was made of the line f[s]; the lines read are the first n.
Parse(f, n) ==
  /\ f \in [DOMAIN sections -> Heads]
  /\ \A s, t \in DOMAIN sections : s < t => f[s] < f[t]
  /\ \A h \in Heads : h <= n <=> \E s \in DOMAIN sections : f[s] = h
  /\ \A s \in DOMAIN sections : sections[s].name = Name(f[s])
  /\ \A s \in DOMAIN sections : Same(sections[s].kvs, f[s], n)

Reading ==
  CASE phase = "read" -> /\ pos <= Len(text) /\ current = Len(sections)
                         /\ \E f : Parse(f, pos)
    [] phase \in {"general", "patterns"} -> \E f : Parse(f, Len(text))
    [] OTHER -> TRUE

LEMMA ValueInIs ==
  ASSUME NEW s, s # 0, NEW key
  PROVE  ValueIn(s, key) = Value(sections[s].kvs, key)
  BY DEF ValueIn, Value, Of, First

LEMMA GivenIs ==
  ASSUME Typing, NEW h, NEW key
  PROVE  Given(h, key) = GivenUpto(h, key, Len(text))
  <1>1. \A i \in Body(h) : i <= Len(text)
    BY SeqFacts DEF Body, Typing
  <1> DEFINE with == {i \in Body(h) : text[i].key = key}
  <1>2. with = Upto(h, key, Len(text))
    BY <1>1 DEF Upto
  <1>3. Given(h, key) = IF with = {} THEN Undefined ELSE text[First(with)].value
    BY DEF Given, First
  <1>4. QED
    BY <1>2, <1>3 DEF GivenUpto

LEMMA AppendValue ==
  ASSUME NEW kvs \in Seq(Keyed), NEW e \in Keyed, NEW key
  PROVE  LET new == Append(kvs, e)
         IN  /\ Of(new, key) = {} <=> Of(kvs, key) = {} /\ e[1] # key
             /\ Value(new, key) = IF Of(kvs, key) # {} THEN Value(kvs, key)
                                  ELSE IF e[1] = key THEN e[2] ELSE Undefined
  <1> DEFINE new == Append(kvs, e)
  <1>1. /\ DOMAIN kvs = 1 .. Len(kvs) /\ Len(kvs) \in Nat
        /\ DOMAIN new = 1 .. Len(kvs) + 1
        /\ \A i \in DOMAIN kvs : new[i] = kvs[i]
        /\ new[Len(kvs) + 1] = e
    BY SeqFacts, AppendFacts
  <1> HIDE DEF new
  <1>2. Of(new, key) = Of(kvs, key) \cup IF e[1] = key THEN {Len(kvs) + 1} ELSE {}
    <2>1. DOMAIN new = DOMAIN kvs \cup {Len(kvs) + 1}
      BY <1>1
    <2>2. QED
      BY <1>1, <2>1, Zenon DEF Of
  <1>3. Of(kvs, key) \in SUBSET Nat /\ Of(new, key) \in SUBSET Nat
        /\ \A i \in Of(kvs, key) : i \in DOMAIN kvs
    BY <1>1 DEF Of
  <1>4. CASE Of(kvs, key) # {}
    <2>1. PICK i \in Of(kvs, key) : First(Of(kvs, key)) = i /\ \A j \in Of(kvs, key) : i <= j
      BY <1>3, <1>4, FirstFacts
    <2>2. i \in Of(new, key) /\ i <= Len(kvs) + 1
      BY <1>1, <1>2, <1>3
    <2>3. \A j \in Of(new, key) : i <= j
      BY <1>2, <2>1, <2>2
    <2>4. First(Of(new, key)) = i
      BY <1>3, <2>2, <2>3, FirstFacts
    <2>5. new[i] = kvs[i] /\ Of(new, key) # {}
      BY <1>1, <1>3, <2>2
    <2>6. QED
      BY <1>4, <2>1, <2>4, <2>5 DEF Value, new
  <1>5. CASE Of(kvs, key) = {} /\ e[1] = key
    <2>1. Of(new, key) = {Len(kvs) + 1}
      BY <1>2, <1>5
    <2>2. First(Of(new, key)) = Len(kvs) + 1
      BY <1>1, <1>3, <2>1, FirstFacts
    <2>3. QED
      BY <1>1, <1>5, <2>1, <2>2 DEF Value, new
  <1>6. CASE Of(kvs, key) = {} /\ e[1] # key
    BY <1>2, <1>6 DEF Value, new
  <1>7. QED
    BY <1>4, <1>5, <1>6

\* What one more line says of the section of head h.
LEMMA GivenStep ==
  ASSUME Typing, NEW n \in Nat, n + 1 \in DOMAIN text, NEW h \in Heads, h <= n, NEW key
  PROVE  LET l    == text[n + 1]
             mine == l.kind = "pair" /\ \A g \in Heads : g <= h \/ g > n
         IN  IF mine
             THEN /\ Upto(h, key, n + 1) = {} <=> Upto(h, key, n) = {} /\ l.key # key
                  /\ GivenUpto(h, key, n + 1) = IF Upto(h, key, n) # {} THEN GivenUpto(h, key, n)
                                                ELSE IF l.key = key THEN l.value ELSE Undefined
             ELSE /\ Upto(h, key, n + 1) = Upto(h, key, n)
                  /\ GivenUpto(h, key, n + 1) = GivenUpto(h, key, n)
  <1> DEFINE l    == text[n + 1]
             mine == l.kind = "pair" /\ \A g \in Heads : g <= h \/ g > n
             old  == Upto(h, key, n)
             new  == Upto(h, key, n + 1)
  <1>0. DOMAIN text \in SUBSET Nat /\ Heads \subseteq DOMAIN text /\ Body(h) \subseteq DOMAIN text
    BY SeqFacts DEF Typing, Heads, Body
  <1>1. old \in SUBSET Nat /\ new \in SUBSET Nat /\ \A i \in old : i <= n /\ i \in new
    BY <1>0 DEF Upto
  <1>2. \A i \in new : i \in old \/ (i = n + 1 /\ l.key = key)
    <2>1. ASSUME NEW i \in new, i \notin old
          PROVE  i = n + 1 /\ l.key = key
      <3>1. i \in Body(h) /\ i <= n + 1 /\ text[i].key = key /\ ~ (i <= n)
        BY <2>1 DEF Upto
      <3>2. i \in Nat
        BY <1>1
      <3>3. i = n + 1
        BY <3>1, <3>2
      <3>4. QED
        BY <3>1, <3>3
    <2>2. QED
      BY <2>1
  <1>3. n + 1 \in Body(h) <=> mine
    <2>1. \A g \in Heads : g > n + 1 => g > n
      BY <1>0
    <2>2. ASSUME l.kind = "pair", NEW g \in Heads, g > n
          PROVE  g > n + 1
      <3>1. g # n + 1
        BY <2>2 DEF Heads
      <3>2. g \in Nat
        BY <1>0
      <3>3. QED
        BY <2>2, <3>1, <3>2
    <2>3. n + 1 > h
      BY <1>0
    <2>4. QED
      BY <2>1, <2>2, <2>3 DEF Body
  <1>4. CASE ~ mine
    <2>1. n + 1 \notin new
      BY <1>3, <1>4 DEF Upto
    <2>2. new = old
      BY <1>1, <1>2, <2>1
    <2>3. QED
      BY <1>4, <2>2 DEF GivenUpto
  <1>5. CASE mine /\ old # {}
    <2>1. PICK i \in old : First(old) = i /\ \A j \in old : i <= j
      BY <1>1, <1>5, FirstFacts
    <2>2. \A j \in new : i <= j
      BY <1>1, <1>2, <2>1
    <2>3. First(new) = i /\ new # {}
      BY <1>1, <2>2, FirstFacts
    <2>4. QED
      BY <1>5, <2>1, <2>3 DEF GivenUpto
  <1>6. CASE mine /\ old = {} /\ l.key = key
    <2>1. n + 1 \in new
      BY <1>3, <1>6 DEF Upto
    <2>2. new = {n + 1}
      BY <1>2, <1>6, <2>1
    <2>3. First(new) = n + 1
      BY <1>1, <2>2, FirstFacts
    <2>4. QED
      BY <1>6, <2>2, <2>3 DEF GivenUpto
  <1>7. CASE mine /\ old = {} /\ l.key # key
    <2>1. new = {}
      BY <1>2, <1>7
    <2>2. QED
      BY <1>7, <2>1 DEF GivenUpto
  <1>8. QED
    BY <1>4, <1>5, <1>6, <1>7

\* A line that is read keeps the list of sections in step with the text.
LEMMA ParseStep ==
  ASSUME Typing, NEW n \in Nat, n + 1 \in DOMAIN text, current = Len(sections), NEW f, Parse(f, n),
         Added(text[n + 1]), UNCHANGED text
  PROVE  current' = Len(sections') /\ \E g : Parse(g, n + 1)'
  <1> DEFINE l    == text[n + 1]
             last == Len(sections)
  <1>0. /\ last \in Nat /\ DOMAIN sections = 1 .. last
        /\ \A s \in DOMAIN sections : sections[s] \in Parsed
        /\ DOMAIN text \in SUBSET Nat /\ l \in Line
    BY SeqFacts DEF Typing
  <1>1. /\ f \in [DOMAIN sections -> Heads] /\ Heads \subseteq DOMAIN text
        /\ \A s \in DOMAIN sections : f[s] \in Heads /\ f[s] <= n /\ f[s] \in Nat
    BY <1>0 DEF Parse, Heads
  <1>2. Heads' = Heads /\ (\A h : Name(h)' = Name(h) /\ Body(h)' = Body(h))
    BY DEF Heads, Name, Body
  <1>3. \A h, key, m : /\ Upto(h, key, m)' = Upto(h, key, m)
                       /\ GivenUpto(h, key, m)' = GivenUpto(h, key, m)
    BY <1>2 DEF Upto, GivenUpto
  <1>4. \A kvs, h, m : Same(kvs, h, m)' = Same(kvs, h, m)
    BY <1>3 DEF Same
  <1>5. \A h \in Heads : h <= n + 1 <=> h <= n \/ (h = n + 1 /\ l.kind = "section")
    <2>1. ASSUME NEW h \in Heads
          PROVE  h <= n + 1 <=> h <= n \/ (h = n + 1 /\ l.kind = "section")
      <3>1. h \in Nat /\ text[h].kind = "section"
        BY <1>0 DEF Heads
      <3>2. h <= n + 1 <=> h <= n \/ h = n + 1
        BY <3>1
      <3>3. QED
        BY <3>1, <3>2
    <2>2. QED
      BY <2>1
  \* A line that is not one of the section changes nothing of it.
  <1>6. ASSUME NEW s \in DOMAIN sections,
               l.kind # "pair" \/ \E g \in Heads : ~ (g <= f[s]) /\ ~ (g > n)
        PROVE  Same(sections[s].kvs, f[s], n + 1)
    <2>1. Same(sections[s].kvs, f[s], n)
      BY DEF Parse
    <2>2. \A key : /\ Upto(f[s], key, n + 1) = Upto(f[s], key, n)
                   /\ GivenUpto(f[s], key, n + 1) = GivenUpto(f[s], key, n)
      BY <1>1, <1>6, GivenStep
    <2>3. QED
      BY <2>1, <2>2 DEF Same
  <1>7. CASE l.kind = "section"
    <2> DEFINE new == Section(<<l.base, l.label>>, << >>)
    <2>0. PICK g : g = [s \in 1 .. last + 1 |-> IF s = last + 1 THEN n + 1 ELSE f[s]]
      OBVIOUS
    <2>1. sections' = Append(sections, new) /\ current' = last + 1
      BY <1>7 DEF Added
    <2>2. new \in Parsed
      <3>1. l.base \in Words /\ l.label \in Words
        BY <1>0, <1>7 DEF Words, Line
      <3>2. << >> \in Seq(Keyed)
        OBVIOUS
      <3>3. QED
        BY <3>1, <3>2 DEF Section, Parsed
    <2>3. /\ DOMAIN sections' = 1 .. last + 1 /\ Len(sections') = last + 1
          /\ \A s \in DOMAIN sections : sections'[s] = sections[s]
          /\ sections'[last + 1] = new
      BY <2>1, <2>2, AppendFacts DEF Typing
    <2>4. n + 1 \in Heads
      BY <1>7 DEF Heads
    <2>5. \A s \in DOMAIN sections' :
            (s \in DOMAIN sections /\ g[s] = f[s]) \/ (s = last + 1 /\ g[s] = n + 1)
      <3>1. ASSUME NEW s \in DOMAIN sections', s # last + 1
            PROVE  s \in DOMAIN sections /\ g[s] = f[s]
        <4>1. s \in 1 .. last + 1 /\ s \in 1 .. last
          BY <1>0, <2>3, <3>1
        <4>2. QED
          BY <1>0, <2>0, <3>1, <4>1
      <3>2. g[last + 1] = n + 1
        BY <1>0, <2>0
      <3>3. QED
        BY <3>1, <3>2
    <2>6. g \in [DOMAIN sections' -> Heads]
      BY <1>1, <2>0, <2>3, <2>4, <2>5
    <2>7. \A s, t \in DOMAIN sections' : s < t => g[s] < g[t]
      <3>1. ASSUME NEW s \in DOMAIN sections', NEW t \in DOMAIN sections', s < t
            PROVE  g[s] < g[t]
        <4>1. s \in DOMAIN sections /\ g[s] = f[s]
          <5>1. s # last + 1
            BY <1>0, <2>3, <3>1
          <5>2. QED
            BY <2>5, <5>1
        <4>2. CASE t = last + 1
          BY <1>0, <1>1, <2>5, <4>1, <4>2
        <4>3. CASE t # last + 1
          BY <2>5, <3>1, <4>1, <4>3 DEF Parse
        <4>4. QED
          BY <4>2, <4>3
      <3>2. QED
        BY <3>1
    <2>8. \A h \in Heads : h <= n + 1 <=> \E s \in DOMAIN sections' : g[s] = h
      <3>1. last + 1 \in DOMAIN sections' /\ g[last + 1] = n + 1
        BY <1>0, <2>0, <2>3
      <3>2. \A s \in DOMAIN sections : s \in DOMAIN sections' /\ g[s] = f[s]
        BY <1>0, <2>0, <2>3
      <3>3. \A h \in Heads : h <= n <=> \E s \in DOMAIN sections : f[s] = h
        BY DEF Parse
      <3>4. QED
        BY <1>5, <1>7, <2>5, <3>1, <3>2, <3>3
    <2>9. \A s \in DOMAIN sections' : sections'[s].name = Name(g[s])
      <3>1. new.name = Name(n + 1)
        BY DEF Section, Name
      <3>2. QED
        BY <2>3, <2>5, <3>1 DEF Parse
    <2>10. \A s \in DOMAIN sections' : Same(sections'[s].kvs, g[s], n + 1)
      <3>1. ASSUME NEW key
            PROVE  Of(<< >>, key) = {} /\ Upto(n + 1, key, n + 1) = {}
        <4>1. \A i \in Body(n + 1) : i \in Nat /\ i > n + 1
          BY <1>0 DEF Body
        <4>2. Upto(n + 1, key, n + 1) = {}
          BY <4>1 DEF Upto
        <4>3. QED
          BY <4>2 DEF Of
      <3>2. new.kvs = << >>
        BY DEF Section
      <3>3. Same(new.kvs, n + 1, n + 1)
        BY <3>1, <3>2 DEF Same, Value, GivenUpto
      <3>4. \A s \in DOMAIN sections : Same(sections[s].kvs, f[s], n + 1)
        BY <1>6, <1>7
      <3>5. QED
        BY <2>3, <2>5, <3>3, <3>4
    <2>11. Parse(g, n + 1)'
      BY <1>2, <1>4, <2>6, <2>7, <2>8, <2>9, <2>10 DEF Parse
    <2>12. QED
      BY <2>1, <2>3, <2>11
  <1>8. CASE l.kind = "pair" /\ current # 0
    <2> DEFINE e == <<l.key, l.value>>
    <2>1. e \in Keyed
      BY <1>0, <1>8 DEF Keyed, Words, Line
    <2>2. last \in DOMAIN sections /\ sections[last].kvs \in Seq(Keyed)
      BY <1>0, <1>8 DEF Parsed
    <2>3. sections' = [sections EXCEPT ![last].kvs = Append(sections[last].kvs, e)] /\ current' = current
      BY <1>8 DEF Added
    <2>4. /\ DOMAIN sections' = DOMAIN sections
          /\ \A s \in DOMAIN sections : sections'[s].name = sections[s].name
          /\ \A s \in DOMAIN sections : s # last => sections'[s].kvs = sections[s].kvs
          /\ sections'[last].kvs = Append(sections[last].kvs, e)
      BY <1>0, <2>2, <2>3 DEF Parsed
    <2>5. Len(sections') = last
      BY <1>0, <1>8, AddedFacts, SeqFacts, <2>4
    <2>6. \A s \in DOMAIN sections : s # last => Same(sections'[s].kvs, f[s], n + 1)
      <3>1. ASSUME NEW s \in DOMAIN sections, s # last
            PROVE  Same(sections[s].kvs, f[s], n + 1)
        <4>1. s < last
          BY <1>0, <3>1
        <4>2. f[s] < f[last] /\ f[last] <= n /\ f[last] \in Heads
          BY <1>1, <2>2, <4>1 DEF Parse
        <4>3. ~ (f[last] <= f[s]) /\ ~ (f[last] > n)
          BY <1>0, <1>1, <2>2, <4>2
        <4>4. QED
          BY <1>6, <4>2, <4>3
      <3>2. QED
        BY <2>4, <3>1
    <2>7. Same(sections'[last].kvs, f[last], n + 1)
      <3>1. \A g \in Heads : g <= f[last] \/ g > n
        <4>1. ASSUME NEW g \in Heads, ~ (g > n)
              PROVE  g <= f[last]
          <5>1. g \in Nat /\ g <= n
            BY <1>0, <4>1 DEF Heads
          <5>2. PICK s \in DOMAIN sections : f[s] = g
            BY <5>1 DEF Parse
          <5>3. s = last \/ s < last
            BY <1>0
          <5>4. QED
            BY <1>1, <2>2, <5>1, <5>2, <5>3 DEF Parse
        <4>2. QED
          BY <4>1
      <3>2. Same(sections[last].kvs, f[last], n)
        BY <2>2 DEF Parse
      <3>3. ASSUME NEW key
            PROVE  LET new == Append(sections[last].kvs, e)
                   IN  /\ Of(new, key) = {} <=> Upto(f[last], key, n + 1) = {}
                       /\ Value(new, key) = GivenUpto(f[last], key, n + 1)
        <4>1. /\ Upto(f[last], key, n + 1) = {} <=> Upto(f[last], key, n) = {} /\ l.key # key
              /\ GivenUpto(f[last], key, n + 1) =
                   IF Upto(f[last], key, n) # {} THEN GivenUpto(f[last], key, n)
                   ELSE IF l.key = key THEN l.value ELSE Undefined
          BY <1>1, <1>8, <2>2, <3>1, GivenStep
        <4>2. LET new == Append(sections[last].kvs, e)
              IN  /\ Of(new, key) = {} <=> Of(sections[last].kvs, key) = {} /\ e[1] # key
                  /\ Value(new, key) =
                       IF Of(sections[last].kvs, key) # {} THEN Value(sections[last].kvs, key)
                       ELSE IF e[1] = key THEN e[2] ELSE Undefined
          BY <2>1, <2>2, AppendValue
        <4>3. e[1] = l.key /\ e[2] = l.value
          OBVIOUS
        <4>4. /\ Of(sections[last].kvs, key) = {} <=> Upto(f[last], key, n) = {}
              /\ Value(sections[last].kvs, key) = GivenUpto(f[last], key, n)
          BY <3>2 DEF Same
        <4>5. QED
          BY <4>1, <4>2, <4>3, <4>4
      <3>4. QED
        BY <2>4, <3>3 DEF Same
    <2>8. l.kind # "section"
      BY <1>8
    <2>9. Parse(f, n + 1)'
      BY <1>2, <1>4, <1>5, <2>4, <2>6, <2>7, <2>8 DEF Parse
    <2>10. QED
      BY <2>3, <2>5, <2>9
  <1>9. CASE l.kind # "section" /\ ~ (l.kind = "pair" /\ current # 0)
    <2>1. sections' = sections /\ current' = current
      BY <1>9 DEF Added, handle
    <2>2. \A s \in DOMAIN sections : Same(sections[s].kvs, f[s], n + 1)
      <3>1. l.kind # "pair" \/ DOMAIN sections = {}
        BY <1>0, <1>9
      <3>2. QED
        BY <1>6, <3>1
    <2>3. Parse(f, n + 1)'
      BY <1>2, <1>4, <1>5, <1>9, <2>1, <2>2 DEF Parse
    <2>4. QED
      BY <2>1, <2>3
  <1>10. QED
    BY <1>7, <1>8, <1>9
-----------------------------------------------------------------------------
(* The settings.                                                           *)

Generals == {h \in Heads : Name(h) = General}

\* What SettingsAsWritten says a setting is.
Written(key) ==
  IF \A h \in Generals : Given(h, key) = Undefined THEN Default[key]
  ELSE Applied(key, Given(CHOOSE h \in Generals : TRUE, key), Default[key])

\* The settings that were looked for so far are as written.
Done(key) ==
  CASE phase = "read"    -> FALSE
    [] phase = "general" -> \E j \in DOMAIN Keys : j < pos /\ Keys[j] = key
    [] OTHER             -> TRUE
Setting ==
  /\ DOMAIN settings = Range(Keys)
  /\ phase = "general" => pos >= 1
  /\ Cardinality(Generals) <= 1 =>
       \A key \in Range(Keys) : settings[key] = IF Done(key) THEN Written(key) ELSE Default[key]

LEMMA Rigid ==
  ASSUME Typing, Typing', UNCHANGED text
  PROVE  /\ Heads' = Heads /\ Generals' = Generals
         /\ \A h : Name(h)' = Name(h)
         /\ \A h, key : Given(h, key)' = Given(h, key)
         /\ \A key : Written(key)' = Written(key)
  <1>1. Heads' = Heads /\ \A h : Name(h)' = Name(h) /\ Body(h)' = Body(h)
    BY DEF Heads, Name, Body
  <1>2. Generals' = Generals
    BY <1>1 DEF Generals
  <1>3. \A h, key, n : GivenUpto(h, key, n)' = GivenUpto(h, key, n)
    BY <1>1 DEF Upto, GivenUpto
  <1>4. ASSUME NEW h, NEW key
        PROVE  Given(h, key)' = Given(h, key)
    <2>1. Given(h, key) = GivenUpto(h, key, Len(text))
      BY GivenIs
    <2>2. Given(h, key)' = GivenUpto(h, key, Len(text))'
      <3>1. \A m : Body(h)' = Body(h)
        BY <1>1
      <3>2. {i \in Body(h) : text[i].key = key}' = {i \in Body(h) : text[i].key = key}
        BY <3>1
      <3>3. QED
        BY <2>1, <1>3, <3>2 DEF Given
    <2>3. QED
      BY <1>3, <2>1, <2>2
  <1>5. \A key : Written(key)' = Written(key)
    BY <1>2, <1>4 DEF Written, Applied
  <1>6. QED
    BY <1>1, <1>2, <1>4, <1>5

LEMMA OneHead ==
  ASSUME Typing, Cardinality(Generals) <= 1, NEW a \in Generals, NEW b \in Generals
  PROVE  a = b
  <1>1. Len(text) \in Nat /\ DOMAIN text = 1 .. Len(text)
    BY SeqFacts DEF Typing
  <1>2. IsFiniteSet(Generals)
    <2>1. Generals \subseteq 1 .. Len(text)
      BY <1>1 DEF Generals, Heads
    <2>2. IsFiniteSet(1 .. Len(text))
      BY <1>1, FS_Interval
    <2>3. QED
      BY <2>1, <2>2, FS_Subset
  <1>3. Cardinality({a, b}) <= Cardinality(Generals) /\ Cardinality(Generals) \in Nat
    BY <1>2, FS_Subset, FS_CardinalityType
  <1>4. a # b => Cardinality({a, b}) = 2
    <2>1. IsFiniteSet({}) /\ Cardinality({}) = 0
      BY FS_EmptySet
    <2>2. IsFiniteSet({a}) /\ Cardinality({a}) = 1
      BY FS_Singleton
    <2>3. a # b => Cardinality({a} \cup {b}) = 2
      BY <2>2, FS_AddElement
    <2>4. {a} \cup {b} = {a, b}
      OBVIOUS
    <2>5. QED
      BY <2>3, <2>4
  <1>5. IsFiniteSet({a, b}) /\ Cardinality({a, b}) \in Nat
    BY <1>2, FS_Subset, FS_CardinalityType
  <1>6. QED
    BY <1>3, <1>4, <1>5

LEMMA ReadingInit == Init => Reading /\ Setting
  <1> SUFFICES ASSUME Init PROVE Reading /\ Setting
    OBVIOUS
  <1>0. Typing
    BY InitOK DEF Inv
  <1>1. DOMAIN sections = {} /\ Len(sections) = 0
    BY DEF Init
  <1>2. \A h \in Heads : h >= 1
    BY <1>0, SeqFacts DEF Heads, Typing
  <1>3. PICK f : f \in [DOMAIN sections -> Heads]
    <2>1. [s \in DOMAIN sections |-> 0] \in [DOMAIN sections -> Heads]
      BY <1>1
    <2>2. QED
      BY <2>1
  <1>4. \A h \in Heads : ~ (h <= 0)
    <2>1. \A h \in Heads : h \in Nat
      BY <1>0, SeqFacts DEF Heads, Typing
    <2>2. QED
      BY <1>2, <2>1
  <1>5. Parse(f, 0)
    BY <1>1, <1>3, <1>4 DEF Parse
  <1>6. Len(text) \in Nat
    BY <1>0, SeqFacts DEF Typing
  <1>7. Reading
    BY <1>1, <1>5, <1>6 DEF Init, Reading
  <1>8. Setting
    BY ConfigAssumption DEF Init, Setting, Done
  <1>9. QED
    BY <1>7, <1>8

LEMMA ParseKept ==
  ASSUME Typing, Typing', UNCHANGED <<text, sections>>
  PROVE  \A f, n : Parse(f, n) => Parse(f, n)'
  <1>1. Heads' = Heads /\ \A h : Name(h)' = Name(h) /\ Body(h)' = Body(h)
    BY DEF Heads, Name, Body
  <1>2. \A h, key, n : /\ Upto(h, key, n)' = Upto(h, key, n)
                       /\ GivenUpto(h, key, n)' = GivenUpto(h, key, n)
    BY <1>1 DEF Upto, GivenUpto
  <1>3. \A kvs, h, n : Same(kvs, h, n)' = Same(kvs, h, n)
    BY <1>2 DEF Same
  <1>4. QED
    BY <1>1, <1>3 DEF Parse

LEMMA ReadingStep == Inv /\ Reading /\ [Next]_vars => Reading'
  <1> SUFFICES ASSUME Inv, Reading, [Next]_vars PROVE Reading'
    OBVIOUS
  <1> USE DEF handle
  <1>0. Typing /\ Typing'
    BY TypingStep DEF Inv
  <1>1. DOMAIN text = 1 .. Len(text) /\ Len(text) \in Nat /\ pos \in Nat
    BY <1>0, SeqFacts DEF Typing
  <1>2. CASE ReadLine
    <2>1. /\ phase = "read" /\ pos < Len(text) /\ Added(text[pos + 1]) /\ pos' = pos + 1
          /\ UNCHANGED <<text, phase>>
      BY <1>2 DEF ReadLine
    <2>2. PICK f : Parse(f, pos) /\ current = Len(sections)
      BY <2>1 DEF Reading
    <2>3. PICK n \in Nat : n = pos
      BY <1>1
    <2>4. n + 1 \in DOMAIN text
      BY <1>1, <2>1, <2>3
    <2>5. current' = Len(sections') /\ \E g : Parse(g, n + 1)'
      BY <1>0, <2>1, <2>2, <2>3, <2>4, ParseStep
    <2>6. pos' <= Len(text')
      BY <1>1, <2>1
    <2>7. pos' = n + 1
      BY <2>1, <2>3
    <2>8. \E g : Parse(g, pos)'
      BY <2>5, <2>7 DEF Parse
    <2>9. QED
      BY <2>1, <2>5, <2>6, <2>8 DEF Reading
  <1>3. CASE ReadEnd
    <2>1. PICK f : Parse(f, pos) /\ pos = Len(text)
      BY <1>3 DEF ReadEnd, Reading
    <2>2. phase' = "general" /\ UNCHANGED <<text, sections>>
      BY <1>3 DEF ReadEnd
    <2>3. PICK n \in Nat : n = Len(text)
      BY <1>1
    <2>4. Parse(f, n)'
      BY <1>0, <2>1, <2>2, <2>3, ParseKept
    <2>5. Parse(f, Len(text))'
      BY <2>2, <2>3, <2>4 DEF Parse
    <2>6. QED
      BY <2>2, <2>5 DEF Reading
  <1>4. ASSUME UNCHANGED <<text, sections>>, phase \in {"general", "patterns"},
               phase' \in {"general", "patterns"}
        PROVE  Reading'
    <2>1. PICK f : Parse(f, Len(text))
      BY <1>4 DEF Reading
    <2>2. PICK n \in Nat : n = Len(text)
      BY <1>1
    <2>3. Parse(f, n)'
      BY <1>0, <1>4, <2>1, <2>2, ParseKept
    <2>4. Parse(f, Len(text))'
      BY <1>4, <2>2, <2>3 DEF Parse
    <2>5. phase' # "read"
      BY <1>4
    <2>6. QED
      BY <1>4, <2>4, <2>5 DEF Reading
  <1>5. CASE LoadSetting \/ FirstPattern \/ StorePattern
    BY <1>4, <1>5 DEF LoadSetting, FirstPattern, StorePattern
  <1>6. CASE EndPatterns \/ AddWatches \/ Appears
    BY <1>6 DEF EndPatterns, AddWatches, Appears, Reading
  <1>7. CASE UNCHANGED vars
    <2>1. UNCHANGED <<text, pos, sections, current, phase>>
      BY <1>7 DEF vars
    <2>2. CASE phase = "read"
      <3>1. PICK f : Parse(f, pos)
        BY <2>2 DEF Reading
      <3>2. PICK n \in Nat : n = pos
        BY <1>1
      <3>3. Parse(f, n)'
        BY <1>0, <2>1, <3>1, <3>2, ParseKept
      <3>4. Parse(f, pos)'
        BY <2>1, <3>2, <3>3 DEF Parse
      <3>5. QED
        BY <2>1, <2>2, <3>4 DEF Reading
    <2>3. CASE phase \in {"general", "patterns"}
      BY <1>4, <2>1, <2>3
    <2>4. CASE phase \notin {"read", "general", "patterns"}
      BY <2>1, <2>4 DEF Reading
    <2>5. QED
      BY <2>2, <2>3, <2>4
  <1>8. QED
    BY <1>2, <1>3, <1>5, <1>6, <1>7 DEF Next

LEMMA KeysFacts ==
  /\ Len(Keys) = 6 /\ DOMAIN Keys = 1 .. 6
  /\ \A i, j \in DOMAIN Keys : Keys[i] = Keys[j] => i = j
  /\ \A key \in Range(Keys) : \E j \in DOMAIN Keys : Keys[j] = key
  /\ \A j \in DOMAIN Keys : Keys[j] \in Range(Keys)
  <1>1. Len(Keys) = 6 /\ DOMAIN Keys = 1 .. 6
    BY DEF Keys
  <1>2. \A i, j \in 1 .. 6 : Keys[i] = Keys[j] => i = j
    BY DEF Keys
  <1>3. QED
    BY <1>1, <1>2 DEF Range

\* What the look-up of a setting finds is what the only section GENERAL gives.
LEMMA LookedUp ==
  ASSUME Typing, Reading, phase = "general", Cardinality(Generals) <= 1, NEW key
  PROVE  LET v == ValueIn(FindSection(current, General), key)
         IN  Written(key) = IF v = Undefined THEN Default[key] ELSE Applied(key, v, Default[key])
  <1> DEFINE s == FindSection(current, General)
             v == ValueIn(s, key)
  <1>1. PICK f : Parse(f, Len(text))
    BY DEF Reading
  <1>2. \A h \in Heads : h <= Len(text)
    BY SeqFacts DEF Typing, Heads
  <1>3. DOMAIN sections = 1 .. Len(sections) /\ Len(sections) \in Nat
    BY SeqFacts DEF Typing
  <1>4. CASE s = 0
    <2>1. \A t \in DOMAIN sections : sections[t].name # General
      BY <1>4, FindFacts
    <2>2. Generals = {}
      BY <1>1, <1>2, <2>1 DEF Generals, Parse
    <2>3. v = Undefined
      BY <1>4 DEF ValueIn
    <2>4. QED
      BY <2>2, <2>3 DEF Written
  <1>5. CASE s # 0
    <2>1. s \in DOMAIN sections /\ sections[s].name = General
      BY <1>3, <1>5, FindFacts
    <2>2. f[s] \in Generals
      BY <1>1, <2>1 DEF Generals, Parse
    <2>3. \A h \in Generals : h = f[s]
      BY <2>2, OneHead
    <2>4. (CHOOSE h \in Generals : TRUE) = f[s]
      <3>1. (CHOOSE h \in Generals : TRUE) \in Generals
        BY <2>2
      <3>2. QED
        BY <2>3, <3>1
    <2>5. v = Given(f[s], key)
      <3>1. v = Value(sections[s].kvs, key)
        BY <1>5, ValueInIs
      <3>2. Given(f[s], key) = GivenUpto(f[s], key, Len(text))
        BY GivenIs
      <3>3. QED
        BY <1>1, <2>1, <3>1, <3>2 DEF Parse, Same
    <2>6. QED
      BY <2>2, <2>3, <2>4, <2>5 DEF Written
  <1>6. QED
    BY <1>4, <1>5

LEMMA SettingStep == Inv /\ Reading /\ Setting /\ [Next]_vars => Setting'
  <1> SUFFICES ASSUME Inv, Reading, Setting, [Next]_vars PROVE Setting'
    OBVIOUS
  <1> USE DEF handle
  <1>0. Typing /\ Typing' /\ pos \in Nat
    BY TypingStep DEF Inv, Typing
  <1>1. text' = text
    BY DEF Next, ReadLine, ReadEnd, LoadSetting, FirstPattern, StorePattern, EndPatterns,
           AddWatches, Appears, vars
  <1>2. Generals' = Generals /\ \A key : Written(key)' = Written(key)
    BY <1>0, <1>1, Rigid
  <1>3. ASSUME UNCHANGED settings, \A key \in Range(Keys) : Done(key)' = Done(key),
               phase' = "general" => pos' >= 1
        PROVE  Setting'
    BY <1>2, <1>3 DEF Setting
  <1>4. CASE ReadLine
    <2>1. phase = "read" /\ phase' = "read" /\ settings' = settings
      BY <1>4 DEF ReadLine
    <2>2. QED
      BY <1>3, <2>1 DEF Done
  <1>5. CASE ReadEnd
    <2>1. phase = "read" /\ phase' = "general" /\ pos' = 1 /\ settings' = settings
      BY <1>5 DEF ReadEnd
    <2>2. \A j \in DOMAIN Keys : ~ (j < 1)
      BY KeysFacts
    <2>3. \A key : Done(key)' = Done(key)
      BY <2>1, <2>2 DEF Done
    <2>4. QED
      BY <1>3, <2>1, <2>3
  <1>6. CASE LoadSetting
    <2> DEFINE s == FindSection(current, General)
               k == Keys[pos]
               v == ValueIn(s, k)
    <2>1. /\ phase = "general" /\ phase' = "general" /\ pos <= 6 /\ pos' = pos + 1
          /\ settings' = IF v = Undefined THEN settings
                         ELSE [settings EXCEPT ![k] = Applied(k, v, settings[k])]
      BY <1>6, KeysFacts DEF LoadSetting
    <2>2. pos >= 1 /\ pos \in DOMAIN Keys /\ pos' >= 1
      BY <1>0, <2>1, KeysFacts DEF Setting
    <2>3. ASSUME NEW key \in Range(Keys)
          PROVE  Done(key)' <=> Done(key) \/ key = k
      <3>1. Done(key) <=> \E j \in DOMAIN Keys : j < pos /\ Keys[j] = key
        BY <2>1 DEF Done
      <3>2. Done(key)' <=> \E j \in DOMAIN Keys : j < pos + 1 /\ Keys[j] = key
        BY <2>1 DEF Done
      <3>3. \A j \in DOMAIN Keys : j < pos + 1 <=> j < pos \/ j = pos
        BY <1>0, KeysFacts
      <3>4. QED
        BY <2>2, <3>1, <3>2, <3>3
    <2>4. ~ Done(k) /\ k \in Range(Keys)
      <3>1. ASSUME NEW j \in DOMAIN Keys, j < pos, Keys[j] = Keys[pos]
            PROVE  FALSE
        <4>1. j = pos
          BY <2>2, <3>1, KeysFacts
        <4>2. QED
          BY <1>0, <3>1, <4>1
      <3>2. QED
        BY <2>1, <2>2, <3>1, KeysFacts DEF Done
    <2>5. DOMAIN settings' = Range(Keys)
      BY <2>1 DEF Setting
    <2>6. ASSUME Cardinality(Generals) <= 1, NEW key \in Range(Keys)
          PROVE  settings'[key] = IF Done(key) \/ key = k THEN Written(key) ELSE Default[key]
      <3>1. settings[key] = IF Done(key) THEN Written(key) ELSE Default[key]
        BY <2>6 DEF Setting
      <3>2. CASE key # k
        <4>1. settings'[key] = settings[key]
          BY <2>1, <3>2
        <4>2. QED
          BY <3>1, <3>2, <4>1
      <3>3. CASE key = k
        <4>1. settings[k] = Default[k]
          BY <2>4, <3>1, <3>3
        <4>2. settings'[k] = IF v = Undefined THEN Default[k] ELSE Applied(k, v, Default[k])
          BY <2>1, <2>4, <4>1 DEF Setting
        <4>3. Written(k) = IF v = Undefined THEN Default[k] ELSE Applied(k, v, Default[k])
          BY <1>0, <2>1, <2>6, LookedUp
        <4>4. QED
          BY <3>3, <4>2, <4>3
      <3>4. QED
        BY <3>2, <3>3
    <2>7. QED
      BY <1>2, <2>2, <2>3, <2>5, <2>6 DEF Setting
  <1>7. CASE FirstPattern
    <2>1. phase = "general" /\ phase' = "patterns" /\ settings' = settings /\ pos > 6
      BY <1>7, KeysFacts DEF FirstPattern
    <2>2. \A j \in DOMAIN Keys : j < pos
      BY <1>0, <2>1, KeysFacts
    <2>3. \A key \in Range(Keys) : Done(key) = TRUE /\ Done(key)' = TRUE
      BY <2>1, <2>2, KeysFacts DEF Done
    <2>4. QED
      BY <1>3, <2>1, <2>3
  <1>8. CASE StorePattern \/ EndPatterns \/ AddWatches \/ Appears
    <2>1. phase \notin {"read", "general"} /\ phase' \notin {"read", "general"}
          /\ settings' = settings
      BY <1>8 DEF StorePattern, EndPatterns, AddWatches, Appears
    <2>2. \A key : Done(key) = TRUE /\ Done(key)' = TRUE
      BY <2>1 DEF Done
    <2>3. QED
      BY <1>3, <2>1, <2>2
  <1>9. CASE UNCHANGED vars
    <2>1. settings' = settings /\ phase' = phase /\ pos' = pos
      BY <1>9 DEF vars
    <2>2. \A key : Done(key)' = Done(key)
      BY <2>1 DEF Done
    <2>3. QED
      BY <1>3, <2>1, <2>2 DEF Setting
  <1>10. QED
    BY <1>4, <1>5, <1>6, <1>7, <1>8, <1>9 DEF Next
-----------------------------------------------------------------------------
(* The configurations.                                                     *)

Events     == {h \in Heads : IsBase(Name(h))}
Pattern(h) == Given(h, "matching_pattern") # Undefined
Below(b)   == {h \in Configured : h < b}
Place(h) == Cardinality({g \in Configured : g <= h})

\* Configuration r is made of the section of head h.
From(r, h) ==
  /\ r.event = Given(h, "eventname")
  /\ r.pattern = Given(h, "matching_pattern")
  /\ r.dir = (Given(h, "type") = "dir")
  /\ Given(h, "path_trigger") # Undefined => r.path = Given(h, "path_trigger")
  /\ r.linked = IF Given(h, "path_linked") = Undefined THEN None ELSE Given(h, "path_linked")
  /\ r.class = IF Given(h, "event_class") \in {"ERROR", "INFO"} THEN Given(h, "event_class")
               ELSE "CRASH"

\* The sections for events before line b have been taken, and the next one is there.
Taken(b) ==
  /\ current = 0 => b = Len(text) + 1
  /\ current # 0 => \E f : Parse(f, Len(text)) /\ f[current] = b /\ b \in Events
  /\ \A g \in Events : g < b => Pattern(g)
  /\ Len(configs) = Cardinality(Below(b))
Storing ==
  /\ CASE phase \in {"read", "general"} -> configs = << >>
       [] phase = "patterns" -> \E b \in Nat : Taken(b)
       [] OTHER -> Len(configs) = Cardinality(Configured)
  /\ \A c \in DOMAIN configs : \E h \in Configured : Place(h) = c /\ From(configs[c], h)

LEMMA ConfiguredIs ==
  Configured = {h \in Events : /\ \A g \in Events : g <= h => Pattern(g)
                               /\ Given(h, "module") = "modem" /\ Given(h, "eventname") # Undefined}
  BY DEF Configured, Events, Pattern

LEMMA HeadsFinite ==
  ASSUME Typing
  PROVE  /\ Len(text) \in Nat /\ \A h \in Heads : h \in Nat /\ h <= Len(text)
         /\ Configured \subseteq Heads /\ Events \subseteq Heads
         /\ IsFiniteSet(Configured) /\ Cardinality(Configured) \in Nat
         /\ \A T \in SUBSET Configured :
              IsFiniteSet(T) /\ Cardinality(T) \in Nat /\ Cardinality(T) <= Cardinality(Configured)
  <1>1. Len(text) \in Nat /\ DOMAIN text = 1 .. Len(text) /\ Heads \subseteq 1 .. Len(text)
    BY SeqFacts DEF Typing, Heads
  <1>2. Events \subseteq Heads
    BY DEF Events
  <1>3. Configured \subseteq Heads
    BY <1>2, ConfiguredIs
  <1>4. Configured \subseteq 1 .. Len(text)
    BY <1>1, <1>3
  <1>5. IsFiniteSet(Configured) /\ Cardinality(Configured) \in Nat
    <2>1. IsFiniteSet(1 .. Len(text))
      BY <1>1, FS_Interval
    <2>2. QED
      BY <1>4, <2>1, FS_Subset, FS_CardinalityType
  <1>6. \A T \in SUBSET Configured :
          IsFiniteSet(T) /\ Cardinality(T) \in Nat /\ Cardinality(T) <= Cardinality(Configured)
    BY <1>5, FS_Subset, FS_CardinalityType
  <1>7. \A h \in Heads : h \in Nat /\ h <= Len(text)
    BY <1>1
  <1>8. QED
    BY <1>1, <1>2, <1>3, <1>5, <1>6, <1>7

LEMMA RigidToo ==
  ASSUME Typing, Typing', UNCHANGED text
  PROVE  /\ Events' = Events /\ Configured' = Configured
         /\ \A h : Pattern(h)' = Pattern(h) /\ Place(h)' = Place(h) /\ Below(h)' = Below(h)
         /\ \A r, h : From(r, h)' = From(r, h)
  <1>1. Heads' = Heads /\ (\A h : Name(h)' = Name(h)) /\ (\A h, key : Given(h, key)' = Given(h, key))
    BY Rigid
  <1>2. Events' = Events /\ \A h : Pattern(h)' = Pattern(h)
    BY <1>1 DEF Events, Pattern
  <1>3. Configured' = {h \in Events : /\ \A g \in Events : g <= h => Pattern(g)
                                      /\ Given(h, "module") = "modem"
                                      /\ Given(h, "eventname") # Undefined}'
    BY <1>1, <1>2 DEF Configured, Events, Pattern
  <1>4. Configured' = Configured
    BY <1>1, <1>2, <1>3, ConfiguredIs
  <1>5. QED
    BY <1>1, <1>2, <1>4 DEF Place, Below, From

\* The section that get_first_section_name or get_next_section_name goes to.
LEMMA NextEvent ==
  ASSUME Typing, NEW f, Parse(f, Len(text)), NEW i \in Nat \ {0}
  PROVE  LET s == FirstFrom(i, IsBase)
         IN  /\ s # 0 => /\ s \in DOMAIN sections /\ s >= i /\ f[s] \in Events
                         /\ \A g \in Events : g < f[s] =>
                              \E t \in DOMAIN sections : t < i /\ f[t] = g
             /\ s = 0 => \A g \in Events : \E t \in DOMAIN sections : t < i /\ f[t] = g
  <1> DEFINE s    == FirstFrom(i, IsBase)
             with == {j \in i .. Len(sections) : IsBase(sections[j].name)}
  <1>0. Len(sections) \in Nat /\ DOMAIN sections = 1 .. Len(sections)
    BY SeqFacts DEF Typing
  <1>1. s = IF with = {} THEN 0 ELSE First(with)
    BY DEF FirstFrom, First
  <1>2. with \in SUBSET Nat /\ with \subseteq DOMAIN sections
    BY <1>0
  <1>3. \A h \in Heads : h \in Nat /\ h <= Len(text)
    BY HeadsFinite
  <1>4. ASSUME NEW g \in Events
        PROVE  \E t \in DOMAIN sections : f[t] = g /\ (t < i \/ t \in with)
    <2>1. g \in Heads /\ IsBase(Name(g))
      BY DEF Events
    <2>2. PICK t \in DOMAIN sections : f[t] = g
      BY <1>3, <2>1 DEF Parse
    <2>3. IsBase(sections[t].name)
      BY <2>1, <2>2 DEF Parse
    <2>4. t < i \/ t \in with
      BY <1>0, <2>3
    <2>5. QED
      BY <2>2, <2>4
  <1>5. CASE with = {}
    BY <1>1, <1>4, <1>5
  <1>6. CASE with # {}
    <2>1. s \in with /\ \A j \in with : s <= j
      BY <1>1, <1>2, <1>6, FirstFacts
    <2>2. s \in DOMAIN sections /\ s >= i /\ s # 0 /\ IsBase(sections[s].name) /\ s \in Nat
      <3>1. s \in i .. Len(sections) /\ IsBase(sections[s].name)
        BY <2>1
      <3>2. QED
        BY <1>0, <3>1
    <2>3. f[s] \in Events
      BY <2>2 DEF Parse, Events
    <2>4. ASSUME NEW g \in Events, g < f[s]
          PROVE  \E t \in DOMAIN sections : t < i /\ f[t] = g
      <3>1. PICK t \in DOMAIN sections : f[t] = g /\ (t < i \/ t \in with)
        BY <1>4
      <3>2. t \notin with
        <4>1. ASSUME t \in with
              PROVE  FALSE
          <5>1. s <= t /\ s \in Nat /\ t \in Nat
            BY <1>2, <2>1, <4>1
          <5>2. f[s] = f[t] \/ f[s] < f[t]
            <6>1. s = t \/ s < t
              BY <5>1
            <6>2. QED
              BY <2>2, <6>1 DEF Parse
          <5>3. f[s] \in Nat /\ f[t] \in Nat
            BY <1>3, <2>2 DEF Parse
          <5>4. QED
            BY <2>4, <3>1, <5>2, <5>3
        <4>2. QED
          BY <4>1
      <3>3. QED
        BY <3>1, <3>2
    <2>5. QED
      BY <2>2, <2>3, <2>4
  <1>7. QED
    BY <1>5, <1>6

\* What the step to the section behind i (0 before the first) makes true.
LEMMA TakenNext ==
  ASSUME Typing, Typing', UNCHANGED <<text, sections>>, NEW f, Parse(f, Len(text)),
         NEW i \in 0 .. Len(sections), current' = FirstFrom(i + 1, IsBase),
         \A g \in Events, t \in DOMAIN sections : t <= i /\ f[t] = g => Pattern(g),
         Len(configs') = Cardinality({h \in Configured : \E t \in DOMAIN sections : t <= i /\ f[t] = h})
  PROVE  \E b \in Nat : Taken(b)'
  <1>0. /\ Len(sections) \in Nat /\ DOMAIN sections = 1 .. Len(sections) /\ i \in Nat
        /\ Len(text) \in Nat /\ (\A h \in Heads : h \in Nat /\ h <= Len(text))
        /\ Configured \subseteq Heads /\ Events \subseteq Heads
    BY SeqFacts, HeadsFinite DEF Typing
  <1>1. /\ Events' = Events /\ Configured' = Configured
        /\ \A h : Pattern(h)' = Pattern(h) /\ Below(h)' = Below(h)
    BY RigidToo
  <1>2. \A t \in DOMAIN sections : t < i + 1 <=> t <= i
    BY <1>0
  <1>3. PICK s : s = FirstFrom(i + 1, IsBase)
    OBVIOUS
  <1>4. /\ s # 0 => /\ s \in DOMAIN sections /\ s >= i + 1 /\ f[s] \in Events
                    /\ \A g \in Events : g < f[s] => \E t \in DOMAIN sections : t <= i /\ f[t] = g
        /\ s = 0 => \A g \in Events : \E t \in DOMAIN sections : t <= i /\ f[t] = g
    <2>1. i + 1 \in Nat \ {0}
      BY <1>0
    <2>2. QED
      BY <1>2, <1>3, <2>1, NextEvent
  <1>5. Configured \subseteq Events
    BY ConfiguredIs
  <1>6. PICK b \in Nat : b = IF s = 0 THEN Len(text) + 1 ELSE f[s]
    BY <1>0, <1>4
  <1>7. \A g \in Events : g < b => \E t \in DOMAIN sections : t <= i /\ f[t] = g
    BY <1>4, <1>6
  <1>8. \A t \in DOMAIN sections : t <= i => f[t] < b
    <2>1. ASSUME NEW t \in DOMAIN sections, t <= i
          PROVE  f[t] < b
      <3>1. f[t] \in Nat /\ f[t] <= Len(text)
        BY <1>0 DEF Parse
      <3>2. CASE s = 0
        BY <1>0, <1>6, <3>1, <3>2
      <3>3. CASE s # 0
        <4>1. t < s /\ s \in DOMAIN sections
          BY <1>0, <1>4, <2>1, <3>3
        <4>2. QED
          BY <1>6, <3>3, <4>1 DEF Parse
      <3>4. QED
        BY <3>2, <3>3
    <2>2. QED
      BY <2>1
  <1>9. Below(b) = {h \in Configured : \E t \in DOMAIN sections : t <= i /\ f[t] = h}
    BY <1>5, <1>7, <1>8 DEF Below
  <1>10. PICK n \in Nat : n = Len(text)
    BY <1>0
  <1>11. Parse(f, n)'
    BY <1>10, ParseKept
  <1>12. Parse(f, Len(text))'
    BY <1>10, <1>11 DEF Parse
  <1>13. current' = s /\ Len(text)' = Len(text)
    BY <1>3
  <1>14. Taken(b)'
    <2>1. current' = 0 => b = Len(text)' + 1
      BY <1>6, <1>13
    <2>2. current' # 0 => f[current'] = b /\ b \in Events'
      BY <1>1, <1>4, <1>6, <1>13
    <2>3. \A g \in Events' : g < b => Pattern(g)'
      BY <1>1, <1>7
    <2>4. Len(configs') = Cardinality(Below(b)')
      BY <1>1, <1>9
    <2>5. QED
      BY <1>12, <2>1, <2>2, <2>3, <2>4 DEF Taken
  <1>15. QED
    BY <1>14

\* A configuration that store_config makes is made of its section.
LEMMA StoredFrom ==
  ASSUME Typing, NEW f, Parse(f, Len(text)), NEW s \in DOMAIN sections, NEW r \in Stored(s)
  PROVE  From(r, f[s])
  <1>1. ASSUME NEW key
        PROVE  ValueIn(s, key) = Given(f[s], key)
    <2>1. s # 0
      BY SeqFacts DEF Typing
    <2>2. ValueIn(s, key) = Value(sections[s].kvs, key)
      BY <2>1, ValueInIs
    <2>3. Given(f[s], key) = GivenUpto(f[s], key, Len(text))
      BY GivenIs
    <2>4. QED
      BY <2>2, <2>3 DEF Parse, Same
  <1>2. PICK path \in IF ValueIn(s, "path_trigger") = Undefined THEN {None, "left over"}
                      ELSE {ValueIn(s, "path_trigger")} :
          r = [event |-> ValueIn(s, "eventname"), pattern |-> ValueIn(s, "matching_pattern"),
               dir |-> IsDir(ValueOr(s, "type", "file")), path |-> path,
               linked |-> ValueOr(s, "path_linked", None),
               class |-> Class(ValueOr(s, "event_class", "CRASH"))]
    BY Zenon DEF Stored
  <1>3. r.event = Given(f[s], "eventname") /\ r.pattern = Given(f[s], "matching_pattern")
    BY <1>1, <1>2
  <1>4. r.dir = (Given(f[s], "type") = "dir")
    <2>1. r.dir = IsDir(ValueOr(s, "type", "file"))
      BY <1>2
    <2>2. ValueOr(s, "type", "file") = "dir" <=> Given(f[s], "type") = "dir"
      BY <1>1 DEF ValueOr, Undefined
    <2>3. QED
      BY <2>1, <2>2 DEF IsDir
  <1>5. Given(f[s], "path_trigger") # Undefined => r.path = Given(f[s], "path_trigger")
    <2>1. r.path = path
      BY <1>2
    <2>2. ValueIn(s, "path_trigger") # Undefined => path = ValueIn(s, "path_trigger")
      BY <1>2
    <2>3. QED
      BY <1>1, <2>1, <2>2
  <1>6. r.linked = IF Given(f[s], "path_linked") = Undefined THEN None ELSE Given(f[s], "path_linked")
    <2>1. r.linked = ValueOr(s, "path_linked", None)
      BY <1>2
    <2>2. ValueIn(s, "path_linked") = Given(f[s], "path_linked")
      BY <1>1
    <2>3. QED
      BY <2>1, <2>2 DEF ValueOr
  <1>7. r.class = IF Given(f[s], "event_class") \in {"ERROR", "INFO"}
                  THEN Given(f[s], "event_class") ELSE "CRASH"
    <2>1. r.class = Class(ValueOr(s, "event_class", "CRASH"))
      BY <1>2
    <2>2. ValueIn(s, "event_class") = Given(f[s], "event_class")
      BY <1>1
    <2>3. CASE Given(f[s], "event_class") = Undefined
      BY <2>1, <2>2, <2>3 DEF ValueOr, Class, Undefined
    <2>4. CASE Given(f[s], "event_class") # Undefined
      BY <2>1, <2>2, <2>4 DEF ValueOr, Class
    <2>5. QED
      BY <2>3, <2>4
  <1>8. QED
    BY <1>3, <1>4, <1>5, <1>6, <1>7 DEF From

LEMMA StoringStep == Inv /\ Reading /\ Storing /\ [Next]_vars => Storing'
  <1> SUFFICES ASSUME Inv, Reading, Storing, [Next]_vars PROVE Storing'
    OBVIOUS
  <1> USE DEF handle
  <1>0. Typing /\ Typing' /\ configs \in Seq(Made) /\ Len(configs) \in Nat
        /\ DOMAIN configs = 1 .. Len(configs)
    BY TypingStep, SeqFacts DEF Inv, Typing
  <1>1. text' = text
    BY DEF Next, ReadLine, ReadEnd, LoadSetting, FirstPattern, StorePattern, EndPatterns,
           AddWatches, Appears, vars
  <1>2. /\ Events' = Events /\ Configured' = Configured
        /\ \A h : Pattern(h)' = Pattern(h) /\ Place(h)' = Place(h) /\ Below(h)' = Below(h)
        /\ \A r, h : From(r, h)' = From(r, h)
    BY <1>0, <1>1, RigidToo
  <1>3. ASSUME configs' = configs
        PROVE  \A c \in DOMAIN configs' : \E h \in Configured' : Place(h)' = c /\ From(configs[c], h)'
    BY <1>2, <1>3 DEF Storing
  <1>4. CASE ReadLine \/ ReadEnd \/ LoadSetting
    <2>1. phase \in {"read", "general"} /\ phase' \in {"read", "general"} /\ configs' = configs
      BY <1>4 DEF ReadLine, ReadEnd, LoadSetting
    <2>2. QED
      BY <1>3, <2>1 DEF Storing
  <1>5. CASE FirstPattern
    <2>1. /\ phase = "general" /\ phase' = "patterns" /\ current' = FirstFrom(1, IsBase)
          /\ UNCHANGED <<text, sections, configs>>
      BY <1>5 DEF FirstPattern, FirstNamed
    <2>2. PICK f : Parse(f, Len(text))
      BY <2>1 DEF Reading
    <2>3. DOMAIN sections = 1 .. Len(sections) /\ Len(sections) \in Nat
      BY <1>0, SeqFacts DEF Typing
    <2>4. \A t \in DOMAIN sections : ~ (t <= 0)
      BY <2>3
    <2>5. Len(configs') = 0
      BY <2>1 DEF Storing
    <2>6. Cardinality({h \in Configured : \E t \in DOMAIN sections : t <= 0 /\ f[t] = h}) = 0
      <3>1. {h \in Configured : \E t \in DOMAIN sections : t <= 0 /\ f[t] = h} = {}
        BY <2>4
      <3>2. QED
        BY <3>1, FS_EmptySet
    <2>7. 0 \in 0 .. Len(sections) /\ 0 + 1 = 1
      BY <2>3
    <2>8. PICK i : i = 0
      OBVIOUS
    <2>9. \E b \in Nat : Taken(b)'
      BY <1>0, <2>1, <2>2, <2>4, <2>5, <2>6, <2>7, <2>8, TakenNext
    <2>10. QED
      BY <1>3, <2>1, <2>9 DEF Storing
  <1>6. CASE StorePattern
    <2> DEFINE s == FindSection(current, sections[current].name)
    <2>1. /\ phase = "patterns" /\ phase' = "patterns" /\ current # 0
          /\ ValueIn(s, "matching_pattern") # Undefined
          /\ IF Accepted(s) THEN \E c \in Stored(s) : configs' = Append(configs, c)
             ELSE UNCHANGED configs
          /\ current' = NextNamed(s) /\ UNCHANGED <<text, sections>>
      BY <1>6 DEF StorePattern
    <2>2. PICK b \in Nat : Taken(b)
      BY <2>1 DEF Storing
    <2>3. PICK f : Parse(f, Len(text)) /\ f[current] = b /\ b \in Events
      BY <2>1, <2>2 DEF Taken
    <2>4. s = current
      BY <2>1 DEF FindSection
    <2>5. /\ DOMAIN sections = 1 .. Len(sections) /\ Len(sections) \in Nat
          /\ current \in DOMAIN sections /\ current \in 0 .. Len(sections)
      BY <1>0, <2>1, SeqFacts DEF Typing
    <2> HIDE DEF s
    <2>6. \A key : ValueIn(s, key) = Given(b, key)
      <3>1. \A key : ValueIn(s, key) = Value(sections[s].kvs, key)
        BY <2>1, <2>4, ValueInIs
      <3>2. \A key : Given(b, key) = GivenUpto(b, key, Len(text))
        BY <1>0, GivenIs
      <3>3. QED
        BY <2>3, <2>4, <2>5, <3>1, <3>2 DEF Parse, Same
    <2>7. Pattern(b) /\ \A g \in Events : g <= b => Pattern(g)
      <3>1. Pattern(b)
        BY <2>1, <2>6 DEF Pattern
      <3>2. ASSUME NEW g \in Events, g <= b
            PROVE  Pattern(g)
        <4>1. g \in Nat
          BY <1>0, HeadsFinite
        <4>2. g = b \/ g < b
          BY <3>2, <4>1
        <4>3. QED
          BY <2>2, <3>1, <4>2 DEF Taken
      <3>3. QED
        BY <3>1, <3>2
    <2>8. Accepted(s) <=> b \in Configured
      <3>1. Accepted(s) <=> Given(b, "module") = "modem" /\ Given(b, "eventname") # Undefined
                            /\ Given(b, "matching_pattern") # Undefined
        BY <2>6 DEF Accepted, ValueOr, Undefined
      <3>2. QED
        BY <2>3, <2>7, <3>1, ConfiguredIs DEF Pattern
    <2>9. \A t \in DOMAIN sections : t <= current <=> f[t] <= b
      <3>1. ASSUME NEW t \in DOMAIN sections
            PROVE  t <= current <=> f[t] <= b
        <4>1. t < current \/ t = current \/ current < t
          BY <2>5
        <4>2. f[t] \in Nat
          BY <1>0, <2>3, HeadsFinite DEF Parse
        <4>3. CASE t < current
          BY <2>3, <2>5, <4>2, <4>3 DEF Parse
        <4>4. CASE t = current
          BY <2>3, <2>5, <4>2, <4>4
        <4>5. CASE current < t
          <5>1. b < f[t]
            BY <2>3, <2>5, <4>5 DEF Parse
          <5>2. QED
            BY <2>5, <4>2, <4>5, <5>1
        <4>6. QED
          BY <4>1, <4>3, <4>4, <4>5
      <3>2. QED
        BY <3>1
    <2>10. \A g \in Events, t \in DOMAIN sections : t <= current /\ f[t] = g => Pattern(g)
      BY <2>7, <2>9
    <2> DEFINE upto == {h \in Configured : \E t \in DOMAIN sections : t <= current /\ f[t] = h}
    <2>11. upto = {h \in Configured : h <= b}
      <3>1. \A h \in Configured : \E t \in DOMAIN sections : f[t] = h
        BY <1>0, <2>3, HeadsFinite DEF Parse
      <3>2. QED
        BY <2>9, <3>1
    <2> HIDE DEF upto
    <2>12. upto = Below(b) \cup IF b \in Configured THEN {b} ELSE {}
      <3>1. \A h \in Configured : h <= b <=> h < b \/ h = b
        BY <1>0, HeadsFinite
      <3>2. QED
        BY <2>11, <3>1 DEF Below
    <2>13. /\ IsFiniteSet(Below(b)) /\ b \notin Below(b) /\ Cardinality(Below(b)) = Len(configs)
      <3>1. Below(b) \subseteq Configured
        BY DEF Below
      <3>2. b \notin Below(b)
        BY <2>2 DEF Below
      <3>3. QED
        BY <1>0, <2>2, <3>1, <3>2, HeadsFinite DEF Taken
    <2>14. /\ Len(configs') = Cardinality(upto)
           /\ \A c \in DOMAIN configs' : \E h \in Configured : Place(h) = c /\ From(configs'[c], h)
      <3>1. CASE Accepted(s)
        <4>1. PICK r \in Stored(s) : configs' = Append(configs, r)
          BY <2>1, <3>1
        <4>2. r \in Made
          BY <1>0, <2>4, <2>5, StoredFacts
        <4>3. From(r, b)
          BY <1>0, <2>3, <2>4, <2>5, StoredFrom
        <4>4. /\ Len(configs') = Len(configs) + 1 /\ DOMAIN configs' = 1 .. Len(configs) + 1
              /\ \A c \in DOMAIN configs : configs'[c] = configs[c]
              /\ configs'[Len(configs) + 1] = r
          BY <1>0, <4>1, <4>2, AppendFacts
        <4>5. b \in Configured
          BY <2>8, <3>1
        <4>6. upto = Below(b) \cup {b}
          BY <2>12, <4>5
        <4>7. Cardinality(upto) = Len(configs) + 1
          BY <2>13, <4>6, FS_AddElement
        <4>8. Place(b) = Len(configs) + 1
          BY <2>11, <4>7 DEF Place
        <4>9. \A c \in DOMAIN configs' : c \in DOMAIN configs \/ c = Len(configs) + 1
          BY <1>0, <4>4
        <4>10. QED
          BY <4>3, <4>4, <4>5, <4>7, <4>8, <4>9 DEF Storing
      <3>2. CASE ~ Accepted(s)
        <4>1. configs' = configs
          BY <2>1, <3>2
        <4>2. upto = Below(b)
          BY <2>8, <2>12, <3>2
        <4>3. QED
          BY <2>13, <4>1, <4>2 DEF Storing
      <3>3. QED
        BY <3>1, <3>2
    <2>15. current' = FirstFrom(current + 1, IsBase)
      BY <2>1, <2>4 DEF NextNamed
    <2>16. PICK i \in 0 .. Len(sections) : i = current
      BY <2>5
    <2>17. \E b2 \in Nat : Taken(b2)'
      <3>1. \A g \in Events, t \in DOMAIN sections : t <= i /\ f[t] = g => Pattern(g)
        BY <2>10, <2>16
      <3>2. Len(configs') = Cardinality({h \in Configured : \E t \in DOMAIN sections : t <= i /\ f[t] = h})
        BY <2>14, <2>16 DEF upto
      <3>3. current' = FirstFrom(i + 1, IsBase)
        BY <2>15, <2>16
      <3>4. QED
        BY <1>0, <2>1, <2>3, <3>1, <3>2, <3>3, TakenNext
    <2>18. \A c \in DOMAIN configs' : \E h \in Configured' : Place(h)' = c /\ From(configs[c], h)'
      BY <1>2, <2>14
    <2>19. QED
      BY <2>1, <2>17, <2>18 DEF Storing
  <1>7. CASE EndPatterns
    <2>1. /\ phase = "patterns" /\ phase' = "loaded" /\ configs' = configs
          /\ current # 0 =>
               ValueIn(FindSection(current, sections[current].name), "matching_pattern") = Undefined
      BY <1>7 DEF EndPatterns
    <2>2. PICK b \in Nat : Taken(b)
      BY <2>1 DEF Storing
    <2>3. Below(b) = Configured
      <3>1. ASSUME NEW g \in Configured
            PROVE  g < b
        <4>1. g \in Nat /\ g <= Len(text) /\ Len(text) \in Nat /\ g \in Events
          BY <1>0, HeadsFinite, ConfiguredIs
        <4>2. CASE current = 0
          BY <2>2, <4>1, <4>2 DEF Taken
        <4>3. CASE current # 0
          <5>1. PICK f : Parse(f, Len(text)) /\ f[current] = b /\ b \in Events
            BY <2>2, <4>3 DEF Taken
          <5>2. FindSection(current, sections[current].name) = current
            BY <4>3 DEF FindSection
          <5>3. current \in DOMAIN sections
            BY <1>0, <4>3, SeqFacts DEF Typing
          <5>4. Value(sections[current].kvs, "matching_pattern") = Undefined
            BY <2>1, <4>3, <5>2, ValueInIs
          <5>5. Given(b, "matching_pattern") = Undefined
            BY <1>0, <5>1, <5>3, <5>4, GivenIs DEF Parse, Same
          <5>6. ~ (b <= g)
            BY <5>1, <5>5, ConfiguredIs DEF Pattern
          <5>7. QED
            BY <4>1, <5>6
        <4>4. QED
          BY <4>2, <4>3
      <3>2. QED
        BY <3>1 DEF Below
    <2>4. Len(configs) = Cardinality(Configured)
      BY <2>2, <2>3 DEF Taken
    <2>5. QED
      BY <1>2, <1>3, <2>1, <2>4 DEF Storing
  <1>8. CASE AddWatches \/ Appears
    <2>1. phase \in {"loaded", "watching"} /\ phase' \in {"loaded", "watching"} /\ configs' = configs
      BY <1>8 DEF AddWatches, Appears
    <2>2. QED
      BY <1>2, <1>3, <2>1 DEF Storing
  <1>9. CASE UNCHANGED vars
    <2>1. UNCHANGED <<text, sections, current, phase, configs>>
      BY <1>9 DEF vars
    <2>2. CASE phase = "patterns"
      <3>1. PICK b \in Nat : Taken(b)
        BY <2>2 DEF Storing
      <3>2. PICK n \in Nat : n = Len(text)
        BY <1>0, HeadsFinite
      <3>3. \A f : Parse(f, n) => Parse(f, n)'
        BY <1>0, <2>1, ParseKept
      <3>4. \A f : Parse(f, Len(text)) => Parse(f, Len(text))'
        BY <2>1, <3>2, <3>3 DEF Parse
      <3>5. Taken(b)'
        BY <1>2, <2>1, <3>1, <3>4 DEF Taken
      <3>6. QED
        BY <1>3, <2>1, <2>2, <3>5 DEF Storing
    <2>3. CASE phase # "patterns"
      BY <1>2, <1>3, <2>1, <2>3 DEF Storing
    <2>4. QED
      BY <2>2, <2>3
  <1>10. QED
    BY <1>4, <1>5, <1>6, <1>7, <1>8, <1>9 DEF Next
-----------------------------------------------------------------------------
(* The theorems.                                                           *)

\* The list of sections, the settings and the configurations agree with the file throughout.
THEOREM LoadInvariant == Spec => [](Inv /\ Reading /\ Setting /\ Storing)
  <1>1. Init => Inv /\ Reading /\ Setting /\ Storing
    BY InitOK, ReadingInit DEF Init, Storing
  <1>2. Inv /\ Reading /\ Setting /\ Storing /\ [Next]_vars
          => (Inv /\ Reading /\ Setting /\ Storing)'
    BY TypingStep, WatchStep, ReadingStep, SettingStep, StoringStep DEF Inv
  <1>3. QED
    BY <1>1, <1>2, PTL DEF Spec

\* For every file, the settings in force are those that its only section GENERAL gives,
\* wherever that section is and whatever the cursor was on.
THEOREM SettingsTrue == Spec => []SettingsAsWritten
  <1>1. Setting => SettingsAsWritten
    BY DEF Setting, Done, Written, Generals, SettingsAsWritten
  <1>2. QED
    BY <1>1, LoadInvariant, PTL

\* For every file, there is one configuration for each section that configures one, in their
\* order, and it is made of the lines of that section alone.
THEOREM ConfigsTrue == Spec => []ConfigsAsWritten
  <1>1. Inv /\ Storing => ConfigsAsWritten
    <2> SUFFICES ASSUME Inv, Storing PROVE ConfigsAsWritten
      OBVIOUS
    <2>1. Typing
      BY DEF Inv
    <2>2. Len(configs) <= Cardinality(Configured)
      <3>1. CASE phase \in {"read", "general"}
        <4>1. Len(configs) = 0
          BY <3>1 DEF Storing
        <4>2. QED
          BY <2>1, <4>1, HeadsFinite
      <3>2. CASE phase = "patterns"
        <4>1. PICK b \in Nat : Len(configs) = Cardinality(Below(b))
          BY <3>2 DEF Storing, Taken
        <4>2. Below(b) \in SUBSET Configured
          BY DEF Below
        <4>3. QED
          BY <2>1, <4>1, <4>2, HeadsFinite
      <3>3. CASE phase \notin {"read", "general", "patterns"}
        BY <2>1, <3>3, HeadsFinite DEF Storing
      <3>4. QED
        BY <3>1, <3>2, <3>3
    <2>3. phase \in {"loaded", "watching"} => Len(configs) = Cardinality(Configured)
      BY DEF Storing
    <2>4. QED
      BY <2>2, <2>3 DEF ConfigsAsWritten, Storing, Place, From
  <1>2. QED
    BY <1>1, LoadInvariant, PTL
=============================================================================
