--------------------------- MODULE DropboxProofs ---------------------------
(***************************************************************************)
(* Proofs about Dropbox, for every number of crashes and faults.           *)
(*                                                                         *)
(* SentOnce rests on the keys being new: a crash that waits in the queue   *)
(* has a key that is not in the ring, not sent, and like no other that     *)
(* waits (Fresh), and a key leaves the ring when it is sent (RingOK).      *)
(*                                                                         *)
(* KeyMatchesFolder rests on the order of the closed files that are still  *)
(* to come.  They are the closed events in the queue and, behind them, the *)
(* last file of the service when its folder is watched: as long as nothing *)
(* was disturbed there are as many as keys in the ring, and they come in   *)
(* the order of the keys from index_cons on (Matched).                     *)
(***************************************************************************)
EXTENDS Dropbox, SequenceTheorems, TLAPS

Events == [type : {"crash", "closed"}, crash : Crashes]

\* No key, watch or broadcast is about crash e yet.
Unused(e) ==
  /\ \A p \in Places : keys[p] # e
  /\ \A b \in sent : b.key # e
  /\ e \notin watched

Waits(i) == i \in DOMAIN queue /\ queue[i].type = "crash"

Fresh ==
  /\ \A i \in DOMAIN queue : Waits(i) => queue[i].crash <= crashes /\ Unused(queue[i].crash)
  /\ \A i, j \in DOMAIN queue : Waits(i) /\ Waits(j) /\ i # j => queue[i].crash # queue[j].crash
  /\ \A e \in Crashes : e > crashes => Unused(e)

\* The two keys differ, and neither was sent.
RingOK ==
  /\ keys[0] # None => keys[0] # keys[1]
  /\ \A p \in Places : \A b \in sent : keys[p] # b.key

\* A service that is stopped has written nothing, and it is shown before it writes.
ServiceOK ==
  /\ service = None => ~shown /\ ~written
  /\ written => shown

\* The last file of the service is still to come, behind what is in the queue.
Writing == service # None /\ service \in watched /\ ~written

\* A file that is still to be closed or handled: where it will be in the queue, and in which
\* folder.
Closing(i) ==
  \/ i \in DOMAIN queue /\ queue[i].type = "closed"
  \/ i = Len(queue) + 1 /\ Writing

Folder(i) == IF i \in DOMAIN queue THEN queue[i].crash ELSE service

\* The places of the queue and the one behind it.
Ahead == 1 .. Len(queue) + 1

Other == NextPlace(cons)

\* The files to come and the keys from index_cons on are the same, in the same order, and
\* index_prod is behind them.
NoneToCome ==
  /\ keys[cons] = None /\ keys[Other] = None /\ prod = cons
  /\ \A k \in Ahead : ~Closing(k)

OneToCome(i) ==
  /\ keys[cons] = Folder(i) /\ keys[Other] = None /\ prod = Other
  /\ Closing(i) /\ \A k \in Ahead : Closing(k) => k = i

TwoToCome(i, j) ==
  /\ keys[cons] = Folder(i) /\ keys[Other] = Folder(j) /\ prod = cons
  /\ i < j /\ Closing(i) /\ Closing(j) /\ \A k \in Ahead : Closing(k) => k \in {i, j}

Matched ==
  \/ NoneToCome
  \/ \E i \in Ahead : OneToCome(i)
  \/ \E i, j \in Ahead : TwoToCome(i, j)

Inv == TypeOK /\ Fresh /\ RingOK /\ SentOnce /\ ServiceOK /\ (~disturbed => Matched)
-----------------------------------------------------------------------------
(* Sequences.                                                              *)

LEMMA SuffixFacts ==
  ASSUME NEW S, NEW s \in Seq(S), NEW n \in 1 .. Len(s)
  PROVE  LET t == SubSeq(s, n + 1, Len(s))
         IN  /\ t \in Seq(S) /\ Len(t) = Len(s) - n /\ DOMAIN t = 1 .. Len(s) - n
             /\ \A i \in DOMAIN t : t[i] = s[i + n]
  <1> DEFINE t == SubSeq(s, n + 1, Len(s))
  <1>1. Len(s) \in Nat /\ \A i \in 1 .. Len(s) : s[i] \in S
    BY LenProperties, ElementOfSeq
  <1>2. n + 1 \in Int /\ Len(s) \in Int /\ \A i \in n + 1 .. Len(s) : s[i] \in S
    BY <1>1
  <1>3. /\ t \in Seq(S)
        /\ Len(t) = IF n + 1 <= Len(s) THEN Len(s) - (n + 1) + 1 ELSE 0
        /\ \A i \in 1 .. Len(s) - (n + 1) + 1 : t[i] = s[n + 1 + i - 1]
    BY <1>2, SubSeqProperties
  <1> HIDE DEF t
  <1>4. Len(t) = Len(s) - n
    BY <1>1, <1>3
  <1>5. DOMAIN t = 1 .. Len(s) - n
    BY <1>3, <1>4, LenProperties
  <1>6. \A i \in 1 .. Len(s) - n : t[i] = s[i + n]
    BY <1>1, <1>3
  <1>7. QED
    BY <1>3, <1>4, <1>5, <1>6 DEF t
-----------------------------------------------------------------------------
(* Numbers, places of the ring and of the queue.                           *)

LEMMA CrashFacts == Crashes \subseteq Nat /\ None \notin Crashes
  BY BoundsAssumption, NoneAssumption DEF Crashes

LEMMA PlaceFacts ==
  /\ Places = {0, 1} /\ NextPlace(0) = 1 /\ NextPlace(1) = 0
  /\ \A i \in Places : NextPlace(i) \in Places /\ NextPlace(i) # i /\ NextPlace(NextPlace(i)) = i
  <1>1. Places = {0, 1}
    BY DEF Places, Size
  <1>2. NextPlace(0) = 1 /\ NextPlace(1) = 0
    BY DEF NextPlace, Size
  <1>3. QED
    BY <1>1, <1>2

LEMMA QueueFacts ==
  ASSUME TypeOK
  PROVE  /\ queue \in Seq(Events) /\ Len(queue) \in Nat /\ DOMAIN queue = 1 .. Len(queue)
         /\ \A i \in DOMAIN queue : queue[i] \in Events /\ queue[i].crash \in Crashes
                                    /\ (queue[i].type = "crash" \/ queue[i].type = "closed")
  <1>1. queue \in Seq(Events)
    BY DEF TypeOK, Events
  <1>2. Len(queue) \in Nat /\ DOMAIN queue = 1 .. Len(queue) /\ \A i \in DOMAIN queue : queue[i] \in Events
    BY <1>1, LenProperties, ElementOfSeq
  <1>3. \A ev \in Events : ev.crash \in Crashes /\ (ev.type = "crash" \/ ev.type = "closed")
    BY DEF Events
  <1>4. QED
    BY <1>1, <1>2, <1>3

LEMMA EventFacts ==
  ASSUME NEW type \in {"crash", "closed"}, NEW e \in Crashes
  PROVE  Event(type, e) \in Events /\ Event(type, e).type = type /\ Event(type, e).crash = e
  BY DEF Event, Events

\* The first event is taken off the queue.
LEMMA HeadFacts ==
  ASSUME TypeOK, NEW type, Head1(type), queue' = Tail(queue)
  PROVE  /\ Len(queue) > 0 /\ 1 \in DOMAIN queue /\ queue[1].crash \in Crashes /\ queue[1].type = type
         /\ queue' \in Seq(Events) /\ Len(queue') = Len(queue) - 1
         /\ DOMAIN queue' = 1 .. Len(queue) - 1
         /\ \A i \in DOMAIN queue' : i + 1 \in DOMAIN queue /\ queue'[i] = queue[i + 1]
  <1>1. queue # << >> /\ queue[1].type = type
    BY DEF Head1
  <1>2. /\ Len(queue) > 0 /\ queue' \in Seq(Events) /\ Len(queue') = Len(queue) - 1
        /\ DOMAIN queue' = 1 .. Len(queue) - 1
        /\ \A i \in DOMAIN queue' : queue'[i] = queue[i + 1]
    BY <1>1, QueueFacts, HeadTailProperties, LenProperties, EmptySeq
  <1>3. QED
    BY <1>1, <1>2, QueueFacts

\* An event is put into the queue.
LEMMA PutFacts ==
  ASSUME TypeOK, NEW type \in {"crash", "closed"}, NEW e \in Crashes,
         queue' = Append(queue, Event(type, e))
  PROVE  /\ queue' \in Seq(Events) /\ Len(queue') = Len(queue) + 1
         /\ DOMAIN queue' = 1 .. Len(queue) + 1
         /\ \A i \in DOMAIN queue : i \in DOMAIN queue' /\ queue'[i] = queue[i]
         /\ queue'[Len(queue) + 1].type = type /\ queue'[Len(queue) + 1].crash = e
  BY QueueFacts, EventFacts, AppendProperties, LenProperties

\* A prefix of the queue is dropped.
LEMMA LostFacts ==
  ASSUME TypeOK, NEW n \in 1 .. Len(queue), queue' = SubSeq(queue, n + 1, Len(queue))
  PROVE  /\ queue' \in Seq(Events) /\ Len(queue') = Len(queue) - n
         /\ DOMAIN queue' = 1 .. Len(queue) - n
         /\ \A i \in DOMAIN queue' : i + n \in DOMAIN queue /\ queue'[i] = queue[i + n]
  <1>1. /\ queue' \in Seq(Events) /\ Len(queue') = Len(queue) - n
        /\ DOMAIN queue' = 1 .. Len(queue) - n
        /\ \A i \in DOMAIN queue' : queue'[i] = queue[i + n]
    BY QueueFacts, SuffixFacts
  <1>2. Len(queue) \in Nat /\ DOMAIN queue = 1 .. Len(queue)
    BY QueueFacts
  <1>3. \A i \in 1 .. Len(queue) - n : i + n \in 1 .. Len(queue)
    BY <1>2
  <1>4. QED
    BY <1>1, <1>2, <1>3

LEMMA InitInv == Init => Inv
  <1> SUFFICES ASSUME Init PROVE Inv
    OBVIOUS
  <1>1. TypeOK
    <2>1. queue \in Seq([type : {"crash", "closed"}, crash : Crashes])
      BY EmptySeq DEF Init
    <2>2. prod \in Places /\ cons \in Places /\ keys \in [Places -> Crashes \cup {None}]
      BY PlaceFacts DEF Init
    <2>3. crashes \in 0 .. MaxCrashes /\ faults \in 0 .. MaxFaults
      BY BoundsAssumption DEF Init
    <2>4. QED
      BY <2>1, <2>2, <2>3 DEF Init, TypeOK
  <1>2. DOMAIN queue = {} /\ Len(queue) = 0
    BY DEF Init
  <1>3. \A p \in Places : keys[p] = None
    BY DEF Init
  <1>4. Fresh
    BY <1>2, <1>3, CrashFacts DEF Init, Fresh, Unused
  <1>5. RingOK /\ SentOnce /\ ServiceOK
    BY <1>3, PlaceFacts DEF Init, RingOK, SentOnce, ServiceOK
  <1>6. NoneToCome
    BY <1>2, <1>3, PlaceFacts DEF Init, NoneToCome, Ahead, Closing, Writing, Other
  <1>7. QED
    BY <1>1, <1>4, <1>5, <1>6 DEF Inv, Matched

LEMMA TypeStep == ASSUME Inv, [Next]_vars PROVE TypeOK'
  <1> USE DEF vars, ring, srv
  <1>0. TypeOK
    BY DEF Inv
  <1>a. queue' \in Seq(Events) =>
          queue' \in Seq([type : {"crash", "closed"}, crash : Crashes])
    BY DEF Events
  <1>f. Fault => faults' \in 0 .. MaxFaults
    BY <1>0, BoundsAssumption DEF Fault, TypeOK
  <1>1. CASE HandleCrash
    <2>1. queue' \in Seq(Events) /\ queue[1].crash \in Crashes
      BY <1>0, <1>1, HeadFacts DEF HandleCrash
    <2>2. UNCHANGED <<booted, crashes, sent, faults, forgotten>>
      BY <1>1 DEF HandleCrash
    <2>3. CASE Busy
      BY <1>0, <1>1, <1>a, <2>1, <2>2, <2>3 DEF HandleCrash, TypeOK
    <2>4. CASE ~Busy
      <3>1. /\ service' \in Crashes \cup {None} /\ shown' \in BOOLEAN /\ written' \in BOOLEAN
            /\ watched' \subseteq Crashes /\ pending' \subseteq Crashes
        BY <1>0, <1>1, <2>1, <2>4 DEF HandleCrash, TypeOK
      <3>2. disturbed' \in BOOLEAN
        BY <1>1, <2>4 DEF HandleCrash
      <3>3. PutKey(queue[1].crash)
        BY <1>1, <2>4 DEF HandleCrash
      <3>4. /\ keys' \in [Places -> Crashes \cup {None}]
            /\ prod' \in Places /\ cons' \in Places
        BY <1>0, <2>1, <3>3, PlaceFacts DEF PutKey, TypeOK
      <3>5. QED
        BY <1>0, <1>a, <2>1, <2>2, <3>1, <3>2, <3>4 DEF TypeOK
    <2>5. QED
      BY <2>3, <2>4
  <1>2. CASE HandleCrashFails
    <2>1. queue' \in Seq(Events) /\ queue[1].crash \in Crashes
      BY <1>0, <1>2, HeadFacts DEF HandleCrashFails
    <2>2. QED
      BY <1>0, <1>2, <1>a, <1>f, <2>1 DEF HandleCrashFails, TypeOK
  <1>3. CASE HandleClosed
    <2>1. queue' \in Seq(Events) /\ queue[1].crash \in Crashes
      BY <1>0, <1>3, HeadFacts DEF HandleClosed
    <2>2. /\ UNCHANGED <<srv, booted, crashes, faults, forgotten>>
          /\ watched' \subseteq Crashes /\ pending' \subseteq Crashes
      BY <1>0, <1>3 DEF HandleClosed, TypeOK
    <2>3. disturbed' \in BOOLEAN
      BY <1>3 DEF HandleClosed
    <2>4. TakeKey(queue[1].crash)
      BY <1>3 DEF HandleClosed
    <2>5. /\ keys' \in [Places -> Crashes \cup {None}]
          /\ prod' \in Places /\ cons' \in Places
          /\ sent' \subseteq [folder : Crashes, key : Crashes]
      <3>1. CASE keys[cons] # None /\ booted
        <4>1. keys[cons] \in Crashes /\ NextPlace(cons) \in Places
          BY <1>0, <3>1, PlaceFacts DEF TypeOK
        <4>2. QED
          BY <1>0, <2>1, <2>4, <3>1, <4>1 DEF TakeKey, TypeOK
      <3>2. CASE ~(keys[cons] # None /\ booted)
        BY <1>0, <2>4, <3>2 DEF TakeKey, TypeOK
      <3>3. QED
        BY <3>1, <3>2
    <2>6. QED
      BY <1>0, <1>a, <2>1, <2>2, <2>3, <2>5 DEF TypeOK
  <1>4. CASE HandleFails
    <2>1. queue' \in Seq(Events) /\ disturbed' \in BOOLEAN
      <3>1. PICK n \in 1 .. Len(queue) :
              /\ queue' = SubSeq(queue, n + 1, Len(queue))
              /\ disturbed' = (disturbed \/ \E i \in 1 .. n : queue[i].type = "closed")
        BY <1>4 DEF HandleFails
      <3>2. QED
        BY <1>0, <3>1, LostFacts
    <2>2. QED
      BY <1>0, <1>4, <1>a, <1>f, <2>1 DEF HandleFails, TypeOK
  <1>5. CASE Crash
    <2>1. crashes + 1 \in Crashes /\ crashes' \in 0 .. MaxCrashes
      BY <1>0, <1>5, BoundsAssumption DEF Crash, TypeOK, Crashes
    <2>2. queue' \in Seq(Events)
      BY <1>0, <1>5, <2>1, PutFacts DEF Crash
    <2>3. QED
      BY <1>0, <1>5, <1>a, <2>1, <2>2 DEF Crash, TypeOK
  <1>6. CASE ServiceShown
    BY <1>0, <1>6 DEF ServiceShown, TypeOK
  <1>7. CASE ServiceWrites
    <2>1. queue' \in Seq(Events)
      <3>1. service \in Crashes
        BY <1>0, <1>7 DEF ServiceWrites, Busy, TypeOK
      <3>2. QED
        BY <1>0, <1>7, <3>1, PutFacts, QueueFacts DEF ServiceWrites
    <2>2. QED
      BY <1>0, <1>7, <1>a, <2>1 DEF ServiceWrites, TypeOK
  <1>8. CASE ServiceEnds
    BY <1>0, <1>8 DEF ServiceEnds, TypeOK
  <1>9. CASE ServiceDies
    <2>1. disturbed' \in BOOLEAN
      BY <1>9 DEF ServiceDies
    <2>2. QED
      BY <1>0, <1>9, <1>f, <2>1 DEF ServiceDies, TypeOK
  <1>10. CASE BootCompletes
    BY <1>0, <1>10 DEF BootCompletes, TypeOK
  <1>11. CASE Respawn
    <2>1. queue' \in Seq(Events)
      BY <1>11, EmptySeq DEF Respawn
    <2>2. prod' \in Places /\ cons' \in Places /\ keys' \in [Places -> Crashes \cup {None}]
      BY <1>11, PlaceFacts DEF Respawn
    <2>3. QED
      BY <1>0, <1>11, <1>a, <1>f, <2>1, <2>2 DEF Respawn, TypeOK
  <1>12. CASE UNCHANGED vars
    BY <1>0, <1>12 DEF TypeOK
  <1>13. QED
    BY <1>1, <1>2, <1>3, <1>4, <1>5, <1>6, <1>7, <1>8, <1>9, <1>10, <1>11, <1>12 DEF Next
-----------------------------------------------------------------------------
(* The keys are new.                                                       *)

\* The queue loses its first n events, and at most key x is used.
LEMMA FreshShift ==
  ASSUME TypeOK, Fresh, NEW n \in Nat, NEW x,
         DOMAIN queue' = 1 .. Len(queue) - n,
         \A i \in DOMAIN queue' : i + n \in DOMAIN queue /\ queue'[i] = queue[i + n],
         crashes' = crashes, x \in Crashes => x <= crashes,
         \A e \in Crashes : Unused(e) /\ e # x => Unused(e)',
         \A i \in DOMAIN queue' : Waits(i)' => queue'[i].crash # x
  PROVE  Fresh'
  <1>1. /\ Len(queue) \in Nat /\ DOMAIN queue' \subseteq Nat
        /\ \A i \in DOMAIN queue : queue[i].crash \in Crashes
    BY QueueFacts
  <1>2. \A i \in DOMAIN queue' : Waits(i)' => Waits(i + n)
    BY DEF Waits
  <1>3. \A i \in DOMAIN queue' : Waits(i)' => queue'[i].crash <= crashes' /\ Unused(queue[i].crash)'
    <2>1. SUFFICES ASSUME NEW i \in DOMAIN queue', Waits(i)'
                   PROVE  queue'[i].crash <= crashes' /\ Unused(queue[i].crash)'
      OBVIOUS
    <2>2. PICK e \in Crashes : e = queue'[i].crash /\ e = queue[i + n].crash
      BY <1>1, <2>1
    <2>3. e <= crashes /\ Unused(e) /\ e # x
      BY <1>2, <2>1, <2>2 DEF Fresh
    <2>4. Unused(e)'
      BY <2>3
    <2>5. QED
      BY <2>2, <2>3, <2>4 DEF Unused
  <1>4. \A i, j \in DOMAIN queue' : Waits(i)' /\ Waits(j)' /\ i # j => queue'[i].crash # queue'[j].crash
    <2>1. SUFFICES ASSUME NEW i \in DOMAIN queue', NEW j \in DOMAIN queue', Waits(i)', Waits(j)', i # j
                   PROVE  queue'[i].crash # queue'[j].crash
      OBVIOUS
    <2>2. i + n # j + n
      BY <1>1, <2>1
    <2>3. QED
      BY <1>2, <2>1, <2>2 DEF Fresh
  <1>5. \A e \in Crashes : e > crashes' => Unused(e)'
    BY CrashFacts DEF Fresh, TypeOK
  <1>6. QED
    BY <1>3, <1>4, <1>5 DEF Fresh

\* A key that is taken by another event is used.
LEMMA TakeFacts ==
  ASSUME TypeOK, RingOK, SentOnce, NEW x \in Crashes, TakeKey(x)
  PROVE  /\ \A e \in Crashes : Unused(e) /\ watched' \subseteq watched => Unused(e)'
         /\ RingOK' /\ SentOnce'
  <1>1. CASE keys[cons] # None /\ booted
    <2>1. /\ keys' = [keys EXCEPT ![cons] = None] /\ sent' = sent \cup {[folder |-> x, key |-> keys[cons]]}
          /\ keys \in [Places -> Crashes \cup {None}] /\ cons \in Places /\ Places = {0, 1}
      BY <1>1, PlaceFacts DEF TakeKey, TypeOK
    <2>2. \A b \in sent' : b \in sent \/ b.key = keys[cons]
      BY <2>1
    <2>3. \A p \in Places : keys'[p] = IF p = cons THEN None ELSE keys[p]
      BY <2>1
    <2>4. \A e \in Crashes : Unused(e) /\ watched' \subseteq watched => Unused(e)'
      BY <2>1, <2>2, <2>3, CrashFacts DEF Unused
    <2>5. \A b \in sent' : b.key \in Crashes
      BY <1>1, <2>1, <2>2 DEF TypeOK
    <2>6. RingOK'
      <3>1. keys'[0] # None => keys'[0] # keys'[1]
        BY <2>1, <2>3 DEF RingOK
      <3>2. \A p \in Places : \A b \in sent' : keys'[p] # b.key
        <4>1. SUFFICES ASSUME NEW p \in Places, NEW b \in sent', p # cons, keys[p] = b.key PROVE FALSE
          BY <2>3, <2>5, CrashFacts
        <4>2. b.key = keys[cons] /\ keys[p] # None
          BY <2>2, <2>5, <4>1, CrashFacts DEF RingOK
        <4>3. QED
          BY <1>1, <2>1, <4>1, <4>2 DEF RingOK
      <3>3. QED
        BY <3>1, <3>2 DEF RingOK
    <2>7. SentOnce'
      BY <2>1 DEF SentOnce, RingOK
    <2>8. QED
      BY <2>4, <2>6, <2>7
  <1>2. CASE ~(keys[cons] # None /\ booted)
    BY <1>2 DEF TakeKey, ring, Unused, RingOK, SentOnce
  <1>3. QED
    BY <1>1, <1>2

LEMMA FreshStep == ASSUME Inv, [Next]_vars PROVE Fresh' /\ RingOK' /\ SentOnce'
  <1> USE DEF vars, ring, srv
  <1>0. TypeOK /\ Fresh /\ RingOK /\ SentOnce
    BY DEF Inv
  <1>a. Len(queue) \in Nat /\ DOMAIN queue = 1 .. Len(queue) /\ crashes \in Nat /\ None \notin Crashes
    BY <1>0, QueueFacts, CrashFacts DEF TypeOK
  <1>b. UNCHANGED <<keys, sent>> /\ watched' \subseteq watched => \A e \in Crashes : Unused(e) => Unused(e)'
    BY DEF Unused
  <1>c. UNCHANGED <<keys, sent>> => RingOK' /\ SentOnce'
    BY <1>0 DEF RingOK, SentOnce
  <1>1. CASE HandleCrash
    <2> DEFINE x == queue[1].crash
    <2>1. /\ 1 \in DOMAIN queue /\ Waits(1) /\ x \in Crashes /\ DOMAIN queue' = 1 .. Len(queue) - 1
          /\ \A i \in DOMAIN queue' : i + 1 \in DOMAIN queue /\ queue'[i] = queue[i + 1]
      BY <1>0, <1>1, HeadFacts DEF HandleCrash, Waits
    <2>2. x <= crashes /\ Unused(x)
      BY <1>0, <2>1 DEF Fresh
    <2>3. \A i \in DOMAIN queue' : Waits(i)' => queue'[i].crash # x
      <3>1. SUFFICES ASSUME NEW i \in DOMAIN queue', Waits(i)' PROVE queue[i + 1].crash # x
        BY <2>1
      <3>2. Waits(i + 1) /\ i + 1 # 1
        BY <1>a, <2>1, <3>1 DEF Waits
      <3>3. QED
        BY <1>0, <2>1, <3>2 DEF Fresh
    <2>4. /\ \A e \in Crashes : Unused(e) /\ e # x => Unused(e)'
          /\ RingOK' /\ SentOnce'
      <3>1. CASE UNCHANGED <<keys, sent, watched>>
        BY <1>b, <1>c, <3>1
      <3>2. CASE keys' = [keys EXCEPT ![prod] = x] /\ watched' = watched \cup {x} /\ UNCHANGED sent
        <4>1. \A p \in Places : keys'[p] = IF p = prod THEN x ELSE keys[p]
          BY <1>0, <3>2 DEF TypeOK
        <4>2. \A e \in Crashes : Unused(e) /\ e # x => Unused(e)'
          BY <3>2, <4>1 DEF Unused
        <4>3. RingOK'
          <5>1. keys'[0] # None => keys'[0] # keys'[1]
            BY <1>0, <2>2, <4>1, PlaceFacts DEF RingOK, Unused, TypeOK
          <5>2. \A p \in Places : \A b \in sent' : keys'[p] # b.key
            BY <1>0, <2>2, <3>2, <4>1 DEF RingOK, Unused
          <5>3. QED
            BY <5>1, <5>2 DEF RingOK
        <4>4. QED
          BY <1>0, <3>2, <4>2, <4>3 DEF SentOnce
      <3>3. QED
        BY <1>1, <3>1, <3>2 DEF HandleCrash, PutKey
    <2>5. crashes' = crashes
      BY <1>1 DEF HandleCrash
    <2> HIDE DEF x
    <2>6. Fresh'
      BY <1>0, <2>1, <2>2, <2>3, <2>4, <2>5, FreshShift
    <2>7. QED
      BY <2>4, <2>6
  <1>2. CASE HandleCrashFails
    <2>1. /\ DOMAIN queue' = 1 .. Len(queue) - 1 /\ UNCHANGED <<keys, sent, watched, crashes>>
          /\ \A i \in DOMAIN queue' : i + 1 \in DOMAIN queue /\ queue'[i] = queue[i + 1]
      BY <1>0, <1>2, HeadFacts DEF HandleCrashFails
    <2>2. \A i \in DOMAIN queue' : queue'[i].crash # None
      BY <1>0, <1>a, <2>1, QueueFacts
    <2>3. QED
      BY <1>0, <1>a, <1>b, <1>c, <2>1, <2>2, FreshShift
  <1>3. CASE HandleClosed
    <2>1. /\ DOMAIN queue' = 1 .. Len(queue) - 1 /\ UNCHANGED crashes /\ queue[1].crash \in Crashes
          /\ \A i \in DOMAIN queue' : i + 1 \in DOMAIN queue /\ queue'[i] = queue[i + 1]
          /\ watched' \subseteq watched /\ TakeKey(queue[1].crash)
      BY <1>0, <1>3, HeadFacts DEF HandleClosed
    <2>2. \A i \in DOMAIN queue' : queue'[i].crash # None
      BY <1>0, <1>a, <2>1, QueueFacts
    <2>3. RingOK' /\ SentOnce' /\ \A e \in Crashes : Unused(e) => Unused(e)'
      BY <1>0, <2>1, TakeFacts
    <2>4. QED
      BY <1>0, <1>a, <2>1, <2>2, <2>3, FreshShift
  <1>4. CASE HandleFails
    <2>1. PICK n \in 1 .. Len(queue) : queue' = SubSeq(queue, n + 1, Len(queue))
      BY <1>4 DEF HandleFails
    <2>2. /\ DOMAIN queue' = 1 .. Len(queue) - n /\ UNCHANGED <<keys, sent, watched, crashes>> /\ n \in Nat
          /\ \A i \in DOMAIN queue' : i + n \in DOMAIN queue /\ queue'[i] = queue[i + n]
      <3>1. /\ DOMAIN queue' = 1 .. Len(queue) - n
            /\ \A i \in DOMAIN queue' : i + n \in DOMAIN queue /\ queue'[i] = queue[i + n]
        BY <1>0, <2>1, LostFacts
      <3>2. UNCHANGED <<keys, sent, watched, crashes>> /\ n \in Nat
        BY <1>4, <1>a DEF HandleFails
      <3>3. QED
        BY <3>1, <3>2
    <2>3. \A i \in DOMAIN queue' : queue'[i].crash # None
      BY <1>0, <1>a, <2>2, QueueFacts
    <2>4. QED
      BY <1>0, <1>a, <1>b, <1>c, <2>2, <2>3, FreshShift
  <1>5. CASE Crash
    <2>1. /\ crashes' = crashes + 1 /\ crashes + 1 \in Crashes /\ UNCHANGED <<keys, sent, watched>>
          /\ queue' = Append(queue, Event("crash", crashes + 1))
      BY <1>0, <1>5, BoundsAssumption DEF Crash, TypeOK, Crashes
    <2>n. crashes' = crashes + 1 /\ crashes \in Nat
      BY <1>a, <2>1
    <2>2. /\ DOMAIN queue' = 1 .. Len(queue) + 1
          /\ \A i \in DOMAIN queue : queue'[i] = queue[i]
          /\ queue'[Len(queue) + 1].crash = crashes + 1
      BY <1>0, <2>1, PutFacts
    <2>3. \A e \in Crashes : Unused(e)' <=> Unused(e)
      BY <2>1 DEF Unused
    <2>4. PICK c \in Crashes : c = crashes + 1
      BY <2>1
    <2>u. c > crashes /\ Unused(c) /\ Unused(c)'
      BY <1>0, <1>a, <2>3, <2>4 DEF Fresh
    <2>5. ASSUME NEW i \in DOMAIN queue', Waits(i)'
          PROVE  /\ queue'[i].crash <= crashes' /\ Unused(queue[i].crash)'
                 /\ i \notin DOMAIN queue => i = Len(queue) + 1
                 /\ i \in DOMAIN queue =>
                      queue'[i] = queue[i] /\ Waits(i) /\ queue[i].crash <= crashes
      <3>1. CASE i \in DOMAIN queue
        <4>1. Waits(i) /\ queue'[i] = queue[i] /\ queue[i].crash \in Crashes
          BY <1>0, <2>2, <2>5, <3>1, QueueFacts DEF Waits
        <4>2. queue[i].crash <= crashes /\ Unused(queue[i].crash)
          BY <1>0, <3>1, <4>1 DEF Fresh
        <4>3. Unused(queue[i].crash)'
          BY <2>1, <4>1, <4>2 DEF Unused
        <4>4. PICK e \in Nat : e = queue[i].crash
          BY <4>1, CrashFacts
        <4>5. e <= crashes'
          BY <2>n, <4>2, <4>4
        <4>6. QED
          BY <3>1, <4>1, <4>2, <4>3, <4>4, <4>5
      <3>2. CASE i \notin DOMAIN queue
        <4>1. i = Len(queue) + 1
          BY <1>a, <2>2, <2>5, <3>2
        <4>2. queue'[i].crash = c /\ c <= crashes'
          BY <2>n, <2>2, <2>4, <4>1
        <4>3. Unused(queue[i].crash)'
          BY <2>u, <4>2 DEF Unused
        <4>4. QED
          BY <3>2, <4>1, <4>2, <4>3
      <3>3. QED
        BY <3>1, <3>2
    <2>6. \A i, j \in DOMAIN queue' : Waits(i)' /\ Waits(j)' /\ i # j => queue'[i].crash # queue'[j].crash
      <3>1. \A i \in DOMAIN queue : queue[i].crash \in Nat
        BY <1>0, QueueFacts, CrashFacts
      <3>2. QED
        BY <1>0, <1>a, <2>2, <2>5, <3>1 DEF Fresh
    <2>7. \A e \in Crashes : e > crashes' => Unused(e)'
      <3>1. SUFFICES ASSUME NEW e \in Crashes, e > crashes' PROVE Unused(e)'
        OBVIOUS
      <3>2. e > crashes
        BY <2>n, <3>1, CrashFacts
      <3>3. QED
        BY <1>0, <2>3, <3>2 DEF Fresh
    <2>8. Fresh'
      BY <2>5, <2>6, <2>7 DEF Fresh
    <2>9. QED
      BY <1>c, <2>1, <2>8
  <1>6. CASE UNCHANGED <<keys, sent, watched, queue, crashes>>
    BY <1>0, <1>6 DEF Fresh, Waits, Unused, RingOK, SentOnce
  <1>7. CASE ServiceWrites /\ queue' # queue
    <2>1. /\ service \in Crashes /\ queue' = Append(queue, Event("closed", service))
          /\ UNCHANGED <<keys, sent, watched, crashes>>
      BY <1>0, <1>7 DEF ServiceWrites, Busy, TypeOK
    <2>2. /\ DOMAIN queue' = 1 .. Len(queue) + 1
          /\ \A i \in DOMAIN queue : queue'[i] = queue[i]
          /\ queue'[Len(queue) + 1].type = "closed"
      BY <1>0, <2>1, PutFacts
    <2>3. \A i \in DOMAIN queue' : Waits(i)' => Waits(i) /\ i \in DOMAIN queue /\ queue'[i] = queue[i]
      BY <1>a, <2>2 DEF Waits
    <2>4. \A e : Unused(e)' <=> Unused(e)
      BY <2>1 DEF Unused
    <2>5. \A i \in DOMAIN queue' : Waits(i)' => Unused(queue[i].crash)'
      BY <1>0, <2>1, <2>3 DEF Fresh, Unused
    <2>6. Fresh'
      BY <1>0, <2>1, <2>3, <2>4, <2>5 DEF Fresh
    <2>7. QED
      BY <1>c, <2>1, <2>6
  <1>8. CASE Respawn
    <2>1. /\ DOMAIN queue' = {} /\ watched' = {} /\ UNCHANGED <<sent, crashes>>
          /\ \A p \in Places : keys'[p] = None
      BY <1>8 DEF Respawn
    <2>2. \A e \in Crashes : Unused(e) => Unused(e)'
      BY <1>a, <2>1 DEF Unused
    <2>3. Fresh'
      BY <1>0, <2>1, <2>2 DEF Fresh
    <2>4. \A b \in sent : b.key # None
      BY <1>0, <1>a DEF TypeOK
    <2>5. RingOK' /\ SentOnce'
      BY <1>0, <2>1, <2>4, PlaceFacts DEF RingOK, SentOnce
    <2>6. QED
      BY <2>3, <2>5
  <1>9. QED
    BY <1>1, <1>2, <1>3, <1>4, <1>5, <1>6, <1>7, <1>8
    DEF Next, ServiceShown, ServiceWrites, ServiceEnds, ServiceDies, BootCompletes
-----------------------------------------------------------------------------
(* The files to come match the keys.                                       *)

LEMMA ServiceStep == ASSUME Inv, [Next]_vars PROVE ServiceOK'
  <1> USE DEF vars, ring, srv, ServiceOK
  <1>0. ServiceOK /\ None \notin Crashes
    BY CrashFacts DEF Inv
  <1>1. CASE HandleCrash \/ HandleCrashFails
    <2>1. queue[1].crash # None
      BY <1>0, <1>1, HeadFacts DEF HandleCrash, HandleCrashFails, Inv
    <2>2. QED
      BY <1>0, <1>1, <2>1 DEF HandleCrash, HandleCrashFails, Busy
  <1>2. CASE ServiceShown \/ ServiceWrites \/ ServiceEnds \/ ServiceDies
    BY <1>0, <1>2 DEF ServiceShown, ServiceWrites, ServiceEnds, ServiceDies, Busy
  <1>3. CASE UNCHANGED srv
    BY <1>0, <1>3
  <1>4. QED
    BY <1>1, <1>2, <1>3 DEF Next, HandleClosed, HandleFails, Crash, BootCompletes, Respawn

\* A file to come is in a folder, so there is a key for it.
LEMMA FolderFacts ==
  ASSUME TypeOK, NEW i \in Ahead, Closing(i)
  PROVE  Folder(i) \in Crashes /\ Folder(i) # None /\ i \in Nat
  <1>1. i \in Nat /\ Len(queue) \in Nat /\ DOMAIN queue = 1 .. Len(queue)
    BY QueueFacts DEF Ahead
  <1>2. CASE i \in DOMAIN queue
    BY <1>1, <1>2, QueueFacts, CrashFacts DEF Folder
  <1>3. CASE i \notin DOMAIN queue
    BY <1>1, <1>3, CrashFacts DEF Folder, Closing, Writing, TypeOK
  <1>4. QED
    BY <1>2, <1>3

\* The files to come only move to other places, and stay in their order.
LEMMA Moved ==
  ASSUME Matched, UNCHANGED ring, NEW g,
         \A i \in Ahead : Closing(i) => g[i] \in Ahead' /\ Closing(g[i])' /\ Folder(g[i])' = Folder(i),
         \A i, j \in Ahead : Closing(i) /\ Closing(j) /\ i < j => g[i] < g[j],
         \A k \in Ahead' : Closing(k)' => \E i \in Ahead : Closing(i) /\ k = g[i]
  PROVE  Matched'
  <1>1. keys' = keys /\ prod' = prod /\ cons' = cons /\ Other' = Other
    BY DEF ring, Other
  <1>2. CASE NoneToCome
    BY <1>1, <1>2 DEF NoneToCome, Matched
  <1>3. ASSUME NEW i \in Ahead, OneToCome(i) PROVE Matched'
    <2>1. PICK k : k = g[i]
      OBVIOUS
    <2>2. k \in Ahead' /\ Closing(k)' /\ Folder(k)' = Folder(i)
      BY <1>3, <2>1 DEF OneToCome
    <2>3. \A l \in Ahead' : Closing(l)' => l = k
      BY <1>3, <2>1 DEF OneToCome
    <2>4. OneToCome(k)'
      BY <1>1, <1>3, <2>2, <2>3 DEF OneToCome
    <2>5. QED
      BY <2>2, <2>4 DEF Matched
  <1>4. ASSUME NEW i \in Ahead, NEW j \in Ahead, TwoToCome(i, j) PROVE Matched'
    <2>1. PICK k, l : k = g[i] /\ l = g[j]
      OBVIOUS
    <2>2. /\ k \in Ahead' /\ Closing(k)' /\ Folder(k)' = Folder(i)
          /\ l \in Ahead' /\ Closing(l)' /\ Folder(l)' = Folder(j) /\ k < l
      BY <1>4, <2>1 DEF TwoToCome
    <2>3. \A m \in Ahead' : Closing(m)' => m \in {k, l}
      BY <1>4, <2>1 DEF TwoToCome
    <2>4. TwoToCome(k, l)'
      BY <1>1, <1>4, <2>2, <2>3 DEF TwoToCome
    <2>5. QED
      BY <2>2, <2>4 DEF Matched
  <1>5. QED
    BY <1>2, <1>3, <1>4 DEF Matched

\* The queue loses its first n events, none of them of a closed file.
LEMMA ShiftStep ==
  ASSUME TypeOK, Matched, UNCHANGED ring, NEW n \in Nat, n <= Len(queue),
         Len(queue') = Len(queue) - n, DOMAIN queue' = 1 .. Len(queue) - n,
         \A i \in DOMAIN queue' : i + n \in DOMAIN queue /\ queue'[i] = queue[i + n],
         \A i \in 1 .. n : queue[i].type # "closed",
         Writing' <=> Writing, Writing => service' = service
  PROVE  Matched'
  <1>1. PICK m \in Nat : m = Len(queue)
    BY QueueFacts
  <1>2. /\ DOMAIN queue = 1 .. m /\ Ahead = 1 .. m + 1
        /\ DOMAIN queue' = 1 .. m - n /\ Ahead' = 1 .. m - n + 1 /\ n <= m
    BY <1>1, QueueFacts DEF Ahead
  <1>3. PICK g : g = [i \in Int |-> i - n]
    OBVIOUS
  <1>4. ASSUME NEW i \in Ahead, Closing(i)
        PROVE  g[i] \in Ahead' /\ Closing(g[i])' /\ Folder(g[i])' = Folder(i)
    <2>1. PICK k \in Int : k = i - n /\ k = g[i]
      BY <1>2, <1>3
    <2>2. CASE i \in DOMAIN queue
      <3>1. i > n /\ k \in DOMAIN queue' /\ k \in Ahead' /\ k + n = i
        BY <1>2, <1>4, <2>1, <2>2 DEF Closing
      <3>2. queue'[k] = queue[i]
        BY <3>1
      <3>3. Closing(k)' /\ Folder(k)' = Folder(i)
        BY <1>1, <1>2, <1>4, <2>2, <3>1, <3>2 DEF Closing, Folder
      <3>4. QED
        BY <2>1, <3>1, <3>3
    <2>3. CASE i \notin DOMAIN queue
      <3>1. i = m + 1 /\ Writing /\ k = m - n + 1
        BY <1>1, <1>2, <1>4, <2>1, <2>3 DEF Closing
      <3>2. k \in Ahead' /\ k \notin DOMAIN queue' /\ k = Len(queue') + 1
        BY <1>1, <1>2, <3>1
      <3>3. Closing(k)' /\ Folder(k)' = Folder(i)
        BY <2>3, <3>1, <3>2 DEF Closing, Folder
      <3>4. QED
        BY <2>1, <3>2, <3>3
    <2>4. QED
      BY <2>2, <2>3
  <1>5. \A i, j \in Ahead : Closing(i) /\ Closing(j) /\ i < j => g[i] < g[j]
    BY <1>2, <1>3
  <1>6. ASSUME NEW k \in Ahead', Closing(k)'
        PROVE  \E i \in Ahead : Closing(i) /\ k = g[i]
    <2>1. k + n \in Ahead /\ k = g[k + n]
      BY <1>2, <1>3
    <2>2. Closing(k + n)
      <3>1. CASE k \in DOMAIN queue'
        <4>1. k + n \in DOMAIN queue /\ queue'[k] = queue[k + n] /\ k # Len(queue') + 1
          BY <1>1, <1>2, <3>1
        <4>2. QED
          BY <1>6, <4>1 DEF Closing
      <3>2. CASE k \notin DOMAIN queue'
        <4>1. k = m - n + 1 /\ Writing
          BY <1>2, <1>6, <3>2 DEF Closing
        <4>2. k + n = Len(queue) + 1
          BY <1>1, <1>2, <4>1
        <4>3. QED
          BY <4>1, <4>2 DEF Closing
      <3>3. QED
        BY <3>1, <3>2
    <2>3. QED
      BY <2>1, <2>2
  <1>7. QED
    BY <1>4, <1>5, <1>6, Moved

\* A crash is put behind the queue: the last file of the service comes behind it.
LEMMA CrashStep == ASSUME TypeOK, Matched, Crash PROVE Matched'
  <1>1. PICK m \in Nat : m = Len(queue)
    BY QueueFacts
  <1>2. /\ DOMAIN queue = 1 .. m /\ Ahead = 1 .. m + 1
        /\ DOMAIN queue' = 1 .. m + 1 /\ Ahead' = 1 .. m + 2 /\ Len(queue') = m + 1
        /\ \A i \in DOMAIN queue : queue'[i] = queue[i]
        /\ queue'[m + 1].type = "crash"
    <2>1. crashes + 1 \in Crashes /\ queue' = Append(queue, Event("crash", crashes + 1))
      BY BoundsAssumption DEF Crash, Crashes, TypeOK
    <2>2. /\ Len(queue') = m + 1 /\ DOMAIN queue' = 1 .. m + 1
          /\ \A i \in DOMAIN queue : queue'[i] = queue[i]
          /\ queue'[m + 1].type = "crash"
      BY <1>1, <2>1, PutFacts
    <2>3. QED
      BY <1>1, <2>2, QueueFacts DEF Ahead
  <1>3. UNCHANGED ring /\ UNCHANGED service /\ (Writing' <=> Writing)
    BY DEF Crash, srv, Writing
  <1>4. PICK g : g = [i \in Int |-> IF i <= m THEN i ELSE i + 1]
    OBVIOUS
  <1>5. ASSUME NEW i \in Ahead, Closing(i)
        PROVE  g[i] \in Ahead' /\ Closing(g[i])' /\ Folder(g[i])' = Folder(i)
    <2>1. CASE i \in DOMAIN queue
      <3>1. g[i] = i /\ i \in DOMAIN queue' /\ i \in Ahead' /\ queue'[i] = queue[i] /\ i # m + 1
        BY <1>2, <1>4, <2>1
      <3>2. Closing(i)' /\ Folder(i)' = Folder(i)
        BY <1>1, <1>5, <2>1, <3>1 DEF Closing, Folder
      <3>3. QED
        BY <3>1, <3>2
    <2>2. CASE i \notin DOMAIN queue
      <3>1. i = m + 1 /\ Writing
        BY <1>1, <1>2, <1>5, <2>2 DEF Closing
      <3>2. PICK k : k = m + 2
        OBVIOUS
      <3>3. g[i] = k /\ k \in Ahead' /\ k \notin DOMAIN queue' /\ k = Len(queue') + 1
        BY <1>2, <1>4, <3>1, <3>2
      <3>4. Closing(k)' /\ Folder(k)' = Folder(i)
        BY <1>3, <2>2, <3>1, <3>3 DEF Closing, Folder
      <3>5. QED
        BY <3>3, <3>4
    <2>3. QED
      BY <2>1, <2>2
  <1>6. \A i, j \in Ahead : Closing(i) /\ Closing(j) /\ i < j => g[i] < g[j]
    BY <1>2, <1>4
  <1>7. ASSUME NEW k \in Ahead', Closing(k)'
        PROVE  \E i \in Ahead : Closing(i) /\ k = g[i]
    <2>1. CASE k \in DOMAIN queue
      <3>1. k \in Ahead /\ g[k] = k /\ queue'[k] = queue[k] /\ k # Len(queue') + 1
        BY <1>2, <1>4, <2>1
      <3>2. Closing(k)
        BY <1>7, <2>1, <3>1 DEF Closing
      <3>3. QED
        BY <3>1, <3>2
    <2>2. CASE k \notin DOMAIN queue
      <3>1. k = m + 2 /\ Writing
        <4>1. k = m + 1 \/ k = m + 2
          BY <1>2, <2>2
        <4>2. k # m + 1
          BY <1>2, <1>7 DEF Closing
        <4>3. k \notin DOMAIN queue'
          BY <1>2, <4>1, <4>2
        <4>4. QED
          BY <1>3, <1>7, <4>1, <4>2, <4>3 DEF Closing
      <3>2. m + 1 \in Ahead /\ g[m + 1] = k /\ m + 1 = Len(queue) + 1
        BY <1>1, <1>2, <1>4, <3>1
      <3>3. QED
        BY <3>1, <3>2 DEF Closing
    <2>3. QED
      BY <2>1, <2>2
  <1>8. QED
    BY <1>3, <1>5, <1>6, <1>7, Moved

\* The service closes its last file: the file is where it was expected.
LEMMA WritesStep == ASSUME TypeOK, Matched, ServiceWrites PROVE Matched'
  <1>1. PICK m \in Nat : m = Len(queue)
    BY QueueFacts
  <1>2. DOMAIN queue = 1 .. m /\ Ahead = 1 .. m + 1
    BY <1>1, QueueFacts DEF Ahead
  <1>3. UNCHANGED <<ring, service>> /\ service # None /\ ~written /\ ~Writing'
    BY DEF ServiceWrites, Busy, Writing
  <1>4. PICK g : g = [i \in Int |-> i]
    OBVIOUS
  <1>5. CASE service \in watched
    <2>1. Writing /\ service \in Crashes /\ queue' = Append(queue, Event("closed", service))
      BY <1>3, <1>5 DEF Writing, ServiceWrites, TypeOK
    <2>2. /\ DOMAIN queue' = 1 .. m + 1 /\ Len(queue') = m + 1 /\ Ahead' = 1 .. m + 2
          /\ \A i \in DOMAIN queue : queue'[i] = queue[i]
          /\ queue'[m + 1].type = "closed" /\ queue'[m + 1].crash = service
      BY <1>1, <2>1, PutFacts DEF Ahead
    <2>3. ASSUME NEW i \in Ahead
          PROVE  g[i] = i /\ i \in Ahead' /\ (Closing(i)' <=> Closing(i)) /\ Folder(i)' = Folder(i)
      <3>1. CASE i \in DOMAIN queue
        <4>1. i \in DOMAIN queue' /\ queue'[i] = queue[i] /\ i # m + 1 /\ i # m + 2
          BY <1>2, <2>2, <3>1
        <4>2. i # Len(queue) + 1 /\ i # Len(queue') + 1 /\ g[i] = i /\ i \in Ahead'
          BY <1>1, <1>2, <1>4, <2>2, <4>1
        <4>3. QED
          BY <3>1, <4>1, <4>2 DEF Closing, Folder
      <3>2. CASE i \notin DOMAIN queue
        <4>1. i = m + 1 /\ i \in DOMAIN queue' /\ i = Len(queue) + 1 /\ g[i] = i /\ i \in Ahead'
          BY <1>1, <1>2, <1>4, <2>2, <3>2
        <4>2. QED
          BY <2>1, <2>2, <3>2, <4>1 DEF Closing, Folder
      <3>3. QED
        BY <3>1, <3>2
    <2>4. ASSUME NEW k \in Ahead', Closing(k)' PROVE k \in Ahead
      <3>1. k # m + 2
        BY <1>3, <2>2, <2>4 DEF Closing
      <3>2. QED
        BY <1>2, <2>2, <3>1
    <2>5. \A i, j \in Ahead : Closing(i) /\ Closing(j) /\ i < j => g[i] < g[j]
      BY <2>3
    <2>6. QED
      BY <1>3, <2>3, <2>4, <2>5, Moved
  <1>6. CASE service \notin watched
    <2>1. queue' = queue /\ ~Writing
      BY <1>6 DEF Writing, ServiceWrites
    <2>2. QED
      BY <1>1, <1>2, <1>3, <2>1, ShiftStep
  <1>7. QED
    BY <1>5, <1>6

\* start_dumpstate_srv: the file to come and the key are the last ones.
LEMMA PutStep ==
  ASSUME TypeOK, Matched, ServiceOK, HandleCrash, ~Busy, ~disturbed'
  PROVE  Matched'
  <1> DEFINE x == queue[1].crash
  <1>1. PICK m \in Nat : m = Len(queue)
    BY QueueFacts
  <1>2. /\ DOMAIN queue = 1 .. m /\ Ahead = 1 .. m + 1 /\ 1 \in DOMAIN queue /\ x \in Crashes
        /\ DOMAIN queue' = 1 .. m - 1 /\ Ahead' = 1 .. m /\ Len(queue') = m - 1 /\ m > 0
        /\ queue[1].type = "crash" /\ \A i \in DOMAIN queue' : queue'[i] = queue[i + 1]
    <2>1. Head1("crash") /\ queue' = Tail(queue)
      BY DEF HandleCrash
    <2>2. QED
      BY <1>1, <2>1, HeadFacts, QueueFacts DEF Ahead
  <1>3. /\ service = None /\ keys[prod] = None /\ service' = x /\ ~written' /\ x \in watched'
        /\ keys' = [keys EXCEPT ![prod] = x] /\ prod' = NextPlace(prod) /\ cons' = cons
    BY DEF HandleCrash, PutKey, ServiceOK
  <1>4. x # None /\ Writing' /\ ~Writing
    BY <1>2, <1>3, CrashFacts DEF Writing
  <1>5. /\ cons \in Places /\ prod \in Places /\ Other \in Places /\ Other # cons
        /\ NextPlace(Other) = cons /\ Other' = Other
        /\ \A p \in Places : keys'[p] = IF p = prod THEN x ELSE keys[p]
    BY <1>3, PlaceFacts DEF Other, TypeOK
  <1> HIDE DEF x
  <1>6. m \in Ahead' /\ Closing(m)' /\ Folder(m)' = x
    <2>1. m \in Ahead' /\ m \notin DOMAIN queue' /\ m = Len(queue') + 1
      BY <1>2
    <2>2. QED
      BY <1>3, <1>4, <2>1 DEF Closing, Folder
  <1>7. ASSUME NEW k \in Ahead', Closing(k)', k # m PROVE k + 1 \in Ahead /\ Closing(k + 1)
    <2>1. k \in DOMAIN queue' /\ k # Len(queue') + 1 /\ k + 1 \in DOMAIN queue /\ k + 1 \in Ahead
      BY <1>2, <1>7
    <2>2. QED
      BY <1>2, <1>7, <2>1 DEF Closing
  <1>8. ASSUME NEW i \in Ahead, Closing(i)
        PROVE  /\ i - 1 \in Ahead' /\ i - 1 < m /\ Closing(i - 1)' /\ Folder(i - 1)' = Folder(i)
    <2>1. i \in DOMAIN queue /\ i # 1
      BY <1>1, <1>2, <1>4, <1>8 DEF Closing
    <2>2. i - 1 \in DOMAIN queue' /\ i - 1 \in Ahead' /\ i - 1 < m /\ queue'[i - 1] = queue[i]
      BY <1>2, <2>1
    <2>3. queue[i].type = "closed"
      BY <1>4, <1>8 DEF Closing
    <2>4. QED
      BY <2>1, <2>2, <2>3 DEF Closing, Folder
  <1>9. CASE NoneToCome
    <2>1. \A k \in Ahead' : Closing(k)' => k = m
      BY <1>7, <1>9 DEF NoneToCome
    <2>2. keys'[cons'] = x /\ keys'[Other'] = None /\ prod' = Other'
      BY <1>3, <1>5, <1>9 DEF NoneToCome, Other
    <2>3. OneToCome(m)'
      BY <1>6, <2>1, <2>2 DEF OneToCome
    <2>4. QED
      BY <1>6, <2>3 DEF Matched
  <1>10. ASSUME NEW i \in Ahead, OneToCome(i) PROVE Matched'
    <2>1. PICK k : k = i - 1
      OBVIOUS
    <2>2. k \in Ahead' /\ k < m /\ Closing(k)' /\ Folder(k)' = Folder(i)
      BY <1>8, <1>10, <2>1 DEF OneToCome
    <2>3. \A l \in Ahead' : Closing(l)' => l \in {k, m}
      <3>1. SUFFICES ASSUME NEW l \in Ahead', Closing(l)', l # m PROVE l = k
        OBVIOUS
      <3>2. l + 1 = i
        BY <1>7, <1>10, <3>1 DEF OneToCome
      <3>3. QED
        BY <1>2, <2>1, <3>2
    <2>4. keys'[cons'] = keys[cons] /\ keys'[Other'] = x /\ prod' = cons'
      BY <1>3, <1>5, <1>10 DEF OneToCome
    <2>5. TwoToCome(k, m)'
      BY <1>6, <1>10, <2>2, <2>3, <2>4 DEF OneToCome, TwoToCome
    <2>6. QED
      BY <1>6, <2>2, <2>5 DEF Matched
  <1>11. ASSUME NEW i \in Ahead, NEW j \in Ahead, TwoToCome(i, j) PROVE FALSE
    BY <1>3, <1>11, FolderFacts DEF TwoToCome
  <1>12. QED
    BY <1>9, <1>10, <1>11 DEF Matched

\* The first of the files to come is handled.
LEMMA ClosedFacts ==
  ASSUME TypeOK, Matched, Head1("closed")
  PROVE  /\ keys[cons] = queue[1].crash /\ queue[1].crash # None
         /\ OneToCome(1) \/ \E j \in Ahead : TwoToCome(1, j)
  <1>1. 1 \in DOMAIN queue /\ 1 \in Ahead /\ Closing(1) /\ Folder(1) = queue[1].crash
    <2>1. queue # << >> /\ queue[1].type = "closed"
      BY DEF Head1
    <2>2. Len(queue) \in Nat /\ Len(queue) > 0 /\ DOMAIN queue = 1 .. Len(queue)
      BY <2>1, QueueFacts, HeadTailProperties, LenProperties, EmptySeq
    <2>3. QED
      BY <2>1, <2>2 DEF Ahead, Closing, Folder
  <1>2. Folder(1) # None
    BY <1>1, FolderFacts
  <1>3. ~NoneToCome
    BY <1>1 DEF NoneToCome
  <1>4. ASSUME NEW i \in Ahead, OneToCome(i) PROVE i = 1
    BY <1>1, <1>4 DEF OneToCome
  <1>5. ASSUME NEW i \in Ahead, NEW j \in Ahead, TwoToCome(i, j) PROVE i = 1
    <2>1. (1 = i \/ 1 = j) /\ i < j
      BY <1>1, <1>5 DEF TwoToCome
    <2>2. i \in Nat /\ i > 0
      BY QueueFacts DEF Ahead
    <2>3. QED
      BY <2>1, <2>2
  <1>6. OneToCome(1) \/ \E j \in Ahead : TwoToCome(1, j)
    BY <1>3, <1>4, <1>5 DEF Matched
  <1>7. QED
    BY <1>1, <1>2, <1>6 DEF OneToCome, TwoToCome

LEMMA ClosedStep ==
  ASSUME TypeOK, Matched, RingOK, HandleClosed, booted
  PROVE  Matched'
  <1> DEFINE x == queue[1].crash
  <1>1. PICK m \in Nat : m = Len(queue)
    BY QueueFacts
  <1>2. /\ DOMAIN queue = 1 .. m /\ Ahead = 1 .. m + 1 /\ 1 \in DOMAIN queue
        /\ DOMAIN queue' = 1 .. m - 1 /\ Ahead' = 1 .. m /\ Len(queue') = m - 1 /\ m > 0
        /\ \A i \in DOMAIN queue' : queue'[i] = queue[i + 1]
    <2>1. Head1("closed") /\ queue' = Tail(queue)
      BY DEF HandleClosed
    <2>2. QED
      BY <1>1, <2>1, HeadFacts, QueueFacts DEF Ahead
  <1>3. /\ keys[cons] = x /\ x # None
        /\ OneToCome(1) \/ \E j \in Ahead : TwoToCome(1, j)
    BY ClosedFacts DEF HandleClosed
  <1>4. /\ keys' = [keys EXCEPT ![cons] = None] /\ cons' = Other /\ prod' = prod
        /\ UNCHANGED srv /\ watched' = watched \ {x}
    BY <1>3 DEF HandleClosed, TakeKey, Other
  <1>5. /\ cons \in Places /\ Other \in Places /\ Other # cons /\ Other' = cons
        /\ keys'[cons'] = keys[Other] /\ keys'[Other'] = None
    BY <1>4, PlaceFacts DEF Other, TypeOK
  <1> HIDE DEF x
  <1>6. ASSUME NEW k \in Ahead', Closing(k)' PROVE k + 1 \in Ahead /\ k + 1 # 1 /\ Closing(k + 1)
    <2>1. k + 1 \in Ahead /\ k + 1 # 1
      BY <1>2
    <2>2. CASE k \in DOMAIN queue'
      <3>1. k # Len(queue') + 1 /\ k + 1 \in DOMAIN queue /\ queue'[k] = queue[k + 1]
        BY <1>2, <2>2
      <3>2. QED
        BY <1>6, <2>1, <3>1 DEF Closing
    <2>3. CASE k \notin DOMAIN queue'
      <3>1. k + 1 = Len(queue) + 1
        BY <1>1, <1>2, <2>3
      <3>2. Writing
        BY <1>4, <1>6, <2>3 DEF Closing, Writing, srv
      <3>3. QED
        BY <2>1, <3>1, <3>2 DEF Closing
    <2>4. QED
      BY <2>2, <2>3
  <1>7. CASE OneToCome(1)
    <2>1. \A k \in Ahead' : ~Closing(k)'
      BY <1>6, <1>7 DEF OneToCome
    <2>2. NoneToCome'
      BY <1>4, <1>5, <1>7, <2>1 DEF NoneToCome, OneToCome
    <2>3. QED
      BY <2>2 DEF Matched
  <1>8. ASSUME NEW j \in Ahead, TwoToCome(1, j) PROVE Matched'
    <2>1. j > 1 /\ Closing(j) /\ keys[Other] = Folder(j)
      BY <1>8 DEF TwoToCome
    <2>2. Folder(j) # x
      <3>1. Folder(j) # None
        BY <2>1, FolderFacts
      <3>2. Places = {0, 1}
        BY PlaceFacts
      <3>3. keys[cons] # keys[Other]
        BY <1>3, <1>5, <3>2 DEF RingOK
      <3>4. QED
        BY <1>3, <2>1, <3>3
    <2>3. PICK k : k = j - 1
      OBVIOUS
    <2>4. k \in Ahead' /\ Closing(k)' /\ Folder(k)' = Folder(j)
      <3>1. k \in Ahead'
        BY <1>2, <2>1, <2>3
      <3>2. CASE j \in DOMAIN queue
        <4>1. k \in DOMAIN queue' /\ queue'[k] = queue[j] /\ j # Len(queue) + 1
          BY <1>1, <1>2, <2>1, <2>3, <3>2
        <4>2. QED
          BY <2>1, <3>1, <3>2, <4>1 DEF Closing, Folder
      <3>3. CASE j \notin DOMAIN queue
        <4>1. Writing /\ Folder(j) = service
          BY <2>1, <3>3 DEF Closing, Folder
        <4>2. Writing' /\ service' = service
          BY <1>4, <2>2, <4>1 DEF Writing, srv
        <4>3. k \notin DOMAIN queue' /\ k = Len(queue') + 1
          BY <1>2, <2>3, <3>3
        <4>4. QED
          BY <3>1, <4>1, <4>2, <4>3 DEF Closing, Folder
      <3>4. QED
        BY <3>2, <3>3
    <2>5. \A l \in Ahead' : Closing(l)' => l = k
      <3>1. SUFFICES ASSUME NEW l \in Ahead', Closing(l)' PROVE l = k
        OBVIOUS
      <3>2. l + 1 = j
        BY <1>6, <1>8, <3>1 DEF TwoToCome
      <3>3. QED
        BY <1>2, <2>3, <3>2
    <2>6. OneToCome(k)'
      BY <1>4, <1>5, <1>8, <2>1, <2>4, <2>5 DEF OneToCome, TwoToCome
    <2>7. QED
      BY <2>4, <2>6 DEF Matched
  <1>9. QED
    BY <1>3, <1>7, <1>8

LEMMA MatchedStep == ASSUME Inv, [Next]_vars, ~disturbed' PROVE Matched'
  <1> USE DEF vars, ring, srv
  <1>0. TypeOK /\ RingOK /\ ServiceOK /\ (~disturbed => Matched) /\ Fresh
    BY DEF Inv
  <1>a. /\ Len(queue) \in Nat /\ DOMAIN queue = 1 .. Len(queue)
        /\ \A i \in DOMAIN queue : queue[i].type = "crash" \/ queue[i].type = "closed"
    BY <1>0, QueueFacts
  <1>1. CASE HandleCrash
    <2>1. Matched
      BY <1>0, <1>1 DEF HandleCrash
    <2>2. CASE Busy
      <3>1. /\ Len(queue) > 0 /\ queue[1].type = "crash"
            /\ Len(queue') = Len(queue) - 1 /\ DOMAIN queue' = 1 .. Len(queue) - 1
            /\ \A i \in DOMAIN queue' : i + 1 \in DOMAIN queue /\ queue'[i] = queue[i + 1]
        BY <1>0, <1>1, HeadFacts DEF HandleCrash
      <3>2. UNCHANGED <<ring, watched, srv>> /\ (Writing' <=> Writing)
        BY <1>1, <2>2 DEF HandleCrash, Writing
      <3>3. \A i \in 1 .. 1 : queue[i].type # "closed"
        BY <3>1
      <3>4. QED
        BY <1>0, <1>a, <2>1, <3>1, <3>2, <3>3, ShiftStep
    <2>3. CASE ~Busy
      BY <1>0, <1>1, <2>1, <2>3, PutStep
    <2>4. QED
      BY <2>2, <2>3
  <1>2. CASE HandleCrashFails
    <2>1. /\ Len(queue) > 0 /\ queue[1].type = "crash" /\ queue[1].crash \in Crashes /\ 1 \in DOMAIN queue
          /\ Len(queue') = Len(queue) - 1 /\ DOMAIN queue' = 1 .. Len(queue) - 1
          /\ \A i \in DOMAIN queue' : i + 1 \in DOMAIN queue /\ queue'[i] = queue[i + 1]
      BY <1>0, <1>2, HeadFacts DEF HandleCrashFails
    <2>2. queue[1].crash \notin watched
      BY <1>0, <2>1 DEF Fresh, Waits, Unused
    <2>3. UNCHANGED ring /\ ~Writing /\ ~Writing'
      BY <1>2, <2>2 DEF HandleCrashFails, Writing
    <2>4. \A i \in 1 .. 1 : queue[i].type # "closed"
      BY <2>1
    <2>5. Matched
      BY <1>0, <1>2 DEF HandleCrashFails
    <2>6. QED
      BY <1>0, <1>a, <2>1, <2>3, <2>4, <2>5, ShiftStep
  <1>3. CASE HandleClosed
    BY <1>0, <1>3, ClosedStep DEF HandleClosed
  <1>4. CASE HandleFails
    <2>1. PICK n \in 1 .. Len(queue) :
            /\ queue' = SubSeq(queue, n + 1, Len(queue))
            /\ disturbed' = (disturbed \/ \E i \in 1 .. n : queue[i].type = "closed")
      BY <1>4 DEF HandleFails
    <2>2. /\ Len(queue') = Len(queue) - n /\ DOMAIN queue' = 1 .. Len(queue) - n
          /\ \A i \in DOMAIN queue' : i + n \in DOMAIN queue /\ queue'[i] = queue[i + n]
      BY <1>0, <2>1, LostFacts
    <2>3. ~disturbed /\ \A i \in 1 .. n : queue[i].type # "closed"
      BY <2>1
    <2>4. UNCHANGED ring /\ UNCHANGED <<watched, srv>> /\ (Writing' <=> Writing)
      BY <1>4 DEF HandleFails, Writing
    <2>5. n \in Nat /\ n <= Len(queue)
      BY <1>a
    <2>6. QED
      BY <1>0, <2>2, <2>3, <2>4, <2>5, ShiftStep
  <1>5. CASE Crash
    BY <1>0, <1>5, CrashStep DEF Crash
  <1>6. CASE ServiceWrites
    BY <1>0, <1>6, WritesStep DEF ServiceWrites
  <1>7. CASE Respawn
    <2>1. DOMAIN queue' = {} /\ ~Writing' /\ \A k \in Ahead' : ~Closing(k)'
      BY <1>7 DEF Respawn, Writing, Closing
    <2>2. \A p \in Places : keys'[p] = None
      BY <1>7 DEF Respawn
    <2>3. prod' = cons' /\ cons' \in Places /\ Other' \in Places
      BY <1>7, PlaceFacts DEF Respawn, Other
    <2>4. NoneToCome'
      BY <2>1, <2>2, <2>3 DEF NoneToCome
    <2>5. QED
      BY <2>4 DEF Matched
  <1>8. CASE UNCHANGED <<ring, queue>> /\ (disturbed => disturbed') /\ (Writing' <=> Writing)
             /\ (Writing => service' = service)
    <2>1. Matched
      BY <1>0, <1>8
    <2>2. PICK n \in Nat : n = 0
      OBVIOUS
    <2>3. /\ Len(queue') = Len(queue) - n /\ DOMAIN queue' = 1 .. Len(queue) - n
          /\ \A i \in DOMAIN queue' : i + n \in DOMAIN queue /\ queue'[i] = queue[i + n]
          /\ \A i \in 1 .. n : queue[i].type # "closed"
          /\ n <= Len(queue)
      BY <1>a, <1>8, <2>2
    <2>4. QED
      BY <1>0, <1>8, <2>1, <2>3, ShiftStep
  <1>9. CASE ServiceShown \/ BootCompletes \/ UNCHANGED vars
    <2>1. UNCHANGED <<ring, queue, disturbed, watched, service, written>>
      BY <1>9 DEF ServiceShown, BootCompletes
    <2>2. QED
      BY <1>8, <2>1 DEF Writing
  <1>10. CASE ServiceEnds
    <2>1. UNCHANGED <<ring, queue, disturbed>> /\ ~Writing /\ ~Writing'
      BY <1>10 DEF ServiceEnds, Writing
    <2>2. QED
      BY <1>8, <2>1
  <1>11. CASE ServiceDies
    <2>1. UNCHANGED <<ring, queue>> /\ ~disturbed /\ ~Writing /\ ~Writing'
      BY <1>11 DEF ServiceDies, Writing
    <2>2. QED
      BY <1>8, <2>1
  <1>12. QED
    BY <1>1, <1>2, <1>3, <1>4, <1>5, <1>6, <1>7, <1>9, <1>10, <1>11 DEF Next
-----------------------------------------------------------------------------
(* The theorems.                                                           *)

\* The inductive invariant.
THEOREM Invariant == Spec => []Inv
  <1>1. Inv /\ [Next]_vars => Inv'
    BY TypeStep, FreshStep, ServiceStep, MatchedStep DEF Inv
  <1>2. QED
    BY <1>1, InitInv, PTL DEF Spec

\* index_prod and index_cons stay in the ring, which holds keys of events and nothing else.
THEOREM TypeCorrect == Spec => []TypeOK
  <1>1. Inv => TypeOK
    BY DEF Inv
  <1>2. QED
    BY <1>1, Invariant, PTL

\* finalize_dropbox_pending_event tells CrashReport of a key once at most.
THEOREM KeySentOnce == Spec => []SentOnce
  <1>1. Inv => SentOnce
    BY DEF Inv
  <1>2. QED
    BY <1>1, Invariant, PTL

\* The key it takes is that of the folder the file was closed in, unless something was
\* disturbed, though the code compares neither.
THEOREM RightKey == Spec => KeyMatchesFolder
  <1> DEFINE Match == \A b \in sent' \ sent : ~disturbed => b.key = b.folder
  <1>1. ASSUME Inv, [Next]_vars PROVE Match
    <2>1. CASE HandleClosed
      <3>1. Head1("closed") /\ TakeKey(queue[1].crash)
        BY <2>1 DEF HandleClosed
      <3>2. \A b \in sent' \ sent : b.folder = queue[1].crash /\ b.key = keys[cons]
        BY <3>1 DEF TakeKey
      <3>3. ~disturbed => keys[cons] = queue[1].crash
        BY <1>1, <3>1, ClosedFacts DEF Inv
      <3>4. QED
        BY <3>2, <3>3
    <2>2. CASE UNCHANGED sent
      BY <2>2
    <2>3. QED
      BY <1>1, <2>1, <2>2
      DEF Next, HandleCrash, HandleCrashFails, HandleFails, Crash, ServiceShown, ServiceWrites,
          ServiceEnds, ServiceDies, BootCompletes, Respawn, vars
  <1>2. Inv /\ [Next]_vars => [Match]_vars
    BY <1>1
  <1>3. QED
    BY <1>2, Invariant, PTL DEF Spec, KeyMatchesFolder
=============================================================================
