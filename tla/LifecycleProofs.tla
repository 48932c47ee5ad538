---------------------------- MODULE LifecycleProofs ----------------------------
(***************************************************************************)
(* Proofs about Lifecycle, for every set of requests and configurations,   *)
(* every channel capacity and every bound.                                 *)
(***************************************************************************)
EXTENDS Lifecycle, FiniteSetTheorems, WellFoundedInduction, TLAPS

Ids == 1 .. MaxPosts

\* A loop waits on one of n channels, or on none yet, and has nothing in its hand
\* while it waits.
Slot(e, n) == e \in [chan: 0 .. n, hand: 0 .. MaxPosts] /\ (e.chan # 0 => e.hand = 0)

\* The types of the keyword index.
FilesOK == dir \in BOOLEAN /\ indexed \subseteq Ids /\ missed \subseteq Ids
ChansOK == chans \in Seq(Seq(Ids)) /\ \A k \in DOMAIN chans : Len(chans[k]) <= QueueCap
LoopsOK == loops \in Seq([chan: Nat, hand: Nat]) /\ \A l \in DOMAIN loops : Slot(loops[l], Len(chans))
KeywordsOK == FilesOK /\ ChansOK /\ LoopsOK /\ Len(chans) = Len(loops) /\ repopulate \in BOOLEAN

\* The other types.
RestOK ==
  /\ phase \in {"off", "config", "database", "keyword", "fill", "watch", "serving"}
  /\ posts \in 0 .. MaxPosts /\ open \in BOOLEAN
  /\ writer \in Requests \cup Quitters \cup {Nil}
  /\ net \in {"none", "listening", "closed"}
  /\ shutdown \in 0 .. 1 /\ completed \in 0 .. 1 /\ quitDone \in 0 .. 1
  /\ quit \in [Quitters -> {"idle", "shutdown", "completed", "close", "locked", "tell", "over"}]
  /\ backup \in BOOLEAN
  /\ pc \in [Requests -> {"idle", "begin", "send", "commit"}]

\* Posts the index has, will have, or is known to miss.
Covered == indexed \cup Underway \cup missed

\* Handlers under way; callers of OnQuit that have the listener's answer and have
\* not closed the database yet.
Busy == {r \in Requests : pc[r] # "idle"}
Holders == {q \in Quitters : quit[q] \in {"close", "locked"}}

\* What runs in which phase.
PhaseInv ==
  /\ phase # "serving" => net = "none" /\ \A q \in Quitters : quit[q] = "idle"
  /\ net = "none" => \A r \in Requests : pc[r] = "idle"
  /\ phase \notin {"watch", "serving"} => ~backup
  /\ phase \in {"keyword", "fill", "watch", "serving"} /\ net # "closed" => open

\* The writer lock is held by who is between taking it and giving it back, and then,
\* as while the backup reads, the database is open.
WriterInv ==
  /\ \A r \in Requests : pc[r] \in {"send", "commit"} <=> writer = r
  /\ \A q \in Quitters : quit[q] = "locked" <=> writer = q
  /\ (\E r \in Requests : pc[r] \in {"send", "commit"}) => open
  /\ backup => open

\* The listener answers once, so that one caller of OnQuit at most closes the
\* database, and once.
AnswerInv ==
  /\ net # "closed" => completed = 0 /\ Holders = {}
  /\ completed = 1 => open /\ Holders = {}
  /\ Holders # {} => open
  /\ \A p, q \in Holders : p = q

\* The bound on posts leaves room for those under way.
RoomInv == posts + Cardinality(Busy) <= MaxPosts

\* main has accepted its configuration, and then made its buckets.
ConfigInv ==
  /\ phase \notin {"off", "config"} => config \in Seq(Forum) /\ LoadConfig(config)
  /\ phase \in {"keyword", "fill", "watch", "serving"} => RangeOf(GetAllSubforumIDs(config)) \subseteq buckets

\* So is the post about to be committed: its message has been sent.
SentInv == \A r \in Requests : pc[r] = "commit" => posts + 1 \in Covered

IndInv ==
  /\ KeywordsOK /\ RestOK
  /\ PhaseInv /\ WriterInv /\ AnswerInv /\ RoomInv /\ ConfigInv
  /\ SentInv /\ EveryPostAccountedFor
-----------------------------------------------------------------------------
(***************************************************************************)
(* The keyword index: no operation drops what is covered.                  *)
(***************************************************************************)
\* Who is underway, position by position.
LEMMA UnderwayMember ==
  /\ \A i : i \in Underway <=>
       \/ \E k \in DOMAIN chans : \E j \in DOMAIN chans[k] : chans[k][j] = i
       \/ i # 0 /\ \E l \in DOMAIN loops : loops[l].hand = i
  /\ \A i : i \in Underway' <=>
       \/ \E k \in DOMAIN chans' : \E j \in DOMAIN chans'[k] : chans'[k][j] = i
       \/ i # 0 /\ \E l \in DOMAIN loops' : loops'[l].hand = i
  <1>1. ASSUME NEW i, NEW cs
        PROVE  (i \in UNION {RangeOf(cs[k]) : k \in DOMAIN cs}) <=>
                 (\E k \in DOMAIN cs : \E j \in DOMAIN cs[k] : cs[k][j] = i)
    BY DEF RangeOf
  <1>2. ASSUME NEW i, NEW ls
        PROVE  (i \in {ls[l].hand : l \in DOMAIN ls} \ {0}) <=> (i # 0 /\ \E l \in DOMAIN ls : ls[l].hand = i)
    OBVIOUS
  <1>3. \A i : i \in Underway <=>
          \/ i \in UNION {RangeOf(chans[k]) : k \in DOMAIN chans}
          \/ i \in {loops[l].hand : l \in DOMAIN loops} \ {0}
    BY DEF Underway
  <1>4. \A i : i \in Underway' <=>
          \/ i \in UNION {RangeOf(chans'[k]) : k \in DOMAIN chans'}
          \/ i \in {loops'[l].hand : l \in DOMAIN loops'} \ {0}
    BY DEF Underway
  <1>5. \A i : i \in UNION {RangeOf(chans[k]) : k \in DOMAIN chans} <=>
                 (\E k \in DOMAIN chans : \E j \in DOMAIN chans[k] : chans[k][j] = i)
    BY <1>1
  <1>6. \A i : i \in UNION {RangeOf(chans'[k]) : k \in DOMAIN chans'} <=>
                 (\E k \in DOMAIN chans' : \E j \in DOMAIN chans'[k] : chans'[k][j] = i)
    BY <1>1
  <1>7. \A i : (i \in {loops[l].hand : l \in DOMAIN loops} \ {0}) <=> (i # 0 /\ \E l \in DOMAIN loops : loops[l].hand = i)
    BY <1>2
  <1>8. \A i : (i \in {loops'[l].hand : l \in DOMAIN loops'} \ {0}) <=> (i # 0 /\ \E l \in DOMAIN loops' : loops'[l].hand = i)
    BY <1>2
  <1> QED
    BY <1>3, <1>4, <1>5, <1>6, <1>7, <1>8, Zenon

\* What Append adds to a sequence, and where.
LEMMA AppendElements ==
  ASSUME NEW S, NEW s \in Seq(S), NEW e \in S
  PROVE  /\ Append(s, e) \in Seq(S) /\ Len(Append(s, e)) = Len(s) + 1
         /\ DOMAIN Append(s, e) = DOMAIN s \cup {Len(s) + 1}
         /\ Append(s, e)[Len(s) + 1] = e
         /\ \A i \in DOMAIN s : Append(s, e)[i] = s[i]
  OBVIOUS

\* What Tail leaves: all but the head.
LEMMA TailElements ==
  ASSUME NEW S, NEW c \in Seq(S), c # <<>>
  PROVE  /\ Head(c) \in S /\ Tail(c) \in Seq(S) /\ Len(Tail(c)) = Len(c) - 1
         /\ \A j \in DOMAIN c : c[j] = Head(c) \/ (\E n \in DOMAIN Tail(c) : Tail(c)[n] = c[j])
  <1>1. /\ Head(c) \in S /\ Tail(c) \in Seq(S) /\ Len(Tail(c)) = Len(c) - 1 /\ Len(c) \in Nat
        /\ Head(c) = c[1] /\ DOMAIN c = 1 .. Len(c) /\ DOMAIN Tail(c) = 1 .. Len(c) - 1
        /\ \A j \in 1 .. Len(c) - 1 : Tail(c)[j] = c[j + 1]
    OBVIOUS
  <1>2. ASSUME NEW j \in DOMAIN c, j # 1 PROVE \E n \in DOMAIN Tail(c) : Tail(c)[n] = c[j]
    <2>1. j - 1 \in DOMAIN Tail(c) /\ Tail(c)[j - 1] = c[j]
      BY <1>1, <1>2
    <2> QED
      BY <2>1
  <1> QED
    BY <1>1, <1>2

\* The positions of a sequence.
LEMMA Positions ==
  ASSUME NEW S, NEW s \in Seq(S)
  PROVE  /\ DOMAIN s = 1 .. Len(s) /\ Len(s) \in Nat
         /\ \A k \in DOMAIN s : s[k] \in S /\ k \in Nat
         /\ Len(s) # 0 => Len(s) \in DOMAIN s
  OBVIOUS

\* A replaced element leaves the others.
LEMMA ReplacedElement ==
  ASSUME NEW S, NEW s \in Seq(S), NEW k \in DOMAIN s, NEW e \in S
  PROVE  LET t == [s EXCEPT ![k] = e] IN
         /\ t \in Seq(S) /\ DOMAIN t = DOMAIN s /\ Len(t) = Len(s) /\ t[k] = e
         /\ \A i \in DOMAIN s \ {k} : t[i] = s[i]
  OBVIOUS

\* What the types say of channels and loops.
LEMMA MemoryFacts ==
  ASSUME KeywordsOK
  PROVE  /\ chans \in Seq(Seq(Ids)) /\ loops \in Seq([chan: Nat, hand: Nat])
         /\ DOMAIN chans = 1 .. Len(chans) /\ DOMAIN loops = DOMAIN chans /\ Len(chans) \in Nat
         /\ \A k \in DOMAIN chans : chans[k] \in Seq(Ids) /\ Len(chans[k]) \in Nat /\ Len(chans[k]) <= QueueCap
         /\ \A l \in DOMAIN loops : Slot(loops[l], Len(chans))
         /\ Len(chans) # 0 => Len(chans) \in DOMAIN chans
  <1>1. chans \in Seq(Seq(Ids)) /\ loops \in Seq([chan: Nat, hand: Nat]) /\ Len(chans) = Len(loops)
    BY DEF KeywordsOK, ChansOK, LoopsOK
  <1>2. \A k \in DOMAIN chans : chans[k] \in Seq(Ids)
    BY <1>1, Positions
  <1>3. \A k \in DOMAIN chans : Len(chans[k]) \in Nat
    BY <1>2, Positions
  <1>4. DOMAIN chans = 1 .. Len(chans) /\ Len(chans) \in Nat /\ (Len(chans) # 0 => Len(chans) \in DOMAIN chans)
    BY <1>1, Positions
  <1>5. DOMAIN loops = 1 .. Len(loops)
    BY <1>1, Positions
  <1> QED
    BY <1>1, <1>2, <1>3, <1>4, <1>5 DEF KeywordsOK, ChansOK, LoopsOK

\* index.Index, with or without an error, covers the post and drops no other.
LEMMA IndexCovers ==
  ASSUME FilesOK, NEW i \in Ids, Index(i), UNCHANGED dir
  PROVE  FilesOK' /\ indexed \cup missed \cup {i} \subseteq indexed' \cup missed'
  BY DEF FilesOK, Index

\* A call of initKeyword begins with an empty channel and an idle loop.
LEMMA ChannelMade ==
  ASSUME KeywordsOK, MakeChannel
  PROVE  ChansOK' /\ LoopsOK' /\ Len(chans') = Len(loops') /\ Underway' = Underway
  <1> DEFINE new == [chan |-> 0, hand |-> 0]
             e == <<>>
  <1>1. /\ chans' = Append(chans, e) /\ loops' = Append(loops, new)
        /\ Len(chans) = Len(loops)
    BY DEF MakeChannel, KeywordsOK
  <1>2. /\ new \in [chan: Nat, hand: Nat] /\ new.hand = 0 /\ \A n \in Nat : Slot(new, n)
        /\ e \in Seq(Ids) /\ Len(e) = 0 /\ DOMAIN e = {}
    BY LifecycleAssumption DEF Slot
  <1> HIDE DEF new, e
  <1>3. /\ chans' \in Seq(Seq(Ids)) /\ Len(chans') = Len(chans) + 1 /\ Len(chans) \in Nat
        /\ DOMAIN chans' = DOMAIN chans \cup {Len(chans) + 1}
        /\ chans'[Len(chans) + 1] = e /\ \A k \in DOMAIN chans : chans'[k] = chans[k]
    BY <1>1, <1>2, MemoryFacts, AppendElements
  <1>4. /\ loops' \in Seq([chan: Nat, hand: Nat]) /\ Len(loops') = Len(loops) + 1
        /\ DOMAIN loops' = DOMAIN loops \cup {Len(loops) + 1}
        /\ loops'[Len(loops) + 1] = new /\ \A l \in DOMAIN loops : loops'[l] = loops[l]
    BY <1>1, <1>2, MemoryFacts, AppendElements
  <1>5. ChansOK'
    <2>1. \A k \in DOMAIN chans' : Len(chans'[k]) <= QueueCap
      BY <1>2, <1>3, KeywordsAssumption DEF KeywordsOK, ChansOK
    <2> QED
      BY <1>3, <2>1 DEF ChansOK
  <1>6. LoopsOK'
    <2>1. ASSUME NEW l \in DOMAIN loops' PROVE Slot(loops'[l], Len(chans'))
      <3>1. CASE l \in DOMAIN loops
        BY <1>3, <1>4, <3>1, MemoryFacts DEF Slot
      <3>2. CASE l = Len(loops) + 1
        BY <1>2, <1>3, <1>4, <3>2
      <3> QED
        BY <1>4, <2>1, <3>1, <3>2
    <2> QED
      BY <1>4, <2>1 DEF LoopsOK, Slot
  <1>7. Underway' = Underway
    <2>1. \A i : (\E k \in DOMAIN chans' : \E j \in DOMAIN chans'[k] : chans'[k][j] = i) <=>
                 (\E k \in DOMAIN chans : \E j \in DOMAIN chans[k] : chans[k][j] = i)
      BY <1>2, <1>3
    <2>2. \A i : (i # 0 /\ \E l \in DOMAIN loops' : loops'[l].hand = i) <=>
                 (i # 0 /\ \E l \in DOMAIN loops : loops[l].hand = i)
      BY <1>2, <1>4
    <2> QED
      BY <2>1, <2>2, UnderwayMember
  <1> QED
    BY <1>1, <1>3, <1>4, <1>5, <1>6, <1>7

\* A channel with another content.
LEMMA ChannelChanged ==
  ASSUME KeywordsOK, NEW k \in DOMAIN chans, NEW s \in Seq(Ids), Len(s) <= QueueCap,
         chans' = [chans EXCEPT ![k] = s]
  PROVE  /\ ChansOK' /\ DOMAIN chans' = DOMAIN chans /\ Len(chans') = Len(chans)
         /\ chans'[k] = s /\ \A j \in DOMAIN chans \ {k} : chans'[j] = chans[j]
  <1>1. /\ chans' \in Seq(Seq(Ids)) /\ DOMAIN chans' = DOMAIN chans /\ Len(chans') = Len(chans)
        /\ chans'[k] = s /\ \A j \in DOMAIN chans \ {k} : chans'[j] = chans[j]
    BY MemoryFacts, ReplacedElement
  <1>2. \A j \in DOMAIN chans' : Len(chans'[j]) <= QueueCap
    BY <1>1, MemoryFacts
  <1> QED
    BY <1>1, <1>2 DEF ChansOK

\* A loop with another content, where the number of channels stays.
LEMMA LoopChanged ==
  ASSUME KeywordsOK, NEW l \in DOMAIN loops, NEW e, Slot(e, Len(chans)),
         loops' = [loops EXCEPT ![l] = e], Len(chans') = Len(chans)
  PROVE  /\ LoopsOK' /\ DOMAIN loops' = DOMAIN loops /\ Len(loops') = Len(loops)
         /\ loops'[l] = e /\ \A m \in DOMAIN loops \ {l} : loops'[m] = loops[m]
  <1>0. e \in [chan: Nat, hand: Nat]
    BY MemoryFacts, LifecycleAssumption DEF Slot
  <1>1. /\ loops' \in Seq([chan: Nat, hand: Nat]) /\ DOMAIN loops' = DOMAIN loops /\ Len(loops') = Len(loops)
        /\ loops'[l] = e /\ \A m \in DOMAIN loops \ {l} : loops'[m] = loops[m]
    BY <1>0, MemoryFacts, ReplacedElement
  <1>2. \A m \in DOMAIN loops' : Slot(loops'[m], Len(chans'))
    BY <1>1, MemoryFacts
  <1> QED
    BY <1>1, <1>2 DEF LoopsOK

\* Sending puts the message underway, wherever keywordDBchan points.
LEMMA SendCovers ==
  ASSUME KeywordsOK, NEW i \in Ids, Send(i)
  PROVE  KeywordsOK' /\ dir' = dir /\ Covered' = Covered \cup {i}
  <1> DEFINE k == Len(chans)
             s == Append(chans[k], i)
  <1>1. /\ k # 0 /\ Len(chans[k]) < QueueCap /\ chans' = [chans EXCEPT ![k] = s]
        /\ UNCHANGED <<dir, indexed, missed, repopulate, loops>>
    BY DEF Send, files
  <1>2. k \in DOMAIN chans /\ chans[k] \in Seq(Ids) /\ Len(chans[k]) \in Nat
    BY <1>1, MemoryFacts
  <1>3. /\ s \in Seq(Ids) /\ DOMAIN s = DOMAIN chans[k] \cup {Len(chans[k]) + 1}
        /\ s[Len(chans[k]) + 1] = i /\ \A j \in DOMAIN chans[k] : s[j] = chans[k][j]
        /\ Len(s) = Len(chans[k]) + 1
    BY <1>2, AppendElements
  <1> HIDE DEF s, k
  <1>4. /\ ChansOK' /\ DOMAIN chans' = DOMAIN chans /\ Len(chans') = Len(chans)
        /\ chans'[k] = s /\ \A j \in DOMAIN chans \ {k} : chans'[j] = chans[j]
    <2>1. Len(s) <= QueueCap
      BY <1>1, <1>2, <1>3, KeywordsAssumption
    <2> QED
      BY <1>1, <1>2, <1>3, <2>1, ChannelChanged
  <1>5. KeywordsOK'
    BY <1>1, <1>4 DEF KeywordsOK, FilesOK, LoopsOK
  <1>6. Underway' = Underway \cup {i}
    <2>1. \A x : (\E n \in DOMAIN s : s[n] = x) <=> ((\E n \in DOMAIN chans[k] : chans[k][n] = x) \/ x = i)
      BY <1>3
    <2>2. \A x : (\E j \in DOMAIN chans' : \E n \in DOMAIN chans'[j] : chans'[j][n] = x) <=>
                 ((\E j \in DOMAIN chans : \E n \in DOMAIN chans[j] : chans[j][n] = x) \/ x = i)
      <3> DEFINE P(j, x) == \E n \in DOMAIN chans[j] : chans[j][n] = x
                 Q(j, x) == \E n \in DOMAIN chans'[j] : chans'[j][n] = x
      <3>1. \A x : \A j \in DOMAIN chans \ {k} : Q(j, x) <=> P(j, x)
        BY <1>4
      <3>2. \A x : Q(k, x) <=> (P(k, x) \/ x = i)
        BY <1>4, <2>1
      <3> HIDE DEF P, Q
      <3>3. \A x : (\E j \in DOMAIN chans' : Q(j, x)) <=> ((\E j \in DOMAIN chans : P(j, x)) \/ x = i)
        BY <1>2, <1>4, <3>1, <3>2
      <3> QED
        BY <3>3 DEF P, Q
    <2>3. i # 0
      BY LifecycleAssumption DEF Ids
    <2> QED
      BY <1>1, <2>2, <2>3, UnderwayMember
  <1> QED
    BY <1>1, <1>5, <1>6 DEF Covered

\* A loop that comes to its channel.
LEMMA EvaluateCovers ==
  ASSUME KeywordsOK, NEW l \in DOMAIN loops, Evaluate(l)
  PROVE  KeywordsOK' /\ dir' = dir /\ Covered \subseteq Covered'
  <1>1. PICK k \in Channels(l) : loops' = [loops EXCEPT ![l].chan = k]
    BY DEF Evaluate
  <1> DEFINE e == [chan |-> k, hand |-> 0]
  <1>2. k \in 1 .. Len(chans) /\ UNCHANGED <<dir, indexed, missed, repopulate, chans>>
    BY MemoryFacts DEF Channels, Evaluate, files
  <1>3. loops' = [loops EXCEPT ![l] = e] /\ loops[l].hand = 0
    <2>1. loops[l] = [chan |-> 0, hand |-> 0]
      BY DEF Evaluate
    <2>2. [loops[l] EXCEPT !.chan = k] = e
      BY <2>1
    <2>3. loops' = [loops EXCEPT ![l] = [loops[l] EXCEPT !.chan = k]]
      BY <1>1
    <2> QED
      BY <2>1, <2>2, <2>3
  <1>4. Slot(e, Len(chans)) /\ e.hand = 0
    BY <1>2, MemoryFacts, LifecycleAssumption DEF Slot
  <1> HIDE DEF e
  <1>5. /\ LoopsOK' /\ DOMAIN loops' = DOMAIN loops /\ Len(loops') = Len(loops)
        /\ loops'[l] = e /\ \A m \in DOMAIN loops \ {l} : loops'[m] = loops[m]
    BY <1>2, <1>3, <1>4, LoopChanged
  <1>6. KeywordsOK'
    BY <1>2, <1>5 DEF KeywordsOK, FilesOK, ChansOK
  <1>7. Underway' = Underway
    <2>1. \A m \in DOMAIN loops : loops'[m].hand = loops[m].hand
      BY <1>3, <1>4, <1>5
    <2>2. \A x : (x # 0 /\ \E m \in DOMAIN loops' : loops'[m].hand = x) <=>
                 (x # 0 /\ \E m \in DOMAIN loops : loops[m].hand = x)
      BY <1>5, <2>1
    <2>3. chans' = chans
      BY <1>2
    <2>4. \A x : x \in Underway' <=> x \in Underway
      BY <2>2, <2>3, UnderwayMember
    <2> QED
      BY <2>4
  <1> QED
    BY <1>2, <1>6, <1>7 DEF Covered

\* A loop that takes a message into its hand: it had none there.
LEMMA ReceiveCovers ==
  ASSUME KeywordsOK, NEW l \in DOMAIN loops, Receive(l)
  PROVE  KeywordsOK' /\ dir' = dir /\ Covered \subseteq Covered'
  <1> DEFINE k == loops[l].chan
             h == Head(chans[k])
             s == Tail(chans[k])
             e == [chan |-> 0, hand |-> h]
  <1>1. /\ k # 0 /\ chans[k] # <<>> /\ loops' = [loops EXCEPT ![l] = e] /\ chans' = [chans EXCEPT ![k] = s]
        /\ UNCHANGED <<dir, indexed, missed, repopulate>>
    BY DEF Receive, files
  <1>2. k \in DOMAIN chans /\ chans[k] \in Seq(Ids) /\ Len(chans[k]) <= QueueCap /\ loops[l].hand = 0
    BY <1>1, MemoryFacts DEF Slot
  <1>3. /\ h \in Ids /\ s \in Seq(Ids) /\ Len(s) <= QueueCap
        /\ \A j \in DOMAIN chans[k] : chans[k][j] = h \/ (\E n \in DOMAIN s : s[n] = chans[k][j])
    <2>1. chans[k] \in Seq(Ids) /\ chans[k] # <<>> /\ Len(chans[k]) \in Nat
      BY <1>1, <1>2, Positions
    <2>2. /\ h \in Ids /\ s \in Seq(Ids) /\ Len(s) = Len(chans[k]) - 1
          /\ \A j \in DOMAIN chans[k] : chans[k][j] = h \/ (\E n \in DOMAIN s : s[n] = chans[k][j])
      BY <2>1, TailElements
    <2>3. Len(s) <= QueueCap
      BY <1>2, <2>1, <2>2, KeywordsAssumption
    <2> QED
      BY <2>2, <2>3
  <1>4. Slot(e, Len(chans)) /\ e.hand = h /\ h # 0
    <2>1. Len(chans) \in Nat /\ h \in Ids
      BY <1>3, MemoryFacts
    <2> HIDE DEF h
    <2> QED
      BY <2>1, LifecycleAssumption DEF Ids, Slot
  <1> HIDE DEF e, h, s, k
  <1>5. /\ ChansOK' /\ DOMAIN chans' = DOMAIN chans /\ Len(chans') = Len(chans)
        /\ chans'[k] = s /\ \A j \in DOMAIN chans \ {k} : chans'[j] = chans[j]
    BY <1>1, <1>2, <1>3, ChannelChanged
  <1>6. /\ LoopsOK' /\ DOMAIN loops' = DOMAIN loops /\ Len(loops') = Len(loops)
        /\ loops'[l] = e /\ \A m \in DOMAIN loops \ {l} : loops'[m] = loops[m]
    BY <1>1, <1>4, <1>5, LoopChanged
  <1>7. KeywordsOK'
    BY <1>1, <1>5, <1>6 DEF KeywordsOK, FilesOK
  <1>8. ASSUME NEW x \in Underway PROVE x \in Underway'
    <2>1. CASE \E j \in DOMAIN chans : \E n \in DOMAIN chans[j] : chans[j][n] = x
      <3>1. PICK j \in DOMAIN chans : \E n \in DOMAIN chans[j] : chans[j][n] = x
        BY <2>1
      <3>2. CASE j # k
        BY <1>5, <3>1, <3>2, UnderwayMember
      <3>3. CASE j = k
        <4>1. x = h \/ \E n \in DOMAIN s : s[n] = x
          BY <1>3, <3>1, <3>3
        <4>2. CASE \E n \in DOMAIN s : s[n] = x
          BY <1>2, <1>5, <4>2, UnderwayMember
        <4>3. CASE x = h
          BY <1>4, <1>6, <4>3, UnderwayMember
        <4> QED
          BY <4>1, <4>2, <4>3
      <3> QED
        BY <3>2, <3>3
    <2>2. CASE x # 0 /\ \E m \in DOMAIN loops : loops[m].hand = x
      <3>1. PICK m \in DOMAIN loops : loops[m].hand = x
        BY <2>2
      <3>2. m # l /\ loops'[m].hand = x
        BY <1>2, <1>6, <2>2, <3>1
      <3> QED
        BY <1>6, <2>2, <3>2, UnderwayMember
    <2> QED
      BY <2>1, <2>2, UnderwayMember
  <1> QED
    BY <1>1, <1>7, <1>8 DEF Covered

\* A loop that indexes what it has in its hand.
LEMMA IndexHandCovers ==
  ASSUME KeywordsOK, NEW l \in DOMAIN loops, IndexHand(l)
  PROVE  KeywordsOK' /\ dir' = dir /\ Covered \subseteq Covered'
  <1> DEFINE i == loops[l].hand
  <1>1. i \in Ids /\ Index(i) /\ UNCHANGED <<dir, repopulate, chans>>
    BY MemoryFacts, LifecycleAssumption DEF IndexHand, Slot, Ids
  <1>2. PICK k \in Channels(l) : loops' = [loops EXCEPT ![l] = [chan |-> k, hand |-> 0]]
    BY DEF IndexHand
  <1> DEFINE e == [chan |-> k, hand |-> 0]
  <1>3. Slot(e, Len(chans))
    BY MemoryFacts, LifecycleAssumption DEF Channels, Slot
  <1>4. loops' = [loops EXCEPT ![l] = e]
    BY <1>2
  <1> HIDE DEF e, i
  <1>5. /\ LoopsOK' /\ DOMAIN loops' = DOMAIN loops /\ Len(loops') = Len(loops)
        /\ loops'[l] = e /\ \A m \in DOMAIN loops \ {l} : loops'[m] = loops[m]
    BY <1>1, <1>3, <1>4, LoopChanged
  <1>6. FilesOK' /\ indexed \cup missed \cup {i} \subseteq indexed' \cup missed'
    BY <1>1, IndexCovers DEF KeywordsOK
  <1>7. KeywordsOK'
    BY <1>1, <1>5, <1>6 DEF KeywordsOK, ChansOK
  <1>8. ASSUME NEW x \in Underway, x # i PROVE x \in Underway'
    <2>1. CASE \E j \in DOMAIN chans : \E n \in DOMAIN chans[j] : chans[j][n] = x
      BY <1>1, <2>1, UnderwayMember
    <2>2. CASE x # 0 /\ \E m \in DOMAIN loops : loops[m].hand = x
      <3>1. PICK m \in DOMAIN loops : loops[m].hand = x
        BY <2>2
      <3>2. m # l /\ loops'[m].hand = x
        BY <1>5, <1>8, <3>1 DEF i
      <3> QED
        BY <1>5, <2>2, <3>2, UnderwayMember
    <2> QED
      BY <2>1, <2>2, UnderwayMember
  <1> QED
    BY <1>1, <1>6, <1>7, <1>8 DEF Covered

\* A loop moves messages on; whatever channel it waits on, it drops none.
LEMMA LoopCovers ==
  ASSUME KeywordsOK, NEW l \in DOMAIN loops, KeywordDBLoop(l)
  PROVE  KeywordsOK' /\ dir' = dir /\ Covered \subseteq Covered'
  BY EvaluateCovers, ReceiveCovers, IndexHandCovers DEF KeywordDBLoop

\* Nothing changes in the index and its channels.
LEMMA KeywordsStay ==
  ASSUME KeywordsOK, UNCHANGED keywords
  PROVE  KeywordsOK' /\ dir' = dir /\ Covered' = Covered
  <1>1. UNCHANGED <<dir, indexed, missed, repopulate, chans, loops>>
    BY DEF keywords, files, memory
  <1>2. KeywordsOK'
    BY <1>1 DEF KeywordsOK, FilesOK, ChansOK, LoopsOK
  <1>3. Underway' = Underway
    BY <1>1 DEF Underway
  <1> QED
    BY <1>1, <1>2, <1>3 DEF Covered

\* The three ways through initKeyword.
LEMMA InitKeywordCovers ==
  ASSUME KeywordsOK
  PROVE  /\ NewIndex => KeywordsOK'
         /\ OpenIndex => KeywordsOK' /\ dir' = dir /\ Covered' = Covered
         /\ Recurse => KeywordsOK' /\ dir' = FALSE
  <1>1. ASSUME NewIndex PROVE KeywordsOK'
    <2>1. dir' = TRUE /\ indexed' = {} /\ missed' = {} /\ MakeChannel /\ repopulate' = repopulate
      BY <1>1 DEF NewIndex
    <2>2. ChansOK' /\ LoopsOK' /\ Len(chans') = Len(loops')
      BY <2>1, ChannelMade
    <2> QED
      BY <2>1, <2>2 DEF KeywordsOK, FilesOK
  <1>2. ASSUME OpenIndex PROVE KeywordsOK' /\ dir' = dir /\ Covered' = Covered
    <2>1. MakeChannel /\ UNCHANGED <<dir, indexed, missed, repopulate>>
      BY <1>2 DEF OpenIndex, files
    <2>2. ChansOK' /\ LoopsOK' /\ Len(chans') = Len(loops') /\ Underway' = Underway
      BY <2>1, ChannelMade
    <2> QED
      BY <2>1, <2>2 DEF KeywordsOK, FilesOK, Covered
  <1>3. ASSUME Recurse PROVE KeywordsOK' /\ dir' = FALSE
    <2>1. MakeChannel /\ UNCHANGED <<dir, indexed, missed>> /\ repopulate' = TRUE /\ ~dir
      BY <1>3 DEF Recurse, files
    <2>2. ChansOK' /\ LoopsOK' /\ Len(chans') = Len(loops')
      BY <2>1, ChannelMade
    <2> QED
      BY <2>1, <2>2 DEF KeywordsOK, FilesOK
  <1> QED
    BY <1>1, <1>2, <1>3

\* The filling goes from post to post.
LEMMA FillCovers ==
  ASSUME KeywordsOK, NEW n \in 0 .. MaxPosts, FillNext(n)
  PROVE  KeywordsOK' /\ dir' = dir /\ Covered \subseteq Covered'
  <1>1. PICK i \in 1 .. n \ (indexed \cup missed) : Index(i) /\ UNCHANGED <<dir, memory>>
    BY DEF FillNext
  <1>2. i \in Ids /\ UNCHANGED <<dir, repopulate, chans, loops>>
    BY <1>1, LifecycleAssumption DEF Ids, memory
  <1>3. FilesOK' /\ indexed \cup missed \cup {i} \subseteq indexed' \cup missed'
    BY <1>1, <1>2, IndexCovers DEF KeywordsOK
  <1>4. KeywordsOK'
    BY <1>2, <1>3 DEF KeywordsOK, ChansOK, LoopsOK
  <1>5. Underway' = Underway
    BY <1>2 DEF Underway
  <1> QED
    BY <1>2, <1>3, <1>4, <1>5 DEF Covered

\* A stop keeps what was covered, counting what it loses as missed.
LEMMA ForgetCovers ==
  ASSUME KeywordsOK, NEW n \in 0 .. MaxPosts, NEW filling \in BOOLEAN, Forget(n, filling)
  PROVE  /\ KeywordsOK' /\ dir' = dir
         /\ filling => 1 .. n \subseteq Covered'
         /\ 1 .. n \subseteq Covered => 1 .. n \subseteq Covered'
  <1>1. /\ repopulate' = FALSE /\ chans' = <<>> /\ loops' = <<>> /\ dir' = dir /\ indexed' = indexed
        /\ missed' = missed \cup ((IF filling THEN 1 .. n ELSE Underway \cap 1 .. n) \ indexed)
    BY DEF Forget
  <1>2. 1 .. n \subseteq Ids
    BY LifecycleAssumption DEF Ids
  <1>3. FilesOK'
    BY <1>1, <1>2 DEF KeywordsOK, FilesOK
  <1>4. ChansOK' /\ LoopsOK' /\ Len(chans') = Len(loops')
    <2>1. chans' \in Seq(Seq(Ids)) /\ loops' \in Seq([chan: Nat, hand: Nat])
      BY <1>1
    <2> QED
      BY <1>1, <2>1 DEF ChansOK, LoopsOK
  <1>5. KeywordsOK'
    BY <1>1, <1>3, <1>4 DEF KeywordsOK
  <1> QED
    BY <1>1, <1>5 DEF Covered

\* The directory removed.
LEMMA RemoveCovers ==
  ASSUME KeywordsOK, RemoveDirectory
  PROVE  KeywordsOK' /\ dir' = FALSE
  BY DEF RemoveDirectory, memory, KeywordsOK, FilesOK, ChansOK, LoopsOK

\* The invariant's types are those of the keyword index.
LEMMA KeywordsTyped == KeywordsOK => KeywordsTypeOK(1 .. MaxPosts)
  <1> SUFFICES ASSUME KeywordsOK PROVE KeywordsTypeOK(1 .. MaxPosts)
    OBVIOUS
  <1>1. \A l \in DOMAIN loops : loops[l].chan \in 0 .. Len(chans) /\ loops[l].hand \in 1 .. MaxPosts \cup {0}
    BY MemoryFacts, LifecycleAssumption DEF Slot
  <1>2. \A k \in DOMAIN chans : chans[k] \in Seq(1 .. MaxPosts) /\ Len(chans[k]) <= QueueCap
    BY MemoryFacts DEF Ids
  <1> QED
    BY <1>1, <1>2 DEF KeywordsTypeOK, KeywordsOK, FilesOK, Ids
-----------------------------------------------------------------------------
(***************************************************************************)
(* The configuration.                                                      *)
(***************************************************************************)
\* A set of naturals has a smallest one.
LEMMA Smallest ==
  ASSUME NEW S, S \subseteq Nat, S # {}
  PROVE  \E m \in S : \A k \in S : m <= k
  <1>1. PICK m \in S : \A k \in S : ~ (<<k, m>> \in OpToRel(<, Nat))
    BY NatLessThanWellFounded, WFMin
  <1>2. ASSUME NEW k \in S PROVE m <= k
    <2>1. ~ (<<k, m>> \in OpToRel(<, Nat))
      BY <1>1
    <2>2. OpToRel(<, Nat) = {x \in Nat \X Nat : x[1] < x[2]}
      BY DEF OpToRel
    <2>3. ~ (k < m)
      BY <2>1, <2>2
    <2> QED
      BY <2>3
  <1> QED
    BY <1>2

\* The function that FlattenSeq defines by recursion on positions.
Joined(seqs) == CHOOSE f : f = [i \in 1 .. Len(seqs) |-> IF i = 1 THEN seqs[i] ELSE f[i - 1] \o seqs[i]]

\* What f is at each of the first n positions.
JoinsUpTo(seqs, f, n) == f = [i \in 1 .. n |-> IF i = 1 THEN seqs[i] ELSE f[i - 1] \o seqs[i]]

\* There is such a function for each number of positions: were there not, take the
\* smallest number without one.
LEMMA JoinedExists ==
  ASSUME NEW seqs, NEW n \in Nat
  PROVE  \E f : JoinsUpTo(seqs, f, n)
  <1> DEFINE Without == {m \in Nat : \A f : ~ JoinsUpTo(seqs, f, m)}
  <1>1. ASSUME n \in Without PROVE FALSE
    <2>1. Without \subseteq Nat /\ Without # {}
      BY <1>1
    <2> HIDE DEF Without
    <2>2. PICK m \in Without : \A k \in Without : m <= k
      BY <2>1, Smallest
    <2>3. m \in Nat /\ \A f : ~ JoinsUpTo(seqs, f, m)
      BY <2>2 DEF Without
    <2>4. CASE m = 0
      <3> DEFINE g == [i \in 1 .. 0 |-> <<>>]
      <3>1. JoinsUpTo(seqs, g, 0)
        BY DEF JoinsUpTo
      <3> QED
        BY <2>3, <2>4, <3>1
    <2>5. CASE m # 0
      <3>1. m - 1 \in Nat /\ ~ (m <= m - 1)
        BY <2>3, <2>5
      <3>2. m - 1 \notin Without
        BY <2>2, <3>1
      <3>3. PICK f : JoinsUpTo(seqs, f, m - 1)
        BY <3>1, <3>2 DEF Without
      <3> DEFINE g == [i \in 1 .. m |-> IF i = 1 THEN seqs[i] ELSE f[i - 1] \o seqs[i]]
      <3>4. f = [i \in 1 .. m - 1 |-> IF i = 1 THEN seqs[i] ELSE f[i - 1] \o seqs[i]]
        BY <3>3 DEF JoinsUpTo
      <3>5. \A i \in 1 .. m - 1 : g[i] = f[i]
        <4> DEFINE Here(i) == IF i = 1 THEN seqs[i] ELSE f[i - 1] \o seqs[i]
        <4>1. f = [i \in 1 .. m - 1 |-> Here(i)] /\ g = [i \in 1 .. m |-> Here(i)]
          BY <3>4
        <4> HIDE DEF Here, g
        <4>2. \A i \in 1 .. m - 1 : f[i] = Here(i)
          BY <4>1
        <4>3. \A i \in 1 .. m - 1 : i \in 1 .. m
          BY <2>3
        <4>4. \A i \in 1 .. m - 1 : g[i] = Here(i)
          BY <4>1, <4>3
        <4> QED
          BY <4>2, <4>4
      <3>6. \A i \in 1 .. m : i # 1 => i - 1 \in 1 .. m - 1
        BY <2>3
      <3>7. \A i \in 1 .. m : g[i] = IF i = 1 THEN seqs[i] ELSE f[i - 1] \o seqs[i]
        OBVIOUS
      <3>8. \A i \in 1 .. m : g[i] = IF i = 1 THEN seqs[i] ELSE g[i - 1] \o seqs[i]
        BY <3>5, <3>6, <3>7
      <3>9. g = [i \in 1 .. m |-> g[i]]
        OBVIOUS
      <3> HIDE DEF g
      <3>10. g = [i \in 1 .. m |-> IF i = 1 THEN seqs[i] ELSE g[i - 1] \o seqs[i]]
        BY <3>8, <3>9
      <3> QED
        BY <2>3, <3>10 DEF JoinsUpTo
    <2> QED
      BY <2>4, <2>5
  <1> QED
    BY <1>1

\* Sequences of a set put one after the other are a sequence of that set.
LEMMA Flattened ==
  ASSUME NEW S, NEW seqs \in Seq(Seq(S))
  PROVE  FlattenSeq(seqs) \in Seq(S)
  <1>1. CASE Len(seqs) = 0
    <2>1. seqs \in Seq(S)
      <3>1. seqs = <<>>
        BY <1>1
      <3> QED
        BY <3>1
    <2>2. FlattenSeq(seqs) = seqs
      BY <1>1 DEF FlattenSeq
    <2> QED
      BY <2>1, <2>2, Zenon
  <1>2. CASE Len(seqs) # 0
    <2> DEFINE n == Len(seqs)
               g == Joined(seqs)
    <2>1. n \in Nat \ {0} /\ \A i \in 1 .. n : seqs[i] \in Seq(S)
      BY <1>2
    <2>2. FlattenSeq(seqs) = g[n]
      BY <1>2 DEF FlattenSeq, Joined
    <2>3. JoinsUpTo(seqs, g, n)
      <3>1. \E f : JoinsUpTo(seqs, f, n)
        BY <2>1, JoinedExists
      <3> QED
        BY <3>1 DEF JoinsUpTo, Joined
    <2> HIDE DEF g, n
    <2>4. \A i \in 1 .. n : g[i] = IF i = 1 THEN seqs[i] ELSE g[i - 1] \o seqs[i]
      BY <2>3 DEF JoinsUpTo
    <2> DEFINE Not == {i \in 1 .. n : g[i] \notin Seq(S)}
    <2>5. ASSUME Not # {} PROVE FALSE
      <3>1. Not \subseteq Nat
        OBVIOUS
      <3> HIDE DEF Not
      <3>2. PICK m \in Not : \A k \in Not : m <= k
        BY <2>5, <3>1, Smallest
      <3>3. m \in 1 .. n /\ g[m] \notin Seq(S) /\ seqs[m] \in Seq(S)
        BY <2>1, <3>2 DEF Not
      <3>4. CASE m = 1
        BY <2>4, <3>3, <3>4
      <3>5. CASE m # 1
        <4>1. m - 1 \in 1 .. n /\ ~ (m <= m - 1)
          BY <2>1, <3>3, <3>5
        <4>2. g[m - 1] \in Seq(S)
          BY <3>2, <4>1 DEF Not
        <4>3. g[m] = g[m - 1] \o seqs[m]
          BY <2>4, <3>3, <3>5
        <4> QED
          BY <3>3, <4>2, <4>3
      <3> QED
        BY <3>4, <3>5
    <2>6. n \in 1 .. n
      BY <2>1
    <2> QED
      BY <2>2, <2>5, <2>6
  <1> QED
    BY <1>1, <1>2

\* The subforums of a configuration are a sequence.
LEMMA SubforumsTyped ==
  ASSUME NEW c \in Seq(Forum)
  PROVE  AllSubforums(c) \in Seq(Subforum)
  <1> DEFINE parts == [f \in DOMAIN c |-> c[f].subforums]
  <1>1. \A f \in DOMAIN c : c[f].subforums \in Seq(Subforum)
    <2>1. \A f \in DOMAIN c : c[f] \in Forum
      BY Positions
    <2> QED
      BY <2>1 DEF Forum
  <1>2. DOMAIN c = 1 .. Len(c) /\ Len(c) \in Nat
    BY Positions
  <1>3. parts \in [1 .. Len(c) -> Seq(Subforum)]
    BY <1>1, <1>2
  <1>4. parts \in Seq(Seq(Subforum))
    BY <1>2, <1>3
  <1> QED
    BY <1>4, Flattened DEF AllSubforums

\* No ID twice: each link's ID finds the entry that the link was made from.
LEMMA LinksFindTheirEntry ==
  ASSUME NEW c \in Seq(Forum), LoadConfig(c), NEW k \in DOMAIN AllSubforums(c)
  PROVE  /\ SubforumExists(c, AllSubforums(c)[k].id)
         /\ SubforumName(c, AllSubforums(c)[k].id) = RootLinks(c)[k].name
  <1> DEFINE all == AllSubforums(c)
             id == all[k].id
  <1>1. DOMAIN all = 1 .. Len(all) /\ Len(all) \in Nat
    BY SubforumsTyped, Positions
  <1>3. RootLinks(c)[k].name = all[k].name
    BY DEF RootLinks
  <1>4. \A a, b \in DOMAIN all : all[a].id = all[b].id => a = b
    BY DEF LoadConfig, GetAllSubforumIDs, IsInjective
  <1>5. FirstWithID(c, id) = k
    <2> DEFINE hits == {j \in DOMAIN all : all[j].id = id}
    <2>1. hits = {k}
      BY <1>4
    <2>2. k \in Nat
      BY <1>1
    <2>3. FirstWithID(c, id) = IF hits = {} THEN 0 ELSE CHOOSE i \in hits : \A j \in hits : i <= j
      BY DEF FirstWithID
    <2> HIDE DEF hits
    <2>4. \A i \in hits : i = k
      BY <2>1
    <2>5. \E i \in hits : \A j \in hits : i <= j
      BY <2>1, <2>2
    <2> QED
      BY <2>1, <2>3, <2>4, <2>5
  <1>6. k # 0
    BY <1>1
  <1> QED
    BY <1>3, <1>5, <1>6 DEF SubforumExists, SubforumName

\* An ID that is found is one of the configuration's.
LEMMA FoundIsListed ==
  ASSUME NEW c, NEW id, SubforumExists(c, id)
  PROVE  id \in RangeOf(GetAllSubforumIDs(c))
  <1> DEFINE all == AllSubforums(c)
  <1>1. PICK j \in DOMAIN all : all[j].id = id
    BY DEF SubforumExists, FirstWithID
  <1> QED
    BY <1>1 DEF GetAllSubforumIDs, RangeOf
-----------------------------------------------------------------------------
(***************************************************************************)
(* The steps.                                                              *)
(***************************************************************************)
\* Nothing changes.
LEMMA StutterStep ==
  ASSUME IndInv, UNCHANGED vars
  PROVE  IndInv'
  <1>1. UNCHANGED <<phase, config, buckets, posts, open, writer, net, shutdown, completed, quitDone, quit, backup, pc>>
    BY DEF vars, rest, storage, channels
  <1>2. KeywordsOK' /\ dir' = dir /\ Covered' = Covered
    BY KeywordsStay DEF vars, IndInv
  <1>3. Busy' = Busy /\ Holders' = Holders
    BY <1>1 DEF Busy, Holders
  <1>4. RestOK' /\ RoomInv' /\ ConfigInv'
    BY <1>1, <1>3 DEF IndInv, RestOK, RoomInv, ConfigInv
  <1>5. PhaseInv' /\ WriterInv' /\ AnswerInv'
    BY <1>1, <1>3 DEF IndInv, PhaseInv, WriterInv, AnswerInv
  <1>6. SentInv' /\ EveryPostAccountedFor'
    BY <1>1, <1>2 DEF IndInv, SentInv, EveryPostAccountedFor, Covered
  <1> QED
    BY <1>2, <1>4, <1>5, <1>6 DEF IndInv

\* The end of the process: what was in memory is counted as missed.
LEMMA ExitStep ==
  ASSUME IndInv, Exit
  PROVE  IndInv'
  <1>1. /\ phase' = "off" /\ config' = <<>> /\ open' = FALSE /\ writer' = Nil /\ net' = "none"
        /\ shutdown' = 0 /\ completed' = 0 /\ quitDone' = 0
        /\ quit' = [q \in Quitters |-> "idle"] /\ backup' = FALSE
        /\ pc' = [r \in Requests |-> "idle"] /\ buckets' = buckets /\ posts' = posts
    BY DEF Exit, storage
  <1>2. posts \in 0 .. MaxPosts
    BY DEF IndInv, RestOK
  <1>3. /\ KeywordsOK' /\ dir' = dir
        /\ phase = "fill" => 1 .. posts \subseteq Covered'
        /\ 1 .. posts \subseteq Covered => 1 .. posts \subseteq Covered'
    <2> DEFINE filling == phase = "fill"
    <2>1. filling \in BOOLEAN /\ Forget(posts, filling)
      BY DEF Exit
    <2> HIDE DEF filling
    <2>2. /\ KeywordsOK' /\ dir' = dir
          /\ filling => 1 .. posts \subseteq Covered'
          /\ 1 .. posts \subseteq Covered => 1 .. posts \subseteq Covered'
      BY <1>2, <2>1, ForgetCovers DEF IndInv
    <2> QED
      BY <2>2 DEF filling
  <1>4. Busy' = {} /\ Holders' = {}
    BY <1>1 DEF Busy, Holders, Quitters
  <1>5. RestOK'
    <2>1. quit' \in [Quitters -> {"idle", "shutdown", "completed", "close", "locked", "tell", "over"}]
      BY <1>1
    <2>2. pc' \in [Requests -> {"idle", "begin", "send", "commit"}]
      BY <1>1
    <2>3. open' \in BOOLEAN /\ backup' \in BOOLEAN /\ writer' \in Requests \cup Quitters \cup {Nil}
      BY <1>1, Zenon
    <2>4. shutdown' = 0 /\ completed' = 0 /\ quitDone' = 0
      BY <1>1
    <2>5. shutdown' \in 0 .. 1 /\ completed' \in 0 .. 1 /\ quitDone' \in 0 .. 1
      BY <2>4
    <2>6. phase' = "off" /\ net' = "none" /\ posts' \in 0 .. MaxPosts
      BY <1>1, <1>2
    <2> QED
      BY <2>1, <2>2, <2>3, <2>5, <2>6 DEF RestOK
  <1>6. PhaseInv' /\ AnswerInv'
    BY <1>1, <1>4 DEF PhaseInv, AnswerInv, Quitters
  <1>7. WriterInv'
    BY <1>1, LifecycleAssumption DEF WriterInv
  <1>8. RoomInv'
    BY <1>1, <1>2, <1>4, FS_EmptySet, LifecycleAssumption DEF RoomInv
  <1>9. ConfigInv' /\ SentInv'
    BY <1>1 DEF ConfigInv, SentInv
  <1>10. EveryPostAccountedFor'
    BY <1>1, <1>3 DEF IndInv, EveryPostAccountedFor, Covered
  <1> QED
    BY <1>3, <1>5, <1>6, <1>7, <1>8, <1>9, <1>10 DEF IndInv

\* Where only main moves on, and the index keeps what is covered, the handlers,
\* the callers of OnQuit and the lock stay as they are.
LEMMA MainMoves ==
  ASSUME IndInv, phase # "serving" \/ phase' = "serving",
         phase' \in {"off", "config", "database", "keyword", "fill", "watch", "serving"},
         phase # phase' => net = "none",
         open' \in BOOLEAN, open => open', phase' \in {"keyword", "fill", "watch", "serving"} => open' \/ net = "closed",
         phase' \notin {"watch", "serving"} => phase \notin {"watch", "serving"},
         UNCHANGED <<posts, writer, net, channels, quit, backup, pc>>
  PROVE  RestOK' /\ PhaseInv' /\ WriterInv' /\ AnswerInv' /\ RoomInv'
  <1>1. UNCHANGED <<posts, writer, net, shutdown, completed, quitDone, quit, backup, pc>>
    BY DEF channels
  <1>2. Busy' = Busy /\ Holders' = Holders
    BY <1>1 DEF Busy, Holders
  <1>3. RestOK' /\ RoomInv'
    BY <1>1, <1>2 DEF IndInv, RestOK, RoomInv
  <1>4. PhaseInv'
    BY <1>1 DEF IndInv, PhaseInv, RestOK
  <1>5. WriterInv' /\ AnswerInv'
    BY <1>1, <1>2 DEF IndInv, WriterInv, AnswerInv, RestOK
  <1> QED
    BY <1>3, <1>4, <1>5

\* main starts, and accepts its configuration.
LEMMA StartStep ==
  ASSUME IndInv, Start \/ Load
  PROVE  IndInv'
  <1>1. /\ phase \in {"off", "config"} /\ phase' \in {"config", "database"}
        /\ UNCHANGED <<posts, open, buckets, writer, net, channels, quit, backup, pc, dir, indexed, missed, chans, loops>>
        /\ repopulate' \in BOOLEAN
    BY DEF Start, Load, storage, keywords, files, memory, IndInv, KeywordsOK
  <1>2. net = "none"
    BY <1>1 DEF IndInv, PhaseInv
  <1>3. open' \in BOOLEAN
    BY <1>1 DEF IndInv, RestOK
  <1>4. RestOK' /\ PhaseInv' /\ WriterInv' /\ AnswerInv' /\ RoomInv'
    BY <1>1, <1>2, <1>3, MainMoves
  <1>5. KeywordsOK' /\ Underway' = Underway
    BY <1>1 DEF IndInv, KeywordsOK, FilesOK, ChansOK, LoopsOK, Underway
  <1>6. ConfigInv'
    <2>1. CASE Start
      BY <2>1 DEF Start, ConfigInv
    <2>2. CASE Load
      BY <2>2, LifecycleAssumption DEF Load, ConfigInv
    <2> QED
      BY <2>1, <2>2
  <1>7. SentInv' /\ EveryPostAccountedFor'
    BY <1>1, <1>5 DEF IndInv, SentInv, EveryPostAccountedFor, Covered
  <1> QED
    BY <1>4, <1>5, <1>6, <1>7 DEF IndInv

\* The database opened, with a bucket for each subforum of this configuration.
LEMMA InitDatabaseStep ==
  ASSUME IndInv, InitDatabase
  PROVE  IndInv'
  <1>1. /\ phase = "database" /\ phase' = "keyword" /\ open' = TRUE
        /\ buckets' = buckets \cup RangeOf(GetAllSubforumIDs(config))
        /\ UNCHANGED <<config, posts, writer, net, channels, quit, backup, pc, keywords>>
    BY DEF InitDatabase
  <1>2. net = "none"
    BY <1>1 DEF IndInv, PhaseInv
  <1>3. open' \in BOOLEAN
    BY <1>1, Zenon
  <1>4. RestOK' /\ PhaseInv' /\ WriterInv' /\ AnswerInv' /\ RoomInv'
    BY <1>1, <1>2, <1>3, MainMoves
  <1>5. KeywordsOK' /\ dir' = dir /\ Covered' = Covered
    BY <1>1, KeywordsStay DEF IndInv
  <1>6. ConfigInv'
    BY <1>1 DEF IndInv, ConfigInv
  <1>7. SentInv' /\ EveryPostAccountedFor'
    BY <1>1, <1>5 DEF IndInv, SentInv, EveryPostAccountedFor, Covered
  <1> QED
    BY <1>4, <1>5, <1>6, <1>7 DEF IndInv

\* initKeyword in its three ways: an index begun anew is being filled then, and one
\* that is opened has what it had.
LEMMA InitKeywordStep ==
  ASSUME IndInv, InitKeyword
  PROVE  IndInv'
  <1>1. /\ phase = "keyword" /\ phase' \in {"keyword", "fill", "watch"}
        /\ UNCHANGED <<config, buckets, posts, open, writer, net, channels, quit, backup, pc>>
    BY DEF InitKeyword, GoesOn, storage
  <1>2. net = "none" /\ open
    BY <1>1 DEF IndInv, PhaseInv
  <1>3. open' \in BOOLEAN
    BY <1>1 DEF IndInv, RestOK
  <1>4. RestOK' /\ PhaseInv' /\ WriterInv' /\ AnswerInv' /\ RoomInv'
    BY <1>1, <1>2, <1>3, MainMoves
  <1>5. ConfigInv'
    BY <1>1 DEF IndInv, ConfigInv
  <1>6. SentInv'
    BY <1>1, <1>2 DEF IndInv, PhaseInv, SentInv
  <1>7. KeywordsOK' /\ EveryPostAccountedFor'
    <2>1. KeywordsOK
      BY DEF IndInv
    <2>2. CASE NewIndex /\ phase' = "fill"
      BY <2>1, <2>2, InitKeywordCovers DEF EveryPostAccountedFor
    <2>3. CASE OpenIndex /\ phase' = "watch"
      <3>1. KeywordsOK' /\ dir' = dir /\ Covered' = Covered
        BY <2>1, <2>3, InitKeywordCovers
      <3> QED
        BY <1>1, <3>1 DEF IndInv, EveryPostAccountedFor, Covered
    <2>4. CASE Recurse
      BY <2>1, <2>4, InitKeywordCovers DEF EveryPostAccountedFor
    <2> QED
      BY <2>2, <2>3, <2>4 DEF InitKeyword
  <1> QED
    BY <1>4, <1>5, <1>6, <1>7 DEF IndInv

\* The filling, which ends with every post indexed or missed.
LEMMA FillStep ==
  ASSUME IndInv, Fill
  PROVE  IndInv'
  <1>1. /\ phase = "fill" /\ phase' \in {"fill", "watch"}
        /\ UNCHANGED <<config, buckets, posts, open, writer, net, channels, quit, backup, pc>>
    BY DEF Fill, GoesOn, storage
  <1>2. net = "none" /\ open
    BY <1>1 DEF IndInv, PhaseInv
  <1>3. open' \in BOOLEAN /\ posts \in 0 .. MaxPosts
    BY <1>1 DEF IndInv, RestOK
  <1>4. RestOK' /\ PhaseInv' /\ WriterInv' /\ AnswerInv' /\ RoomInv'
    BY <1>1, <1>2, <1>3, MainMoves
  <1>5. ConfigInv'
    BY <1>1 DEF IndInv, ConfigInv
  <1>6. SentInv'
    BY <1>1, <1>2 DEF IndInv, PhaseInv, SentInv
  <1>7. KeywordsOK' /\ EveryPostAccountedFor'
    <2>1. KeywordsOK
      BY DEF IndInv
    <2>2. CASE FillNext(posts) /\ phase' = phase
      BY <1>1, <1>3, <2>1, <2>2, FillCovers DEF EveryPostAccountedFor
    <2>3. CASE FillEnds(posts)
      <3>1. KeywordsOK' /\ Covered' = Covered /\ 1 .. posts \subseteq indexed \cup missed
        BY <2>1, <2>3, KeywordsStay DEF FillEnds
      <3>2. 1 .. posts' \subseteq Covered'
        BY <1>1, <3>1 DEF Covered
      <3> QED
        BY <3>1, <3>2 DEF EveryPostAccountedFor, Covered
    <2> QED
      BY <2>2, <2>3 DEF Fill
  <1> QED
    BY <1>4, <1>5, <1>6, <1>7 DEF IndInv

\* The server started.
LEMMA StartServerStep ==
  ASSUME IndInv, StartServer
  PROVE  IndInv'
  <1>1. /\ phase = "watch" /\ phase' = "serving"
        /\ UNCHANGED <<config, buckets, posts, open, writer, net, channels, quit, backup, pc, keywords>>
    BY DEF StartServer, GoesOn, storage
  <1>2. net = "none" /\ open
    BY <1>1 DEF IndInv, PhaseInv
  <1>3. open' \in BOOLEAN
    BY <1>1 DEF IndInv, RestOK
  <1>4. RestOK' /\ PhaseInv' /\ WriterInv' /\ AnswerInv' /\ RoomInv'
    BY <1>1, <1>2, <1>3, MainMoves
  <1>5. KeywordsOK' /\ dir' = dir /\ Covered' = Covered
    BY <1>1, KeywordsStay DEF IndInv
  <1>6. ConfigInv'
    BY <1>1 DEF IndInv, ConfigInv
  <1>7. SentInv' /\ EveryPostAccountedFor'
    BY <1>1, <1>5 DEF IndInv, SentInv, EveryPostAccountedFor, Covered
  <1> QED
    BY <1>4, <1>5, <1>6, <1>7 DEF IndInv

\* Where the posts, the files and the index stay, no handler comes to its commit and
\* main does not move, only the types, the phases, the lock and the answer matter.
LEMMA OnlyControl ==
  ASSUME IndInv, UNCHANGED <<phase, config, buckets, posts, keywords>>,
         \A r \in Requests : pc'[r] = "commit" => pc[r] = "commit",
         RestOK', PhaseInv', WriterInv', AnswerInv', RoomInv'
  PROVE  IndInv'
  <1>1. KeywordsOK' /\ dir' = dir /\ Covered' = Covered
    BY KeywordsStay DEF IndInv
  <1>2. ConfigInv'
    BY DEF IndInv, ConfigInv
  <1>3. SentInv' /\ EveryPostAccountedFor'
    BY <1>1 DEF IndInv, SentInv, EveryPostAccountedFor, Covered
  <1> QED
    BY <1>1, <1>2, <1>3 DEF IndInv

\* The listener opened and, on a message in shutdown, closed: it is then that the one
\* answer is sent.
LEMMA RunStep ==
  ASSUME IndInv, Listen \/ CloseListener
  PROVE  IndInv'
  <1>1. UNCHANGED <<phase, config, buckets, posts, open, writer, quitDone, quit, backup, pc, keywords>>
    BY DEF Listen, CloseListener, storage, channels
  <1>2. \/ phase = "serving" /\ net = "none" /\ net' = "listening" /\ shutdown' = shutdown /\ completed' = completed
        \/ net = "listening" /\ net' = "closed" /\ shutdown' = 0 /\ completed' = 1
    BY DEF Listen, CloseListener, channels
  <1>3. Busy' = Busy /\ Holders' = Holders
    BY <1>1 DEF Busy, Holders
  <1>4. RoomInv' /\ WriterInv'
    BY <1>1, <1>3 DEF IndInv, RoomInv, WriterInv
  <1>5. RestOK'
    <2>1. net' \in {"none", "listening", "closed"}
      BY <1>2
    <2>2. shutdown' \in 0 .. 1 /\ completed' \in 0 .. 1
      BY <1>2 DEF IndInv, RestOK
    <2> QED
      BY <1>1, <2>1, <2>2 DEF IndInv, RestOK
  <1>6. PhaseInv'
    BY <1>1, <1>2 DEF IndInv, PhaseInv
  <1>7. AnswerInv'
    <2>1. net = "listening" => open
      BY DEF IndInv, PhaseInv
    <2> QED
      BY <1>1, <1>2, <1>3, <2>1 DEF IndInv, AnswerInv
  <1> QED
    BY <1>1, <1>4, <1>5, <1>6, <1>7, OnlyControl

\* The label of one caller of OnQuit changed.
LEMMA QuitMoves ==
  ASSUME IndInv, NEW q \in Quitters,
         NEW label \in {"idle", "shutdown", "completed", "close", "locked", "tell", "over"}, At(q, label)
  PROVE  /\ quit' \in [Quitters -> {"idle", "shutdown", "completed", "close", "locked", "tell", "over"}]
         /\ quit'[q] = label /\ \A p \in Quitters \ {q} : quit'[p] = quit[p]
         /\ label \in {"close", "locked"} => Holders' = Holders \cup {q}
         /\ label \notin {"close", "locked"} => Holders' = Holders \ {q}
  <1>1. quit \in [Quitters -> {"idle", "shutdown", "completed", "close", "locked", "tell", "over"}]
    BY DEF IndInv, RestOK
  <1>2. /\ quit' \in [Quitters -> {"idle", "shutdown", "completed", "close", "locked", "tell", "over"}]
        /\ quit'[q] = label /\ \A p \in Quitters \ {q} : quit'[p] = quit[p]
    BY <1>1 DEF At
  <1>3. /\ label \in {"close", "locked"} => Holders' = Holders \cup {q}
        /\ label \notin {"close", "locked"} => Holders' = Holders \ {q}
    BY <1>2 DEF Holders
  <1> QED
    BY <1>2, <1>3

\* A caller asks and has its message taken; neither gives it the database.
LEMMA AskStep ==
  ASSUME IndInv, NEW q \in Quitters, AskToQuit(q) \/ SendShutdown(q)
  PROVE  IndInv'
  <1>1. UNCHANGED <<phase, config, buckets, posts, open, writer, net, completed, quitDone, backup, pc, keywords>>
    BY DEF AskToQuit, SendShutdown, storage, channels
  <1>2. PICK label \in {"shutdown", "completed"} : At(q, label)
    BY DEF AskToQuit, SendShutdown
  <1>3. /\ quit' \in [Quitters -> {"idle", "shutdown", "completed", "close", "locked", "tell", "over"}]
        /\ quit'[q] = label /\ \A p \in Quitters \ {q} : quit'[p] = quit[p] /\ Holders' = Holders \ {q}
    BY <1>2, QuitMoves
  <1>4. quit[q] \in {"idle", "shutdown"} /\ shutdown' \in 0 .. 1 /\ phase = "serving"
    BY DEF AskToQuit, SendShutdown, channels, IndInv, RestOK, PhaseInv
  <1>5. Holders' = Holders /\ Busy' = Busy
    BY <1>1, <1>2, <1>4, QuitMoves DEF Holders, Busy
  <1>6. RoomInv' /\ RestOK'
    BY <1>1, <1>3, <1>4, <1>5 DEF IndInv, RoomInv, RestOK
  <1>7. PhaseInv'
    BY <1>1, <1>4 DEF IndInv, PhaseInv
  <1>8. WriterInv' /\ AnswerInv'
    <2>1. \A p \in Quitters : quit'[p] = "locked" <=> quit[p] = "locked"
      BY <1>3, <1>4
    <2> QED
      BY <1>1, <1>5, <2>1 DEF IndInv, WriterInv, AnswerInv
  <1> QED
    BY <1>1, <1>6, <1>7, <1>8, OnlyControl

\* The caller that takes the listener's answer is the one that will close the database.
LEMMA ReceiveCompletedStep ==
  ASSUME IndInv, NEW q \in Quitters, ReceiveCompleted(q)
  PROVE  IndInv'
  <1>1. /\ UNCHANGED <<phase, config, buckets, posts, open, writer, net, shutdown, quitDone, backup, pc, keywords>>
        /\ quit[q] = "completed" /\ completed = 1 /\ completed' = 0
    BY DEF ReceiveCompleted, storage
  <1>2. /\ quit' \in [Quitters -> {"idle", "shutdown", "completed", "close", "locked", "tell", "over"}]
        /\ quit'[q] = "close" /\ \A p \in Quitters \ {q} : quit'[p] = quit[p]
    BY QuitMoves DEF ReceiveCompleted
  <1>3. Holders' = Holders \cup {q}
    BY QuitMoves DEF ReceiveCompleted
  <1>4. Busy' = Busy
    BY <1>1 DEF Busy
  <1>5. RoomInv'
    BY <1>1, <1>4 DEF IndInv, RoomInv
  <1>6. RestOK'
    <2>1. completed' \in 0 .. 1
      BY <1>1
    <2> QED
      BY <1>1, <1>2, <2>1 DEF IndInv, RestOK
  <1>7. PhaseInv'
    <2>1. phase = "serving"
      BY <1>1 DEF IndInv, PhaseInv
    <2> QED
      BY <1>1, <2>1 DEF IndInv, PhaseInv
  <1>8. WriterInv'
    BY <1>1, <1>2 DEF IndInv, WriterInv
  <1>9. AnswerInv'
    <2>1. Holders = {} /\ open /\ net = "closed"
      BY <1>1 DEF IndInv, AnswerInv
    <2> QED
      BY <1>1, <1>3, <2>1 DEF AnswerInv
  <1> QED
    BY <1>1, <1>5, <1>6, <1>7, <1>8, <1>9, OnlyControl

\* db.Close takes the lock that nobody has.
LEMMA LockDatabaseStep ==
  ASSUME IndInv, NEW q \in Quitters, LockDatabase(q)
  PROVE  IndInv'
  <1>1. /\ UNCHANGED <<phase, config, buckets, posts, open, net, shutdown, completed, quitDone, backup, pc, keywords>>
        /\ quit[q] = "close" /\ writer = Nil /\ writer' = q
    BY DEF LockDatabase, storage, channels
  <1>2. /\ quit' \in [Quitters -> {"idle", "shutdown", "completed", "close", "locked", "tell", "over"}]
        /\ quit'[q] = "locked" /\ \A p \in Quitters \ {q} : quit'[p] = quit[p]
        /\ Holders' = Holders \cup {q}
    BY QuitMoves DEF LockDatabase
  <1>3. Holders' = Holders /\ Busy' = Busy /\ q \in Holders
    BY <1>1, <1>2 DEF Holders, Busy
  <1>4. RoomInv'
    BY <1>1, <1>3 DEF IndInv, RoomInv
  <1>5. RestOK'
    <2>1. writer' \in Requests \cup Quitters \cup {Nil}
      BY <1>1
    <2> QED
      BY <1>1, <1>2, <2>1 DEF IndInv, RestOK
  <1>6. PhaseInv'
    <2>1. phase = "serving"
      BY <1>1 DEF IndInv, PhaseInv
    <2> QED
      BY <1>1, <2>1 DEF IndInv, PhaseInv
  <1>7. AnswerInv'
    BY <1>1, <1>3 DEF IndInv, AnswerInv
  <1>8. WriterInv'
    <2>1. \A r \in Requests : pc'[r] \in {"send", "commit"} <=> writer' = r
      <3>1. \A r \in Requests : r # q /\ r # Nil
        BY LifecycleAssumption
      <3> QED
        BY <1>1, <3>1 DEF IndInv, WriterInv
    <2>2. \A p \in Quitters : quit'[p] = "locked" <=> writer' = p
      <3>1. \A p \in Quitters : p # Nil
        BY LifecycleAssumption
      <3> QED
        BY <1>1, <1>2, <3>1 DEF IndInv, WriterInv
    <2> QED
      BY <1>1, <2>1, <2>2 DEF IndInv, WriterInv
  <1> QED
    BY <1>1, <1>4, <1>5, <1>6, <1>7, <1>8, OnlyControl

\* The handle goes with nobody's transaction open: the lock keeps the writers out, and
\* the closing waits for the backup.
LEMMA CloseDatabaseStep ==
  ASSUME IndInv, NEW q \in Quitters, CloseDatabase(q)
  PROVE  IndInv'
  <1>1. /\ UNCHANGED <<phase, config, buckets, posts, net, shutdown, completed, quitDone, backup, pc, keywords>>
        /\ quit[q] = "locked" /\ ~backup /\ open' = FALSE /\ writer' = Nil
    BY DEF CloseDatabase, storage, channels
  <1>2. /\ quit' \in [Quitters -> {"idle", "shutdown", "completed", "close", "locked", "tell", "over"}]
        /\ quit'[q] = "tell" /\ \A p \in Quitters \ {q} : quit'[p] = quit[p]
        /\ Holders' = Holders \ {q}
    BY QuitMoves DEF CloseDatabase
  <1>3. writer = q /\ q \in Holders /\ Busy' = Busy
    BY <1>1 DEF IndInv, WriterInv, Holders, Busy
  <1>4. Holders' = {} /\ net = "closed" /\ completed # 1
    BY <1>2, <1>3 DEF IndInv, AnswerInv
  <1>5. RoomInv'
    BY <1>1, <1>3 DEF IndInv, RoomInv
  <1>6. RestOK'
    <2>1. writer' \in Requests \cup Quitters \cup {Nil} /\ open' \in BOOLEAN
      BY <1>1, Zenon
    <2> QED
      BY <1>1, <1>2, <2>1 DEF IndInv, RestOK
  <1>7. PhaseInv'
    <2>1. phase = "serving"
      BY <1>4 DEF IndInv, PhaseInv
    <2> QED
      BY <1>1, <1>4, <2>1 DEF IndInv, PhaseInv
  <1>8. AnswerInv'
    BY <1>1, <1>4 DEF AnswerInv
  <1>9. WriterInv'
    <2>1. \A r \in Requests : r # q /\ r # Nil
      BY LifecycleAssumption
    <2>2. \A r \in Requests : pc'[r] \notin {"send", "commit"}
      BY <1>1, <1>3, <2>1 DEF IndInv, WriterInv
    <2>3. \A p \in Quitters : quit'[p] # "locked" /\ p # Nil
      BY <1>1, <1>2, <1>3, LifecycleAssumption DEF IndInv, WriterInv
    <2> QED
      BY <1>1, <2>1, <2>2, <2>3 DEF WriterInv
  <1> QED
    BY <1>1, <1>5, <1>6, <1>7, <1>8, <1>9, OnlyControl

\* main is told; the console's caller may ask again.
LEMMA SendQuitDoneStep ==
  ASSUME IndInv, NEW q \in Quitters, SendQuitDone(q)
  PROVE  IndInv'
  <1>1. /\ UNCHANGED <<phase, config, buckets, posts, open, writer, net, shutdown, completed, backup, pc, keywords>>
        /\ quit[q] = "tell" /\ quitDone' = 1
    BY DEF SendQuitDone, storage
  <1>2. PICK label \in {"idle", "over"} : At(q, label)
    BY DEF SendQuitDone
  <1>3. /\ quit' \in [Quitters -> {"idle", "shutdown", "completed", "close", "locked", "tell", "over"}]
        /\ quit'[q] = label /\ \A p \in Quitters \ {q} : quit'[p] = quit[p]
        /\ Holders' = Holders \ {q}
    BY <1>2, QuitMoves
  <1>4. Holders' = Holders /\ Busy' = Busy
    BY <1>1, <1>3 DEF Holders, Busy
  <1>5. RoomInv'
    BY <1>1, <1>4 DEF IndInv, RoomInv
  <1>6. RestOK'
    <2>1. quitDone' \in 0 .. 1
      BY <1>1
    <2> QED
      BY <1>1, <1>3, <2>1 DEF IndInv, RestOK
  <1>7. PhaseInv'
    <2>1. phase = "serving"
      BY <1>1 DEF IndInv, PhaseInv
    <2> QED
      BY <1>1, <2>1 DEF IndInv, PhaseInv
  <1>8. WriterInv' /\ AnswerInv'
    <2>1. \A p \in Quitters : quit'[p] = "locked" <=> quit[p] = "locked"
      BY <1>1, <1>3
    <2> QED
      BY <1>1, <1>4, <2>1 DEF IndInv, WriterInv, AnswerInv
  <1> QED
    BY <1>1, <1>5, <1>6, <1>7, <1>8, OnlyControl

\* The backup reads while nobody closes, and ends.
LEMMA BackupStep ==
  ASSUME IndInv, BackupBegins \/ BackupRead
  PROVE  IndInv'
  <1>1. UNCHANGED <<phase, config, buckets, posts, open, writer, net, shutdown, completed, quitDone, quit, pc, keywords>>
    BY DEF BackupBegins, BackupRead, Backup, storage, channels
  <1>2. backup' = FALSE \/ (backup' = TRUE /\ open /\ phase \in {"watch", "serving"})
    BY DEF BackupBegins, BackupRead, Backup, MayBegin
  <1>3. Busy' = Busy /\ Holders' = Holders
    BY <1>1 DEF Busy, Holders
  <1>4. RoomInv' /\ AnswerInv'
    BY <1>1, <1>3 DEF IndInv, RoomInv, AnswerInv
  <1>5. RestOK'
    <2>1. backup' \in BOOLEAN
      BY <1>2, Zenon
    <2> QED
      BY <1>1, <2>1 DEF IndInv, RestOK
  <1>6. PhaseInv'
    BY <1>1, <1>2 DEF IndInv, PhaseInv
  <1>7. WriterInv'
    BY <1>1, <1>2 DEF IndInv, WriterInv
  <1> QED
    BY <1>1, <1>4, <1>5, <1>6, <1>7, OnlyControl

\* The label of one handler changed.
LEMMA HandlerMoves ==
  ASSUME IndInv, NEW r \in Requests, NEW label \in {"idle", "begin", "send", "commit"}, ToLabel(r, label)
  PROVE  /\ pc' \in [Requests -> {"idle", "begin", "send", "commit"}]
         /\ pc'[r] = label /\ \A s \in Requests \ {r} : pc'[s] = pc[s]
         /\ label # "idle" => Busy' = Busy \cup {r}
         /\ label = "idle" => Busy' = Busy \ {r}
  <1>1. pc \in [Requests -> {"idle", "begin", "send", "commit"}]
    BY DEF IndInv, RestOK
  <1>2. /\ pc' \in [Requests -> {"idle", "begin", "send", "commit"}]
        /\ pc'[r] = label /\ \A s \in Requests \ {r} : pc'[s] = pc[s]
    BY <1>1 DEF ToLabel
  <1>3. /\ label # "idle" => Busy' = Busy \cup {r}
        /\ label = "idle" => Busy' = Busy \ {r}
    BY <1>2 DEF Busy
  <1> QED
    BY <1>2, <1>3

\* How many handlers are under way.
LEMMA BusyCount ==
  ASSUME NEW r \in Requests
  PROVE  /\ IsFiniteSet(Busy) /\ Cardinality(Busy) \in Nat
         /\ r \in Busy => Cardinality(Busy \ {r}) = Cardinality(Busy) - 1
         /\ r \in Busy => Cardinality(Busy) # 0
         /\ r \notin Busy => Cardinality(Busy \cup {r}) = Cardinality(Busy) + 1
  <1>1. IsFiniteSet(Busy)
    BY FS_Subset, LifecycleAssumption DEF Busy
  <1>2. Cardinality(Busy) \in Nat
    BY <1>1, FS_CardinalityType
  <1>3. r \in Busy => Cardinality(Busy \ {r}) = Cardinality(Busy) - 1
    BY <1>1, FS_RemoveElement
  <1>4. r \in Busy => Cardinality(Busy) # 0
    BY <1>1, FS_EmptySet
  <1>5. r \notin Busy => Cardinality(Busy \cup {r}) = Cardinality(Busy) + 1
    BY <1>1, FS_AddElement
  <1> QED
    BY <1>1, <1>2, <1>3, <1>4, <1>5

\* A request arrives.
LEMMA ArriveStep ==
  ASSUME IndInv, NEW r \in Requests, Arrive(r)
  PROVE  IndInv'
  <1>1. /\ UNCHANGED <<phase, config, buckets, posts, open, writer, net, shutdown, completed, quitDone, quit, backup, keywords>>
        /\ net = "listening" /\ pc[r] = "idle" /\ posts + Cardinality(Busy) < MaxPosts
    BY DEF Arrive, storage, channels, Busy
  <1>2. /\ pc' \in [Requests -> {"idle", "begin", "send", "commit"}]
        /\ pc'[r] = "begin" /\ \A s \in Requests \ {r} : pc'[s] = pc[s] /\ Busy' = Busy \cup {r}
    BY HandlerMoves DEF Arrive
  <1>3. Busy' = Busy \cup {r} /\ r \notin Busy /\ Holders' = Holders
    BY <1>1, HandlerMoves DEF Arrive, Busy, Holders
  <1>4. RoomInv'
    <2>1. posts \in Nat /\ MaxPosts \in Nat
      BY LifecycleAssumption DEF IndInv, RestOK
    <2> QED
      BY <1>1, <1>3, <2>1, BusyCount DEF RoomInv
  <1>5. RestOK'
    BY <1>1, <1>2 DEF IndInv, RestOK
  <1>6. PhaseInv' /\ AnswerInv'
    BY <1>1, <1>3 DEF IndInv, PhaseInv, AnswerInv
  <1>7. WriterInv'
    <2>1. \A s \in Requests : pc'[s] \in {"send", "commit"} <=> pc[s] \in {"send", "commit"}
      BY <1>1, <1>2
    <2> QED
      BY <1>1, <2>1 DEF IndInv, WriterInv
  <1> QED
    BY <1>1, <1>2, <1>4, <1>5, <1>6, <1>7, OnlyControl

\* A handler gets the lock, or an error where the database is closed.
LEMMA BeginStep ==
  ASSUME IndInv, NEW r \in Requests, Begin(r)
  PROVE  IndInv'
  <1>1. /\ UNCHANGED <<phase, config, buckets, posts, open, net, shutdown, completed, quitDone, quit, backup, keywords>>
        /\ pc[r] = "begin" /\ writer = Nil
    BY DEF Begin, storage, channels
  <1>2. /\ Holders' = Holders /\ r \in Busy /\ net # "none" /\ r # Nil /\ r \notin Quitters
    BY <1>1, LifecycleAssumption DEF Holders, Busy, IndInv, PhaseInv
  <1>3. AnswerInv'
    BY <1>1, <1>2 DEF IndInv, AnswerInv
  <1>4. PhaseInv'
    BY <1>1, <1>2 DEF IndInv, PhaseInv
  <1>5. posts \in Nat /\ MaxPosts \in Nat /\ posts + Cardinality(Busy) <= MaxPosts
    BY LifecycleAssumption DEF IndInv, RestOK, RoomInv
  <1>6. \A s \in Requests : pc[s] \notin {"send", "commit"} /\ s # Nil
    BY <1>1, LifecycleAssumption DEF IndInv, WriterInv
  <1>7. \A q \in Quitters : quit'[q] # "locked" /\ q # Nil
    BY <1>1, LifecycleAssumption DEF IndInv, WriterInv
  <1>8. backup' => open'
    BY <1>1 DEF IndInv, WriterInv
  <1>9. CASE open /\ writer' = r /\ ToLabel(r, "send")
    <2>1. /\ pc' \in [Requests -> {"idle", "begin", "send", "commit"}]
          /\ pc'[r] = "send" /\ \A s \in Requests \ {r} : pc'[s] = pc[s]
      BY <1>9, HandlerMoves
    <2>2. Busy' = Busy
      BY <1>2, <1>9, HandlerMoves
    <2>3. RoomInv'
      BY <1>1, <1>5, <2>2 DEF RoomInv
    <2>4. RestOK'
      <3>1. writer' \in Requests \cup Quitters \cup {Nil}
        BY <1>9
      <3> QED
        BY <1>1, <2>1, <3>1 DEF IndInv, RestOK
    <2>5. WriterInv'
      BY <1>1, <1>2, <1>6, <1>7, <1>8, <1>9, <2>1 DEF WriterInv
    <2> QED
      BY <1>1, <1>3, <1>4, <2>1, <2>3, <2>4, <2>5, OnlyControl
  <1>10. CASE ~open /\ writer' = writer /\ ToLabel(r, "idle")
    <2>1. /\ pc' \in [Requests -> {"idle", "begin", "send", "commit"}]
          /\ pc'[r] = "idle" /\ \A s \in Requests \ {r} : pc'[s] = pc[s]
      BY <1>10, HandlerMoves
    <2>2. Busy' = Busy \ {r}
      BY <1>10, HandlerMoves
    <2>3. RoomInv'
      BY <1>1, <1>2, <1>5, <2>2, BusyCount DEF RoomInv
    <2>4. RestOK'
      BY <1>1, <1>10, <2>1 DEF IndInv, RestOK
    <2>5. WriterInv'
      BY <1>1, <1>2, <1>6, <1>7, <1>8, <1>10, <2>1 DEF WriterInv
    <2> QED
      BY <1>1, <1>3, <1>4, <2>1, <2>3, <2>4, <2>5, OnlyControl
  <1> QED
    BY <1>9, <1>10 DEF Begin

\* The message of a post is sent before the post is committed.
LEMMA SendPostStep ==
  ASSUME IndInv, NEW r \in Requests, SendPost(r)
  PROVE  IndInv'
  <1>1. /\ UNCHANGED <<phase, config, buckets, posts, open, writer, net, shutdown, completed, quitDone, quit, backup>>
        /\ pc[r] = "send"
    BY DEF SendPost, storage, channels
  <1>2. /\ pc' \in [Requests -> {"idle", "begin", "send", "commit"}]
        /\ pc'[r] = "commit" /\ \A s \in Requests \ {r} : pc'[s] = pc[s]
    BY HandlerMoves DEF SendPost
  <1>3. r \in Busy /\ Busy' = Busy /\ Holders' = Holders
    <2>1. r \in Busy /\ Holders' = Holders
      BY <1>1 DEF Busy, Holders
    <2> QED
      BY <2>1, HandlerMoves DEF SendPost
  <1>4. posts + 1 \in Ids
    <2>1. posts \in Nat /\ MaxPosts \in Nat /\ posts + Cardinality(Busy) <= MaxPosts
      BY LifecycleAssumption DEF IndInv, RestOK, RoomInv
    <2>2. Cardinality(Busy) \in Nat /\ Cardinality(Busy) # 0
      BY <1>3, BusyCount
    <2> HIDE DEF Ids
    <2>3. posts + 1 <= MaxPosts
      BY <2>1, <2>2
    <2> QED
      BY <2>1, <2>3 DEF Ids
  <1>5. KeywordsOK' /\ dir' = dir /\ Covered' = Covered \cup {posts + 1}
    BY <1>4, SendCovers DEF SendPost, IndInv
  <1>6. RestOK' /\ RoomInv' /\ ConfigInv'
    BY <1>1, <1>2, <1>3 DEF IndInv, RestOK, RoomInv, ConfigInv
  <1>7. PhaseInv' /\ AnswerInv'
    <2>1. net # "none"
      BY <1>1 DEF IndInv, PhaseInv
    <2> QED
      BY <1>1, <1>3, <2>1 DEF IndInv, PhaseInv, AnswerInv
  <1>8. WriterInv'
    <2>1. \A s \in Requests : pc'[s] \in {"send", "commit"} <=> pc[s] \in {"send", "commit"}
      BY <1>1, <1>2
    <2> QED
      BY <1>1, <2>1 DEF IndInv, WriterInv
  <1>9. SentInv' /\ EveryPostAccountedFor'
    BY <1>1, <1>5 DEF IndInv, SentInv, EveryPostAccountedFor, Covered
  <1> QED
    BY <1>5, <1>6, <1>7, <1>8, <1>9 DEF IndInv

\* The commit of the one handler with the lock, or its error.
LEMMA CommitStep ==
  ASSUME IndInv, NEW r \in Requests, Commit(r)
  PROVE  IndInv'
  <1>1. /\ UNCHANGED <<phase, config, buckets, open, net, shutdown, completed, quitDone, quit, backup, keywords>>
        /\ pc[r] = "commit" /\ writer' = Nil /\ posts' \in {posts, posts + 1}
    BY DEF Commit, channels
  <1>2. /\ pc' \in [Requests -> {"idle", "begin", "send", "commit"}]
        /\ pc'[r] = "idle" /\ \A s \in Requests \ {r} : pc'[s] = pc[s]
    BY HandlerMoves DEF Commit
  <1>3. r \in Busy /\ Busy' = Busy \ {r} /\ Holders' = Holders
    <2>1. r \in Busy /\ Holders' = Holders
      BY <1>1 DEF Busy, Holders
    <2> QED
      BY <2>1, HandlerMoves DEF Commit
  <1>4. posts \in Nat /\ MaxPosts \in Nat /\ posts + Cardinality(Busy) <= MaxPosts
    BY LifecycleAssumption DEF IndInv, RestOK, RoomInv
  <1>5. RoomInv' /\ posts' \in 0 .. MaxPosts
    <2>1. posts' + Cardinality(Busy \ {r}) <= MaxPosts /\ posts' \in 0 .. MaxPosts
      BY <1>1, <1>3, <1>4, BusyCount
    <2> QED
      BY <1>3, <2>1 DEF RoomInv
  <1>6. KeywordsOK' /\ dir' = dir /\ Covered' = Covered
    BY <1>1, KeywordsStay DEF IndInv
  <1>7. writer = r /\ net # "none" /\ \A s \in Requests : s # Nil
    BY <1>1, LifecycleAssumption DEF IndInv, WriterInv, PhaseInv
  <1>8. \A s \in Requests : pc'[s] \notin {"send", "commit"}
    BY <1>2, <1>7 DEF IndInv, WriterInv
  <1>9. RestOK'
    <2>1. writer' \in Requests \cup Quitters \cup {Nil}
      BY <1>1
    <2> QED
      BY <1>1, <1>2, <1>5, <2>1 DEF IndInv, RestOK
  <1>10. PhaseInv' /\ AnswerInv' /\ ConfigInv'
    BY <1>1, <1>3, <1>7 DEF IndInv, PhaseInv, AnswerInv, ConfigInv
  <1>11. WriterInv'
    <2>1. \A q \in Quitters : q # Nil /\ q # r
      BY LifecycleAssumption
    <2>2. \A q \in Quitters : quit'[q] # "locked"
      BY <1>1, <1>7, <2>1 DEF IndInv, WriterInv
    <2> QED
      BY <1>1, <1>7, <1>8, <2>1, <2>2 DEF IndInv, WriterInv
  <1>12. SentInv'
    BY <1>8 DEF SentInv
  <1>13. EveryPostAccountedFor'
    <2>1. posts + 1 \in Covered
      BY <1>1 DEF IndInv, SentInv
    <2>2. 1 .. posts' \subseteq 1 .. posts \cup {posts + 1}
      BY <1>1, <1>4
    <2> QED
      BY <1>1, <1>6, <2>1, <2>2 DEF IndInv, EveryPostAccountedFor, Covered
  <1> QED
    BY <1>5, <1>6, <1>9, <1>10, <1>11, <1>12, <1>13 DEF IndInv

\* The loops, and the operator who removes the directory.
LEMMA IndexStep ==
  ASSUME IndInv, Operator \/ \E l \in 1 .. 2 : Loop(l)
  PROVE  IndInv'
  <1>1. UNCHANGED <<phase, config, buckets, posts, open, writer, net, shutdown, completed, quitDone, quit, backup, pc>>
    BY DEF Operator, Loop, rest, storage, channels
  <1>2. KeywordsOK' /\ (dir' = FALSE \/ (dir' = dir /\ Covered \subseteq Covered'))
    BY RemoveCovers, LoopCovers DEF Operator, Loop, IndInv
  <1>3. Busy' = Busy /\ Holders' = Holders
    BY <1>1 DEF Busy, Holders
  <1>4. RestOK' /\ RoomInv' /\ ConfigInv'
    BY <1>1, <1>3 DEF IndInv, RestOK, RoomInv, ConfigInv
  <1>5. PhaseInv' /\ WriterInv' /\ AnswerInv'
    BY <1>1, <1>3 DEF IndInv, PhaseInv, WriterInv, AnswerInv
  <1>6. SentInv'
    <2>1. CASE Operator
      BY <1>1, <2>1 DEF Operator, IndInv, PhaseInv, SentInv
    <2>2. CASE \E l \in 1 .. 2 : Loop(l)
      <3>1. Covered \subseteq Covered'
        BY <2>2, LoopCovers DEF Loop, IndInv
      <3> QED
        BY <1>1, <3>1 DEF IndInv, SentInv
    <2> QED
      BY <2>1, <2>2
  <1>7. EveryPostAccountedFor'
    BY <1>1, <1>2 DEF IndInv, EveryPostAccountedFor, Covered
  <1> QED
    BY <1>2, <1>4, <1>5, <1>6, <1>7 DEF IndInv
-----------------------------------------------------------------------------
(***************************************************************************)
(* The theorems.                                                           *)
(***************************************************************************)
\* Nothing runs, and nothing is stored, at first.
LEMMA InitIndInv == Init => IndInv
  <1> SUFFICES ASSUME Init PROVE IndInv
    OBVIOUS
  <1>1. KeywordsOK
    <2>1. chans = <<>> /\ loops = <<>> /\ dir = FALSE /\ indexed = {} /\ missed = {} /\ repopulate = FALSE
      BY DEF Init, KeywordsInit
    <2>2. chans \in Seq(Seq(Ids)) /\ loops \in Seq([chan: Nat, hand: Nat])
      BY <2>1
    <2>3. ChansOK /\ LoopsOK /\ Len(chans) = Len(loops)
      BY <2>1, <2>2 DEF ChansOK, LoopsOK
    <2> QED
      BY <2>1, <2>3 DEF KeywordsOK, FilesOK
  <1>2. /\ phase = "off" /\ posts = 0 /\ open = FALSE /\ writer = Nil /\ net = "none"
        /\ shutdown = 0 /\ completed = 0 /\ quitDone = 0
        /\ quit = [q \in Quitters |-> "idle"] /\ backup = FALSE /\ pc = [r \in Requests |-> "idle"] /\ dir = FALSE
    BY DEF Init, KeywordsInit
  <1>3. RestOK
    <2>1. quit \in [Quitters -> {"idle", "shutdown", "completed", "close", "locked", "tell", "over"}]
      BY <1>2
    <2>2. pc \in [Requests -> {"idle", "begin", "send", "commit"}]
      BY <1>2
    <2>3. open \in BOOLEAN /\ backup \in BOOLEAN /\ writer \in Requests \cup Quitters \cup {Nil}
      BY <1>2, Zenon
    <2>4. shutdown = 0 /\ completed = 0 /\ quitDone = 0 /\ posts = 0
      BY <1>2
    <2>5. shutdown \in 0 .. 1 /\ completed \in 0 .. 1 /\ quitDone \in 0 .. 1 /\ posts \in 0 .. MaxPosts
      BY <2>4, LifecycleAssumption
    <2> QED
      BY <1>2, <2>1, <2>2, <2>3, <2>5 DEF RestOK
  <1>4. Busy = {} /\ Holders = {}
    BY <1>2 DEF Busy, Holders
  <1>5. RoomInv
    BY <1>2, <1>4, FS_EmptySet, LifecycleAssumption DEF RoomInv
  <1>6. PhaseInv /\ AnswerInv /\ ConfigInv /\ SentInv /\ EveryPostAccountedFor
    BY <1>2, <1>4 DEF PhaseInv, AnswerInv, ConfigInv, SentInv, EveryPostAccountedFor
  <1>7. WriterInv
    BY <1>2, LifecycleAssumption DEF WriterInv
  <1> QED
    BY <1>1, <1>3, <1>5, <1>6, <1>7 DEF IndInv

\* Every step keeps the invariant.
LEMMA NextIndInv == IndInv /\ [Next]_vars => IndInv'
  <1> SUFFICES ASSUME IndInv, [Next]_vars PROVE IndInv'
    OBVIOUS
  <1>1. CASE UNCHANGED vars
    BY <1>1, StutterStep
  <1>2. CASE Start
    BY <1>2, StartStep
  <1>3. CASE Main
    BY <1>3, StartStep, InitDatabaseStep, InitKeywordStep, FillStep, StartServerStep, ExitStep DEF Main, WaitForQuit
  <1>4. CASE Fails
    BY <1>4, ExitStep
    DEF Fails, LoadFails, InitDatabaseFails, InitKeywordFails, ListenFails, QuitTooEarly, Crash, ProcessEnds
  <1>5. CASE Run
    BY <1>5, RunStep DEF Run
  <1>6. CASE Operator \/ \E l \in 1 .. 2 : Loop(l)
    BY <1>6, IndexStep
  <1>7. CASE BackupBegins \/ BackupRead
    BY <1>7, BackupStep
  <1>8. CASE \E q \in Quitters : AskToQuit(q) \/ OnQuit(q)
    BY <1>8, AskStep, ReceiveCompletedStep, LockDatabaseStep, CloseDatabaseStep, SendQuitDoneStep DEF OnQuit
  <1>9. CASE \E r \in Requests : Arrive(r) \/ Handle(r)
    BY <1>9, ArriveStep, BeginStep, SendPostStep, CommitStep DEF Handle
  <1> QED
    BY <1>1, <1>2, <1>3, <1>4, <1>5, <1>6, <1>7, <1>8, <1>9 DEF Next

\* The invariant holds in every state.
LEMMA Invariant == Spec => []IndInv
  BY InitIndInv, NextIndInv, PTL DEF Spec

\* Every variable of the process, its files and its channels has its type.
THEOREM TypeCorrect == Spec => []TypeOK
  <1>1. IndInv => TypeOK
    BY KeywordsTyped DEF IndInv, RestOK, TypeOK
  <1> QED
    BY <1>1, Invariant, PTL

\* Whatever configurations the database was used with before, a link of the home page
\* leads to the subforum it names if that one's ID needs no escaping, and however the
\* path arrives, to none that has no bucket.
THEOREM Links == Spec => []LinksLeadHome
  <1>1. ASSUME IndInv, net = "listening", NEW k \in DOMAIN AllSubforums(config)
        PROVE  LET id == AllSubforums(config)[k].id
                   link == RootLinks(config)[k]
                   shown == SubforumIndexHandler(config, link.path)
               IN
               /\ PathParts(id) = <<"f", id>> => shown = [status |-> "subforum", id |-> id, name |-> link.name]
               /\ shown.status = "subforum" => shown.id \in buckets
    <2> DEFINE id == AllSubforums(config)[k].id
               parts == PathParts(id)
               shown == SubforumIndexHandler(config, parts)
    <2>0. RootLinks(config)[k].path = parts
      BY DEF RootLinks
    <2>1. phase = "serving"
      BY <1>1 DEF IndInv, PhaseInv
    <2>2. config \in Seq(Forum) /\ LoadConfig(config) /\ RangeOf(GetAllSubforumIDs(config)) \subseteq buckets
      BY <1>1, <2>1 DEF IndInv, ConfigInv
    <2>3. SubforumExists(config, id) /\ SubforumName(config, id) = RootLinks(config)[k].name
      BY <2>2, LinksFindTheirEntry
    <2>4. ASSUME parts = <<"f", id>>
          PROVE  shown = [status |-> "subforum", id |-> id, name |-> RootLinks(config)[k].name]
      <3>1. Len(parts) = 2 /\ parts[2] = id
        BY <2>4
      <3> QED
        BY <2>3, <3>1 DEF SubforumIndexHandler
    <2>5. ASSUME shown.status = "subforum" PROVE shown.id \in buckets
      <3>1. Len(parts) \in 1 .. 2 /\ Len(parts) # 1 /\ SubforumExists(config, parts[2])
        BY <2>5 DEF SubforumIndexHandler
      <3>2. shown.id = parts[2]
        BY <3>1 DEF SubforumIndexHandler
      <3> QED
        BY <2>2, <3>1, <3>2, FoundIsListed
    <2> QED
      BY <2>0, <2>4, <2>5
  <1>2. IndInv => LinksLeadHome
    BY <1>1 DEF LinksLeadHome
  <1> QED
    BY <1>2, Invariant, PTL

\* With any number of handlers and any capacity of the channel, a post that the index
\* does not have is on its way to it or counted as missed.
THEOREM Accounted == Spec => []EveryPostAccountedFor
  <1>1. IndInv => EveryPostAccountedFor
    BY DEF IndInv
  <1> QED
    BY <1>1, Invariant, PTL

\* When the handle is gone no transaction is open, whichever caller of OnQuit closed it.
THEOREM Quiet == Spec => []ClosedIsQuiet
  <1>1. ASSUME IndInv, ~open PROVE writer = Nil /\ ~backup /\ \A r \in Requests : pc[r] \in {"idle", "begin"}
    <2>1. ~backup /\ \A r \in Requests : pc[r] \notin {"send", "commit"}
      BY <1>1 DEF IndInv, WriterInv
    <2>2. \A r \in Requests : pc[r] \in {"idle", "begin"} /\ writer # r
      BY <1>1, <2>1 DEF IndInv, RestOK, WriterInv
    <2>3. \A q \in Quitters : writer # q
      BY <1>1 DEF IndInv, WriterInv, AnswerInv, Holders
    <2> QED
      BY <1>1, <2>1, <2>2, <2>3 DEF IndInv, RestOK
  <1>2. IndInv => ClosedIsQuiet
    BY <1>1 DEF ClosedIsQuiet
  <1> QED
    BY <1>2, Invariant, PTL
=============================================================================
