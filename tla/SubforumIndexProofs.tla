------------------------- MODULE SubforumIndexProofs -------------------------
(***************************************************************************)
(* For any number of readers, any file and any number of transactions: a   *)
(* reader's snapshot is kept while its transaction is open, and what it    *)
(* holds of it afterwards is good until a second write transaction writes  *)
(* to its pages.  For any threads: the list it shows has each of them, and *)
(* in its place if they are no more than are sorted by insertion.          *)
(***************************************************************************)
EXTENDS SubforumIndex, FiniteSetTheorems, WellFoundedInduction, TLAPS

PendingPages == {d.page : d \in pending}

\* What a page may hold.
Content == {s \in Seq(Nat) : Len(s) <= MaxThreads} \cup {Nil}

\* The types of the variables.
TypesOK ==
  /\ page \in [1 .. Pages -> Content]
  /\ meta \in [tx : 1 .. MaxTx, threads : 1 .. Pages, rest : 1 .. Pages]
  /\ free \subseteq 1 .. Pages
  /\ pending \subseteq [page : 1 .. Pages, made : Nat, replaced : Nat]
  /\ made \in [1 .. Pages -> Nat] /\ high \in 2 .. Pages
  /\ map \in 1 .. 2 /\ update \in Phase /\ snap \in [Readers -> Nat \cup {Nil}]
  /\ pc \in [Readers -> {"idle", "view", "render"}] /\ since \in [Readers -> 0 .. 2]
  /\ seen \in [Readers -> [page : 0 .. Pages, map : 0 .. 2, table : Content \cup {<<>>}]]

\* A page is in use, or free, or pending, and pending once.
PagesApart ==
  /\ page[meta.threads] # Nil /\ meta.threads # meta.rest
  /\ {meta.threads, meta.rest} \cup free \cup PendingPages \subseteq 1 .. high
  /\ {meta.threads, meta.rest} \cap (free \cup PendingPages) = {}
  /\ free \cap PendingPages = {}
  /\ \A d, e \in pending : d.page = e.page => d = e

\* The numbers of transactions, and of memory maps.
NumbersOK ==
  /\ update \in {"open", "spilled", "written"} => meta.tx < MaxTx
  /\ \A p \in 1 .. Pages : made[p] <= meta.tx
  /\ \A r \in Readers : seen[r].map <= map
  /\ \A r \in Readers : IF pc[r] = "view" THEN snap[r] \in 1 .. meta.tx ELSE snap[r] = Nil

\* The page that r reads is in use since before it began, or pending, and cannot be
\* released, for r can see it.
Held(r) ==
  LET p == seen[r].page IN
  \/ p = meta.threads /\ made[p] <= snap[r]
  \/ \E d \in pending : d.page = p /\ d.made <= snap[r] /\ snap[r] < d.replaced

\* While r is at it, and no write transaction has written to pages, its page is the one
\* in use, and none is about to be.
Current(r) == pc[r] # "idle" /\ since[r] = 0 => seen[r].page = meta.threads /\ update # "written"

\* The dirty pages of a commit under way are neither in use nor pending: T are taken, r
\* for the other page, t for the threads, where they change.
DirtyOK ==
  LET T == dirty.taken
      r == dirty.rest
      t == dirty.threads
  IN
  update \in {"spilled", "written"} =>
    /\ dirty.table \in Content \ {Nil}
    /\ T \subseteq 1 .. Pages /\ r \in T /\ t \in 1 .. Pages /\ t # r
    /\ T \cap ({meta.threads, meta.rest} \cup PendingPages) = {}
    /\ IF dirty.table = Threads THEN t = meta.threads ELSE t \in T
    /\ \E p \in T : \A q \in T : q <= p
    /\ update = "written" => page[t] = dirty.table

IndInv ==
  /\ TypesOK /\ PagesApart /\ NumbersOK /\ DirtyOK
  /\ \A r \in Readers : pc[r] = "view" => Held(r)
  /\ \A r \in Readers : Current(r)
  /\ SnapshotIsKept /\ RowsAreThoseRead
-----------------------------------------------------------------------------
(***************************************************************************)
(* Numbers and finite sets.                                                *)
(***************************************************************************)
\* A set of naturals has a smallest one.
LEMMA Smallest ==
  ASSUME NEW S \in SUBSET Nat, S # {}
  PROVE  \E m \in S : \A k \in S : m <= k
  <1>1. PICK m \in S : \A k \in S : ~ (<<k, m>> \in OpToRel(<, Nat))
    BY NatLessThanWellFounded, WFMin
  <1>2. ASSUME NEW k \in S PROVE m <= k
    <2>1. ~ (<<k, m>> \in OpToRel(<, Nat))
      BY <1>1
    <2>2. OpToRel(<, Nat) = {x \in Nat \X Nat : x[1] < x[2]}
      BY DEF OpToRel
    <2>3. ~ (k < m)
      BY <2>1, <2>2
    <2> QED
      BY <2>3
  <1> QED
    BY <1>2

\* The times of a table are bounded: were they not, take the shortest part of it
\* where they are not.
LEMMA TimesBounded ==
  ASSUME NEW s \in Seq(Nat)
  PROVE  \E b \in Nat : \A i \in DOMAIN s : s[i] <= b
  <1> DEFINE Bounded(n) == \E b \in Nat : \A i \in 1 .. n : s[i] <= b
             Free == {n \in 0 .. Len(s) : ~ Bounded(n)}
  <1>1. Len(s) \in Nat /\ DOMAIN s = 1 .. Len(s) /\ \A i \in 1 .. Len(s) : s[i] \in Nat
    OBVIOUS
  <1>2. Free \subseteq Nat
    BY <1>1
  <1>3. Bounded(0)
    <2>1. \A i \in 1 .. 0 : s[i] <= 0
      OBVIOUS
    <2> QED
      BY <2>1
  <1>4. ASSUME NEW n \in 0 .. Len(s), n # 0, Bounded(n - 1) PROVE Bounded(n)
    <2>1. PICK b \in Nat : \A i \in 1 .. n - 1 : s[i] <= b
      BY <1>4
    <2>2. n \in 1 .. Len(s) /\ s[n] \in Nat
      BY <1>1, <1>4
    <2>3. CASE s[n] <= b
      <3>1. \A i \in 1 .. n : s[i] <= b
        BY <1>1, <2>1, <2>2, <2>3
      <3> QED
        BY <3>1
    <2>4. CASE ~ (s[n] <= b)
      <3>1. \A i \in 1 .. n : s[i] <= s[n]
        BY <1>1, <2>1, <2>2, <2>4
      <3> QED
        BY <2>2, <3>1
    <2> QED
      BY <2>3, <2>4
  <1> HIDE DEF Bounded
  <1>5. Free = {}
    <2>1. SUFFICES ASSUME Free # {} PROVE FALSE
      OBVIOUS
    <2>2. PICK m \in Free : \A k \in Free : m <= k
      BY <1>2, <2>1, Smallest
    <2>3. m # 0 /\ m \in 0 .. Len(s) /\ ~ Bounded(m)
      BY <1>3, <2>2
    <2>4. m - 1 \in 0 .. Len(s) /\ ~ (m - 1 \in Free)
      BY <1>1, <2>2, <2>3
    <2> QED
      BY <1>4, <2>3, <2>4
  <1>6. Bounded(Len(s))
    BY <1>1, <1>5
  <1> QED
    BY <1>1, <1>6 DEF Bounded

\* So there is a last one.
LEMMA LastTime ==
  ASSUME NEW s \in Seq(Nat)
  PROVE  Max({0} \cup Range(s)) \in Nat
  <1> DEFINE S == {0} \cup Range(s)
             Above == {b \in Nat : \A x \in S : x <= b}
  <1>1. S \subseteq Nat
    BY DEF Range
  <1>2. Above # {}
    <2>1. PICK b \in Nat : \A i \in DOMAIN s : s[i] <= b
      BY TimesBounded
    <2>2. b \in Above
      BY <2>1 DEF Range
    <2> QED
      BY <2>2
  <1>3. PICK m \in Above : \A k \in Above : m <= k
    BY <1>2, Smallest
  <1>4. m \in S
    <2>1. SUFFICES ASSUME ~ (m \in S) PROVE FALSE
      OBVIOUS
    <2>2. m - 1 \in Above
      BY <1>1, <1>3, <2>1
    <2> QED
      BY <1>3, <2>2
  <1>5. \E x \in S : \A y \in S : x >= y
    BY <1>1, <1>3, <1>4
  <1> QED
    BY <1>1, <1>5 DEF Max

\* Sets of one and of two elements.
LEMMA OneOrTwo ==
  ASSUME NEW T, IsFiniteSet(T)
  PROVE  /\ \A x \in T : Cardinality(T) = 1 => T = {x}
         /\ \A x \in T : Cardinality(T) = 2 => \E y \in T : y # x /\ T = {x, y}
  <1>1. ASSUME NEW x \in T, Cardinality(T) = 1 PROVE T = {x}
    BY <1>1, FS_Singleton
  <1>2. ASSUME NEW x \in T, Cardinality(T) = 2 PROVE \E y \in T : y # x /\ T = {x, y}
    <2>1. IsFiniteSet(T \ {x}) /\ Cardinality(T \ {x}) = 1
      BY <1>2, FS_RemoveElement
    <2>2. PICK y : T \ {x} = {y}
      BY <2>1, FS_Singleton
    <2> QED
      BY <2>2
  <1> QED
    BY <1>1, <1>2
-----------------------------------------------------------------------------
(***************************************************************************)
(* What is taken for a commit, told without its choices.                   *)
(***************************************************************************)
\* The sets that a writer may take are finite, and hold no page that is in use or
\* pending.
LEMMA TakeableFacts ==
  ASSUME IndInv, NEW n \in Nat, NEW T \in Takeable(n)
  PROVE  /\ T \subseteq 1 .. Pages /\ IsFiniteSet(T) /\ Cardinality(T) = n
         /\ T \cap ({meta.threads, meta.rest} \cup PendingPages) = {}
  <1>1. T \subseteq free \cup high + 1 .. Pages /\ Cardinality(T) = n
    BY DEF Takeable
  <1>2. high \in Nat /\ Pages \in Nat /\ free \subseteq 1 .. Pages
    BY BoltAssumption DEF IndInv, TypesOK
  <1>3. T \subseteq 1 .. Pages
    BY <1>1, <1>2
  <1>4. IsFiniteSet(T)
    <2>1. IsFiniteSet(1 .. Pages)
      BY <1>2, FS_Interval
    <2> QED
      BY <1>3, <2>1, FS_Subset
  <1>5. T \cap ({meta.threads, meta.rest} \cup PendingPages) = {}
    BY <1>1, <1>2 DEF IndInv, PagesApart
  <1> QED
    BY <1>1, <1>3, <1>4, <1>5

LEMMA SpillParts ==
  ASSUME IndInv, NEW table \in Content \ {Nil}, Spill(table)
  PROVE  /\ update = "open" /\ update' = "spilled"
         /\ UNCHANGED <<page, meta, free, pending, made, high, snap>>
         /\ map' \in {map, 2} /\ (map' # map => OpenAt = {}) /\ DirtyOK'
  <1> DEFINE same == table = Threads
  <1>0. /\ update = "open" /\ update' = "spilled"
        /\ UNCHANGED <<page, meta, free, pending, made, high, snap>>
    BY DEF Spill
  <1>1. PICK T \in Takeable(Cardinality(Replaced(table))) :
          \E r \in T :
            /\ Grow(T)
            /\ dirty' = [table |-> table, taken |-> T, rest |-> r, threads |-> ThreadsPage(T, r, same)]
    BY DEF Spill
  <1>2. PICK r \in T :
          /\ Grow(T)
          /\ dirty' = [table |-> table, taken |-> T, rest |-> r, threads |-> ThreadsPage(T, r, same)]
    BY <1>1
  <1> DEFINE t == ThreadsPage(T, r, same)
  <1>3. Cardinality(Replaced(table)) = IF same THEN 1 ELSE 2
    <2>1. meta.rest # meta.threads
      BY DEF IndInv, PagesApart
    <2>2. Cardinality({meta.rest}) = 1 /\ IsFiniteSet({meta.rest})
      BY FS_Singleton
    <2>3. Cardinality({meta.rest} \cup {meta.threads}) = 2
      BY <2>1, <2>2, FS_AddElement
    <2> QED
      BY <2>2, <2>3 DEF Replaced
  <1>4. /\ T \subseteq 1 .. Pages /\ IsFiniteSet(T) /\ Cardinality(T) = IF same THEN 1 ELSE 2
        /\ T \cap ({meta.threads, meta.rest} \cup PendingPages) = {}
    BY <1>3, TakeableFacts
  <1>5. IF same THEN t = meta.threads ELSE t \in T /\ t # r
    <2>1. CASE same
      BY <2>1 DEF ThreadsPage
    <2>2. CASE ~ same
      <3>1. PICK y \in T : y # r /\ T = {r, y}
        BY <1>4, <2>2, OneOrTwo
      <3>2. t = y
        BY <2>2, <3>1 DEF ThreadsPage
      <3> QED
        BY <2>2, <3>1, <3>2
    <2> QED
      BY <2>1, <2>2
  <1>6. \E p \in T : \A q \in T : q <= p
    <2>1. CASE same
      <3>1. T = {r}
        BY <1>4, <2>1, OneOrTwo
      <3> QED
        BY <1>4, <3>1
    <2>2. CASE ~ same
      <3>1. PICK y \in T : T = {r, y}
        BY <1>4, <2>2, OneOrTwo
      <3> QED
        BY <1>4, <3>1
    <2> QED
      BY <2>1, <2>2
  <1>7. t \in 1 .. Pages /\ t # r
    BY <1>4, <1>5 DEF IndInv, TypesOK
  <1>8. PICK k : k = t
    OBVIOUS
  <1>9. dirty' = [table |-> table, taken |-> T, rest |-> r, threads |-> k]
    BY <1>2, <1>8
  <1>10. IF table = Threads THEN k = meta.threads ELSE k \in T
    BY <1>5, <1>8
  <1> HIDE DEF t
  <1>11. dirty'.table = table /\ dirty'.taken = T /\ dirty'.rest = r /\ dirty'.threads = k
    BY <1>9
  <1>12. Threads' = Threads /\ PendingPages' = PendingPages /\ Content' = Content
    BY <1>0 DEF Threads, PendingPages, Content
  <1>13. DirtyOK'
    <2>1. table \in Content \ {Nil} /\ k \in 1 .. Pages /\ k # r
      BY <1>7, <1>8
    <2>2. meta' = meta
      BY <1>0
    <2> QED
      BY <1>0, <1>4, <1>6, <1>10, <1>11, <1>12, <2>1, <2>2 DEF DirtyOK
  <1>14. map' \in {map, 2} /\ (map' # map => OpenAt = {})
    BY <1>2 DEF Grow
  <1> QED
    BY <1>0, <1>13, <1>14
-----------------------------------------------------------------------------
(***************************************************************************)
(* The invariant is inductive.                                             *)
(***************************************************************************)
LEMMA IndInit == Init => IndInv
  <1> SUFFICES ASSUME Init PROVE IndInv
    OBVIOUS
  <1>1. PICK table \in Tables : BoltInit(table)
    BY DEF Init
  <1>2. /\ table \in Content /\ table # Nil /\ Nil \in Content
        /\ Pages \in Nat /\ Pages >= 2 /\ MaxTx \in Nat \ {0}
    BY BoltAssumption, TablesAssumption DEF Content
  <1>3. /\ page = [p \in 1 .. Pages |-> IF p = 1 THEN table ELSE Nil]
        /\ meta = [tx |-> 1, threads |-> 1, rest |-> 2]
        /\ free = {} /\ pending = {} /\ made = [p \in 1 .. Pages |-> 0]
        /\ high = 2 /\ map = 1 /\ update = "none" /\ snap = [r \in Readers |-> Nil]
        /\ pc = [r \in Readers |-> "idle"] /\ since = [r \in Readers |-> 0]
        /\ seen = [r \in Readers |-> [page |-> 0, map |-> 0, table |-> <<>>]]
    BY <1>1 DEF BoltInit, Init, NotSeen
  <1>4. TypesOK
    <2>1. page \in [1 .. Pages -> Content]
      BY <1>2, <1>3
    <2>2. meta \in [tx : 1 .. MaxTx, threads : 1 .. Pages, rest : 1 .. Pages]
      BY <1>2, <1>3
    <2>3. seen \in [Readers -> [page : 0 .. Pages, map : 0 .. 2, table : Content \cup {<<>>}]]
      BY <1>2, <1>3
    <2>4. made \in [1 .. Pages -> Nat] /\ snap \in [Readers -> Nat \cup {Nil}]
      BY <1>3
    <2>5. pc \in [Readers -> {"idle", "view", "render"}] /\ since \in [Readers -> 0 .. 2]
      BY <1>3
    <2>6. free \subseteq 1 .. Pages /\ pending \subseteq [page : 1 .. Pages, made : Nat, replaced : Nat]
      BY <1>3
    <2>7. high \in 2 .. Pages
      BY <1>2, <1>3
    <2>8. map \in 1 .. 2
      <3>1. map = 1
        BY <1>3
      <3> QED
        BY <3>1
    <2>9. update \in Phase
      BY <1>3 DEF Phase
    <2> QED
      BY <2>1, <2>2, <2>3, <2>4, <2>5, <2>6, <2>7, <2>8, <2>9 DEF TypesOK
  <1>5. PagesApart
    BY <1>2, <1>3 DEF PagesApart, PendingPages
  <1>6. NumbersOK
    BY <1>2, <1>3 DEF NumbersOK
  <1>7. DirtyOK /\ \A r \in Readers : pc[r] = "idle"
    BY <1>3 DEF DirtyOK
  <1> QED
    BY <1>4, <1>5, <1>6, <1>7 DEF IndInv, Current, SnapshotIsKept, RowsAreThoseRead

\* What a write transaction that leaves these pages alone does to the readers.
LEMMA ReadersUnharmed ==
  ASSUME IndInv, \A p \in {meta.threads} \cup PendingPages : page'[p] = page[p],
         map' \in {map, 2}, map' # map => OpenAt = {},
         Counted \/ UNCHANGED <<page, since>>, UNCHANGED <<pc, seen, snap>>
  PROVE  (SnapshotIsKept /\ RowsAreThoseRead)'
  <1> USE DEF IndInv
  <1>1. ASSUME NEW r \in Readers, pc'[r] = "view" PROVE StillThere(r)'
    <2>1. pc[r] = "view" /\ StillThere(r) /\ Held(r)
      BY <1>1 DEF SnapshotIsKept
    <2>2. snap[r] \in OpenAt
      BY <2>1, BoltAssumption DEF OpenAt, NumbersOK, TypesOK
    <2>3. seen[r].page \in {meta.threads} \cup PendingPages
      BY <2>1 DEF Held, PendingPages
    <2> QED
      BY <2>1, <2>2, <2>3 DEF StillThere
  <1>2. ASSUME NEW r \in Readers, pc'[r] = "render"
        PROVE  StillThere(r)' \/ since'[r] = 2 \/ map' # seen'[r].map
    <2>1. pc[r] = "render" /\ since[r] \in 0 .. 2 /\ seen[r].map <= map /\ map \in 1 .. 2
          /\ seen[r].map \in 0 .. 2
      BY <1>2 DEF TypesOK, NumbersOK
    <2>2. map # seen[r].map => map' # seen'[r].map
      BY <2>1
    <2>3. CASE UNCHANGED <<page, since>>
      <3>1. StillThere(r) \/ since[r] = 2 \/ map # seen[r].map
        BY <2>1 DEF RowsAreThoseRead
      <3>2. StillThere(r) => StillThere(r)' \/ map' # seen'[r].map
        BY <2>3 DEF StillThere
      <3> QED
        BY <2>2, <2>3, <3>1, <3>2
    <2>4. CASE Counted
      <3>1. since'[r] = IF since[r] = 2 THEN since[r] ELSE since[r] + 1
        BY <2>1, <2>4 DEF Counted
      <3>2. CASE since[r] # 0
        BY <2>1, <3>1, <3>2
      <3>3. CASE since[r] = 0 /\ map = seen[r].map
        <4>1. seen[r].page = meta.threads /\ StillThere(r)
          BY <2>1, <3>3 DEF Current, RowsAreThoseRead
        <4> QED
          BY <3>3, <4>1 DEF StillThere
      <3> QED
        BY <2>2, <3>2, <3>3
    <2> QED
      BY <2>3, <2>4
  <1> QED
    BY <1>1, <1>2 DEF SnapshotIsKept, RowsAreThoseRead

\* Until the meta page is written, an update changes nothing of the database: it takes
\* pages, and writes to them.
LEMMA BeforeMeta ==
  ASSUME IndInv, UNCHANGED <<meta, free, pending, made, high, snap, pc, seen>>,
         page' \in [1 .. Pages -> Content],
         \A p \in {meta.threads} \cup PendingPages : page'[p] = page[p],
         map' \in {map, 2}, map' # map => OpenAt = {},
         Counted \/ UNCHANGED <<page, since>>,
         update' \in Phase, update' \in {"open", "spilled", "written"} => meta.tx < MaxTx,
         update' = "written" => Counted, DirtyOK'
  PROVE  IndInv'
  <1> USE DEF IndInv
  <1>1. TypesOK'
    <2>1. since' \in [Readers -> 0 .. 2]
      <3>1. since \in [Readers -> 0 .. 2]
        BY DEF TypesOK
      <3>2. CASE Counted
        BY <3>1, <3>2 DEF Counted
      <3> QED
        BY <3>1, <3>2
    <2>2. map' \in 1 .. 2
      BY DEF TypesOK
    <2> QED
      BY <2>1, <2>2 DEF TypesOK
  <1>2. PagesApart' /\ \A r \in Readers : pc'[r] = "view" => Held(r)'
    BY DEF PagesApart, PendingPages, Held
  <1>3. NumbersOK'
    <2>1. \A r \in Readers : seen[r].map \in 0 .. 2 /\ seen[r].map <= map
      BY DEF NumbersOK, TypesOK
    <2>2. map \in 1 .. 2
      BY DEF TypesOK
    <2>3. \A r \in Readers : seen'[r].map <= map'
      BY <2>1, <2>2
    <2> QED
      BY <2>3 DEF NumbersOK
  <1>4. ASSUME NEW r \in Readers PROVE Current(r)'
    <2>1. CASE Counted
      <3>1. pc[r] # "idle" => since'[r] # 0
        BY <2>1 DEF Counted, TypesOK
      <3> QED
        BY <3>1 DEF Current
    <2>2. CASE update' # "written" /\ UNCHANGED <<page, since>>
      BY <2>2 DEF Current
    <2> QED
      BY <2>1, <2>2
  <1>5. (SnapshotIsKept /\ RowsAreThoseRead)'
    BY ReadersUnharmed
  <1> QED
    BY <1>1, <1>2, <1>3, <1>4, <1>5

\* What is written to the dirty pages, all of them or some, none of these looks at.
LEMMA WrittenPages ==
  ASSUME IndInv, update = "spilled", NEW W \in SUBSET {dirty.threads, dirty.rest}
  PROVE  /\ Written(W) \in [1 .. Pages -> Content]
         /\ \A p \in {meta.threads} \cup PendingPages : Written(W)[p] = page[p]
         /\ dirty.threads \in W => Written(W)[dirty.threads] = dirty.table
  <1>1. /\ dirty.table \in Content /\ dirty.threads \in 1 .. Pages /\ dirty.rest \in dirty.taken
        /\ dirty.taken \cap ({meta.threads, meta.rest} \cup PendingPages) = {}
        /\ IF dirty.table = Threads THEN dirty.threads = meta.threads ELSE dirty.threads \in dirty.taken
    BY DEF IndInv, DirtyOK
  <1>2. {meta.threads} \cup PendingPages \subseteq 1 .. Pages
    BY BoltAssumption DEF IndInv, TypesOK, PagesApart
  <1>3. page \in [1 .. Pages -> Content] /\ Nil \in Content
    BY DEF IndInv, TypesOK, Content
  <1>4. Written(W) \in [1 .. Pages -> Content]
    BY <1>1, <1>3 DEF Written
  <1>5. ASSUME NEW p \in {meta.threads} \cup PendingPages PROVE Written(W)[p] = page[p]
    <2>1. CASE p = dirty.threads
      <3>1. dirty.table = Threads /\ p = meta.threads
        BY <1>1, <2>1
      <3> QED
        BY <1>2, <2>1, <3>1 DEF Written, Threads
    <2>2. CASE p # dirty.threads
      <3>1. p # dirty.rest
        BY <1>1
      <3> QED
        BY <1>2, <2>2, <3>1 DEF Written
    <2> QED
      BY <2>1, <2>2
  <1>6. dirty.threads \in W => Written(W)[dirty.threads] = dirty.table
    BY <1>1 DEF Written
  <1> QED
    BY <1>4, <1>5, <1>6

LEMMA SpillStep ==
  ASSUME IndInv, NEW table \in Content \ {Nil}, Spill(table), UNCHANGED calls
  PROVE  IndInv'
  <1>1. /\ update = "open" /\ update' = "spilled"
        /\ UNCHANGED <<page, meta, free, pending, made, high, snap>>
        /\ map' \in {map, 2} /\ (map' # map => OpenAt = {}) /\ DirtyOK'
    BY SpillParts
  <1>2. page \in [1 .. Pages -> Content] /\ meta.tx < MaxTx
    BY <1>1 DEF IndInv, TypesOK, NumbersOK
  <1>3. UNCHANGED <<pc, seen, since>>
    BY DEF calls
  <1> QED
    BY <1>1, <1>2, <1>3, BeforeMeta DEF Phase

LEMMA WriteStep ==
  ASSUME IndInv, Write \/ WriteFails, Counted
  PROVE  IndInv'
  <1>1. /\ update = "spilled" /\ UNCHANGED <<meta, free, pending, made, high, map, snap, pc, seen>>
    BY DEF Write, WriteFails, Counted
  <1>2. PICK W \in SUBSET {dirty.threads, dirty.rest} : page' = Written(W) /\ (Write => dirty.threads \in W)
    BY DEF Write, WriteFails
  <1>3. page' \in [1 .. Pages -> Content] /\ \A p \in {meta.threads} \cup PendingPages : page'[p] = page[p]
    BY <1>1, <1>2, WrittenPages
  <1>4. meta.tx < MaxTx
    BY <1>1 DEF IndInv, NumbersOK
  <1>5. CASE Write
    <2>1. update' = "written" /\ dirty' = dirty /\ page'[dirty.threads] = dirty.table
      BY <1>1, <1>2, <1>5, WrittenPages DEF Write
    <2>2. Threads' = Threads /\ PendingPages' = PendingPages /\ Content' = Content
      BY <1>1, <1>3 DEF Threads, PendingPages, Content
    <2>3. DirtyOK'
      BY <1>1, <2>1, <2>2 DEF IndInv, DirtyOK
    <2> QED
      BY <1>1, <1>3, <1>4, <2>1, <2>3, BeforeMeta DEF Phase
  <1>6. CASE WriteFails
    <2>1. update' = "none"
      BY <1>6 DEF WriteFails
    <2>2. DirtyOK'
      BY <2>1 DEF DirtyOK
    <2> QED
      BY <1>1, <1>3, <1>4, <2>1, <2>2, BeforeMeta DEF Phase
  <1> QED
    BY <1>5, <1>6

LEMMA EndStep ==
  ASSUME IndInv, Rollback \/ CommitFails \/ Close, UNCHANGED calls
  PROVE  IndInv'
  <1>1. update' = "none" /\ UNCHANGED <<page, meta, free, pending, made, high, map, snap, pc, seen, since>>
    BY DEF Rollback, CommitFails, Close, calls
  <1>2. page \in [1 .. Pages -> Content]
    BY DEF IndInv, TypesOK
  <1>3. DirtyOK'
    BY <1>1 DEF DirtyOK
  <1> QED
    BY <1>1, <1>2, <1>3, BeforeMeta DEF Phase

\* The meta page makes the pages written those of the database; those replaced are
\* pending, and still hold what is read there.
LEMMA WriteMetaStep ==
  ASSUME IndInv, WriteMeta, UNCHANGED calls
  PROVE  IndInv'
  <1> USE DEF IndInv
  <1>0. PICK table, T, r, t : table = dirty.table /\ T = dirty.taken /\ r = dirty.rest /\ t = dirty.threads
    OBVIOUS
  <1>1. /\ update = "written" /\ update' = "ending" /\ free' = free \ T
        /\ made' = [p \in 1 .. Pages |-> IF p \in T /\ p <= high THEN meta.tx + 1 ELSE made[p]]
        /\ pending' = pending \cup {[page |-> p, made |-> made[p], replaced |-> meta.tx + 1] : p \in Replaced(table)}
        /\ meta' = [tx |-> meta.tx + 1, threads |-> t, rest |-> r]
        /\ UNCHANGED <<page, map, snap, pc, seen, since>>
    BY <1>0 DEF WriteMeta, calls
  <1>2. /\ table \in Content \ {Nil} /\ page[t] = table
        /\ T \subseteq 1 .. Pages /\ r \in T /\ t \in 1 .. Pages /\ t # r
        /\ T \cap ({meta.threads, meta.rest} \cup PendingPages) = {}
        /\ IF table = Threads THEN t = meta.threads ELSE t \in T
        /\ \E p \in T : \A q \in T : q <= p
    BY <1>0, <1>1 DEF DirtyOK
  <1>3. /\ Pages \in Nat /\ MaxTx \in Nat /\ high \in 2 .. Pages
        /\ meta.tx \in 1 .. MaxTx /\ meta.tx < MaxTx /\ meta.tx + 1 \in 1 .. MaxTx
        /\ meta.threads \in 1 .. high /\ meta.threads \in 1 .. Pages
        /\ meta.rest \in 1 .. Pages /\ meta.threads # meta.rest
    BY <1>1, BoltAssumption DEF TypesOK, NumbersOK, PagesApart
  <1>4. high' \in high .. Pages /\ high' \in 2 .. Pages /\ T \cup {t} \subseteq 1 .. high'
    <2>1. high' = IF \E p \in T : p > high THEN CHOOSE p \in T : \A q \in T : q <= p ELSE high
      BY <1>0 DEF WriteMeta
    <2>2. CASE \E p \in T : p > high
      <3>1. high' \in T /\ \A q \in T : q <= high'
        BY <1>2, <2>1, <2>2
      <3>2. high' \in high .. Pages
        <4>1. PICK p \in T : p > high
          BY <2>2
        <4>2. p \in 1 .. Pages /\ high' \in 1 .. Pages /\ p <= high'
          BY <1>2, <3>1, <4>1
        <4> QED
          BY <1>3, <4>1, <4>2
      <3>4. T \subseteq 1 .. high'
        BY <1>2, <1>3, <3>1, <3>2
      <3>3. t \in 1 .. high'
        BY <1>2, <1>3, <3>2, <3>4
      <3> QED
        BY <1>3, <3>2, <3>3, <3>4
    <2>3. CASE ~ \E p \in T : p > high
      <3>1. high' = high /\ T \subseteq 1 .. high
        BY <1>2, <1>3, <2>1, <2>3
      <3>2. t \in 1 .. high
        BY <1>2, <1>3, <3>1
      <3> QED
        BY <1>3, <3>1, <3>2
    <2> QED
      BY <2>2, <2>3
  <1>5. meta'.tx = meta.tx + 1 /\ meta'.threads = t /\ meta'.rest = r
    BY <1>1
  <1>7. PendingPages' = PendingPages \cup Replaced(table)
    <2>1. ASSUME NEW p \in Replaced(table) PROVE p \in PendingPages'
      <3> DEFINE d == [page |-> p, made |-> made[p], replaced |-> meta.tx + 1]
      <3>1. d \in pending' /\ d.page = p
        BY <1>1
      <3> HIDE DEF d
      <3> QED
        BY <3>1 DEF PendingPages
    <2>2. PendingPages \cup Replaced(table) \subseteq PendingPages'
      BY <1>1, <2>1 DEF PendingPages
    <2>3. PendingPages' \subseteq PendingPages \cup Replaced(table)
      BY <1>1 DEF PendingPages
    <2> QED
      BY <2>2, <2>3
  <1>8. TypesOK'
    <2>1. meta' \in [tx : 1 .. MaxTx, threads : 1 .. Pages, rest : 1 .. Pages]
      BY <1>1, <1>2, <1>3
    <2>2. made' \in [1 .. Pages -> Nat]
      BY <1>1, <1>3 DEF TypesOK
    <2>3. pending' \subseteq [page : 1 .. Pages, made : Nat, replaced : Nat]
      <3>1. \A p \in Replaced(table) : p \in 1 .. Pages /\ made[p] \in Nat
        BY <1>3 DEF Replaced, TypesOK
      <3> QED
        BY <1>1, <1>3, <3>1 DEF TypesOK
    <2>4. free' \subseteq 1 .. Pages /\ update' \in Phase
      BY <1>1 DEF TypesOK, Phase
    <2> QED
      BY <1>1, <1>4, <2>1, <2>2, <2>3, <2>4 DEF TypesOK
  <1>9. PagesApart'
    <2>1. Replaced(table) \subseteq {meta.threads, meta.rest} /\ ~ (t \in Replaced(table)) /\ ~ (r \in Replaced(table))
      BY <1>2, <1>3 DEF Replaced
    <2>2. t \in T \/ t = meta.threads
      BY <1>2
    <2>3. ~ (t \in PendingPages') /\ ~ (r \in PendingPages') /\ ~ (t \in free') /\ ~ (r \in free')
      BY <1>1, <1>2, <1>7, <2>1, <2>2 DEF PagesApart
    <2>4. free' \cap PendingPages' = {}
      BY <1>1, <1>7, <2>1 DEF PagesApart
    <2>5. \A p \in 1 .. high : p \in 1 .. high'
      BY <1>3, <1>4
    <2>6. {t, r} \cup free' \cup PendingPages' \subseteq 1 .. high'
      <3>1. free' \cup PendingPages' \subseteq 1 .. high
        BY <1>1, <1>7, <2>1 DEF PagesApart
      <3> QED
        BY <1>2, <1>4, <2>5, <3>1
    <2>7. ASSUME NEW d \in pending', NEW e \in pending', d.page = e.page PROVE d = e
      <3> DEFINE New(p) == [page |-> p, made |-> made[p], replaced |-> meta.tx + 1]
      <3>1. ASSUME NEW f \in pending', ~ (f \in pending)
            PROVE  f.page \in Replaced(table) /\ f = New(f.page)
        <4>1. PICK p \in Replaced(table) : f = [page |-> p, made |-> made[p], replaced |-> meta.tx + 1]
          BY <1>1, <3>1
        <4> QED
          BY <4>1
      <3>2. \A f \in pending : f.page \in PendingPages /\ ~ (f.page \in Replaced(table))
        BY <2>1 DEF PendingPages, PagesApart
      <3>3. CASE d \in pending
        BY <2>7, <3>1, <3>2, <3>3 DEF PagesApart
      <3>4. CASE ~ (d \in pending)
        BY <2>7, <3>1, <3>2, <3>4
      <3> QED
        BY <3>3, <3>4
    <2>8. page'[t] # Nil
      BY <1>1, <1>2
    <2> QED
      BY <1>2, <1>5, <2>3, <2>4, <2>6, <2>7, <2>8 DEF PagesApart
  <1>10. NumbersOK'
    <2>1. \A p \in 1 .. Pages : made'[p] <= meta'.tx
      <3>1. \A p \in 1 .. Pages : made[p] \in Nat /\ made[p] <= meta.tx
        BY DEF TypesOK, NumbersOK
      <3> QED
        BY <1>1, <1>3, <1>5, <3>1
    <2>2. \A q \in Readers : IF pc'[q] = "view" THEN snap'[q] \in 1 .. meta'.tx ELSE snap'[q] = Nil
      BY <1>1, <1>3, <1>5 DEF NumbersOK
    <2> QED
      BY <1>1, <2>1, <2>2 DEF NumbersOK
  <1>11. ASSUME NEW q \in Readers, pc'[q] = "view" PROVE Held(q)'
    <2> DEFINE p == seen[q].page
    <2>1. pc[q] = "view" /\ Held(q) /\ snap[q] \in 1 .. meta.tx
      BY <1>1, <1>11 DEF NumbersOK
    <2>2. CASE \E d \in pending : d.page = p /\ d.made <= snap[q] /\ snap[q] < d.replaced
      BY <1>1, <2>2 DEF Held
    <2>3. CASE p = meta.threads /\ made[p] <= snap[q] /\ table = Threads
      <3>1. ~ (p \in T) /\ p \in 1 .. Pages
        BY <1>2, <1>3, <2>3
      <3>2. made'[p] = made[p]
        BY <1>1, <3>1
      <3>3. p = meta'.threads
        BY <1>2, <1>5, <2>3
      <3> QED
        BY <1>1, <2>3, <3>2, <3>3 DEF Held
    <2>4. CASE p = meta.threads /\ made[p] <= snap[q] /\ table # Threads
      <3> DEFINE d == [page |-> p, made |-> made[p], replaced |-> meta.tx + 1]
      <3>1. d \in pending'
        BY <1>1, <2>4 DEF Replaced
      <3>2. snap[q] < meta.tx + 1
        BY <1>3, <2>1
      <3>3. d.page = p /\ d.made = made[p] /\ d.replaced = meta.tx + 1
        OBVIOUS
      <3> HIDE DEF d
      <3> QED
        BY <1>1, <2>4, <3>1, <3>2, <3>3 DEF Held
    <2> QED
      BY <2>1, <2>2, <2>3, <2>4 DEF Held
  <1>12. (SnapshotIsKept /\ RowsAreThoseRead)'
    BY <1>1 DEF SnapshotIsKept, RowsAreThoseRead, StillThere
  <1>13. ASSUME NEW q \in Readers PROVE Current(q)'
    BY <1>1 DEF Current
  <1>14. DirtyOK'
    BY <1>1 DEF DirtyOK
  <1> QED
    BY <1>8, <1>9, <1>10, <1>11, <1>12, <1>13, <1>14

\* The posts of a subforum change one time, or add one; other updates change none.
LEMMA TablesCommitted ==
  ASSUME IndInv
  PROVE  /\ Threads \in Seq(Nat) /\ Threads \in Content /\ Threads # Nil
         /\ \A i \in DOMAIN Threads, now \in Times : [Threads EXCEPT ![i] = now] \in Content \ {Nil}
         /\ Len(Threads) < MaxThreads =>
              \A now \in Times : Append(Threads, now) \in Content \ {Nil}
  <1>1. Threads \in Content /\ Threads # Nil
    BY DEF IndInv, TypesOK, PagesApart, Threads
  <1>2. Threads \in Seq(Nat) /\ Len(Threads) <= MaxThreads
    BY <1>1 DEF Content
  <1>3. Times \subseteq Nat
    <2> DEFINE last == Max({0} \cup Range(Threads))
    <2>1. last \in Nat
      BY <1>2, LastTime
    <2>2. Times = {last, last + 1}
      BY DEF Times
    <2> HIDE DEF last
    <2> QED
      BY <2>1, <2>2
  <1>4. MaxThreads \in Nat /\ Nil \notin Seq(Nat)
    BY TablesAssumption
  <1>5. ASSUME NEW i \in DOMAIN Threads, NEW now \in Times
        PROVE  [Threads EXCEPT ![i] = now] \in Content \ {Nil}
    <2>1. [Threads EXCEPT ![i] = now] \in Seq(Nat) /\ Len([Threads EXCEPT ![i] = now]) = Len(Threads)
      BY <1>2, <1>3
    <2> QED
      BY <1>2, <1>4, <2>1 DEF Content
  <1>6. ASSUME Len(Threads) < MaxThreads, NEW now \in Times PROVE Append(Threads, now) \in Content \ {Nil}
    <2>1. Append(Threads, now) \in Seq(Nat) /\ Len(Append(Threads, now)) = Len(Threads) + 1
      BY <1>2, <1>3
    <2>2. Len(Threads) + 1 <= MaxThreads
      BY <1>2, <1>4, <1>6
    <2> QED
      BY <1>4, <2>1, <2>2 DEF Content
  <1> QED
    BY <1>1, <1>2, <1>5, <1>6

\* What a writer frees when it begins is seen by none.
LEMMA BeginStep ==
  ASSUME IndInv, BeginUpdate, UNCHANGED calls
  PROVE  IndInv'
  <1> USE DEF IndInv
  <1> DEFINE out == {d \in pending : Releasable(d)}
  <1>1. /\ update = "none" /\ meta.tx < MaxTx /\ update' = "open"
        /\ pending' = pending \ out /\ free' = free \cup {d.page : d \in out}
        /\ UNCHANGED <<page, meta, made, high, map, snap, pc, seen, list, since>>
    BY DEF BeginUpdate, calls
  <1>2. TypesOK'
    <2>1. pending' \subseteq [page : 1 .. Pages, made : Nat, replaced : Nat]
      BY <1>1 DEF TypesOK
    <2>2. free' \subseteq 1 .. Pages
      <3>1. \A d \in out : d.page \in 1 .. Pages
        BY DEF TypesOK
      <3>2. free \subseteq 1 .. Pages
        BY DEF TypesOK
      <3> HIDE DEF out
      <3> QED
        BY <1>1, <3>1, <3>2
    <2> QED
      BY <1>1, <2>1, <2>2 DEF TypesOK, Phase
  <1>3. PagesApart'
    <2>1. PendingPages' \subseteq PendingPages /\ free' \subseteq free \cup PendingPages
      BY <1>1 DEF PendingPages
    <2>2. free' \cap PendingPages' = {}
      <3>1. ASSUME NEW d \in pending' PROVE ~ (d.page \in free')
        <4>1. d \in pending /\ ~ (d \in out)
          BY <1>1
        <4>2. ~ (d.page \in free)
          BY <4>1 DEF PagesApart, PendingPages
        <4>3. \A e \in out : e.page # d.page
          BY <4>1 DEF PagesApart
        <4> QED
          BY <1>1, <4>2, <4>3
      <3> QED
        BY <3>1 DEF PendingPages
    <2>3. \A d, e \in pending' : d.page = e.page => d = e
      BY <1>1 DEF PagesApart
    <2> QED
      BY <1>1, <2>1, <2>2, <2>3 DEF PagesApart
  <1>4. NumbersOK'
    BY <1>1 DEF NumbersOK
  <1>5. ASSUME NEW r \in Readers, pc'[r] = "view" PROVE Held(r)'
    <2>1. pc[r] = "view" /\ Held(r) /\ snap[r] \in Nat
      BY <1>1, <1>5 DEF NumbersOK
    <2>2. snap[r] \in OpenAt
      BY <2>1, BoltAssumption DEF OpenAt
    <2>3. ASSUME NEW d \in pending, d.made <= snap[r], snap[r] < d.replaced PROVE d \in pending'
      <3>1. d.made \in Nat /\ d.replaced \in Nat
        BY DEF TypesOK
      <3>2. ~ Releasable(d)
        BY <2>1, <2>2, <2>3, <3>1 DEF Releasable
      <3> QED
        BY <1>1, <3>2
    <2> QED
      BY <1>1, <2>1, <2>3 DEF Held
  <1>6. (SnapshotIsKept /\ RowsAreThoseRead /\ \A r \in Readers : Current(r))'
    BY <1>1 DEF SnapshotIsKept, RowsAreThoseRead, StillThere, Current
  <1>7. DirtyOK'
    BY <1>1 DEF DirtyOK
  <1> QED
    BY <1>2, <1>3, <1>4, <1>5, <1>6, <1>7

\* The steps of the handlers.
LEMMA ReaderStep ==
  ASSUME IndInv, NEW r \in Readers,
         BeginView(r) \/ EndView(r) \/ GetThreadsForSubforum(r) \/ Respond(r)
  PROVE  IndInv'
  <1> USE DEF IndInv
  <1>1. UNCHANGED <<page, meta, free, pending, made, high, map, update, dirty>>
    BY DEF BeginView, EndView, GetThreadsForSubforum, Respond, bolt
  <1>2. PagesApart' /\ DirtyOK'
    BY <1>1 DEF PagesApart, PendingPages, DirtyOK, Threads, Content
  <1>3. CASE BeginView(r)
    <2>1. /\ pc[r] = "idle" /\ pc' = [pc EXCEPT ![r] = "view"]
          /\ snap' = [snap EXCEPT ![r] = meta.tx]
          /\ seen' = [seen EXCEPT ![r] = [page |-> meta.threads, map |-> map, table |-> Threads]]
          /\ since' = [since EXCEPT ![r] = IF update = "written" THEN 1 ELSE 0]
      BY <1>3 DEF BeginView
    <2>2. /\ meta.threads \in 1 .. Pages /\ meta.tx \in 1 .. MaxTx /\ map \in 1 .. 2
          /\ Threads \in Content /\ made[meta.threads] <= meta.tx /\ MaxTx \in Nat
      BY BoltAssumption DEF TypesOK, NumbersOK, Threads
    <2>3. TypesOK'
      <3>1. seen' \in [Readers -> [page : 0 .. Pages, map : 0 .. 2, table : Content \cup {<<>>}]]
        BY <2>1, <2>2, BoltAssumption DEF TypesOK
      <3>2. snap' \in [Readers -> Nat \cup {Nil}] /\ pc' \in [Readers -> {"idle", "view", "render"}]
            /\ since' \in [Readers -> 0 .. 2]
        BY <2>1, <2>2 DEF TypesOK
      <3> QED
        BY <1>1, <3>1, <3>2 DEF TypesOK
    <2>4. NumbersOK'
      <3>1. \A q \in Readers : IF pc'[q] = "view" THEN snap'[q] \in 1 .. meta'.tx ELSE snap'[q] = Nil
        BY <1>1, <2>1, <2>2 DEF NumbersOK, TypesOK
      <3>2. \A q \in Readers : seen'[q].map <= map'
        BY <1>1, <2>1, <2>2 DEF NumbersOK, TypesOK
      <3> QED
        BY <1>1, <3>1, <3>2 DEF NumbersOK
    <2>5. ASSUME NEW q \in Readers
          PROVE  /\ pc'[q] = "view" => Held(q)' /\ StillThere(q)'
                 /\ pc'[q] = "render" => StillThere(q)' \/ since'[q] = 2 \/ map' # seen'[q].map
                 /\ Current(q)'
      <3>1. CASE q = r
        BY <1>1, <2>1, <2>2, <3>1 DEF Held, StillThere, Current, Threads, TypesOK
      <3>2. CASE q # r
        <4>1. pc'[q] = pc[q] /\ seen'[q] = seen[q] /\ since'[q] = since[q] /\ snap'[q] = snap[q]
          BY <2>1, <3>2 DEF TypesOK
        <4> QED
          BY <1>1, <4>1 DEF Held, StillThere, Current, SnapshotIsKept, RowsAreThoseRead
      <3> QED
        BY <3>1, <3>2
    <2> QED
      BY <1>2, <2>3, <2>4, <2>5 DEF SnapshotIsKept, RowsAreThoseRead
  <1>4. CASE GetThreadsForSubforum(r)
    <2>1. /\ pc[r] = "view" /\ pc' = [pc EXCEPT ![r] = "render"]
          /\ snap' = [snap EXCEPT ![r] = Nil] /\ UNCHANGED <<seen, since>>
      BY <1>4 DEF GetThreadsForSubforum
    <2>2. TypesOK' /\ NumbersOK'
      BY <1>1, <2>1 DEF TypesOK, NumbersOK
    <2>3. ASSUME NEW q \in Readers
          PROVE  /\ pc'[q] = "view" => Held(q)' /\ StillThere(q)'
                 /\ pc'[q] = "render" => StillThere(q)' \/ since'[q] = 2 \/ map' # seen'[q].map
                 /\ Current(q)'
      BY <1>1, <2>1 DEF Held, StillThere, Current, SnapshotIsKept, RowsAreThoseRead, TypesOK
    <2> QED
      BY <1>2, <2>2, <2>3 DEF SnapshotIsKept, RowsAreThoseRead
  <1>5. CASE EndView(r) \/ Respond(r)
    <2>1. /\ pc' = [pc EXCEPT ![r] = "idle"] /\ seen' = [seen EXCEPT ![r] = NotSeen]
          /\ snap' = [snap EXCEPT ![r] = Nil] /\ UNCHANGED since
      <3>1. CASE EndView(r)
        BY <3>1 DEF EndView, Finish
      <3>2. CASE Respond(r)
        <4>1. snap' = snap /\ snap[r] = Nil
          BY <3>2 DEF Respond, bolt, NumbersOK
        <4>2. snap' = [snap EXCEPT ![r] = Nil]
          BY <4>1 DEF TypesOK
        <4> QED
          BY <3>2, <4>2 DEF Respond, Finish
      <3> QED
        BY <1>5, <3>1, <3>2
    <2>2. TypesOK'
      <3>1. seen' \in [Readers -> [page : 0 .. Pages, map : 0 .. 2, table : Content \cup {<<>>}]]
        BY <2>1, BoltAssumption DEF NotSeen, TypesOK
      <3> QED
        BY <1>1, <2>1, <3>1 DEF TypesOK
    <2>3. NumbersOK'
      BY <1>1, <2>1 DEF NumbersOK, TypesOK, NotSeen
    <2>4. ASSUME NEW q \in Readers
          PROVE  /\ pc'[q] = "view" => Held(q)' /\ StillThere(q)'
                 /\ pc'[q] = "render" => StillThere(q)' \/ since'[q] = 2 \/ map' # seen'[q].map
                 /\ Current(q)'
      BY <1>1, <2>1 DEF Held, StillThere, Current, SnapshotIsKept, RowsAreThoseRead, TypesOK
    <2> QED
      BY <1>2, <2>2, <2>3, <2>4 DEF SnapshotIsKept, RowsAreThoseRead
  <1> QED
    BY <1>3, <1>4, <1>5

LEMMA IndStep == IndInv /\ [Next]_vars => IndInv'
  <1> SUFFICES ASSUME IndInv, [Next]_vars PROVE IndInv'
    OBVIOUS
  <1>1. CASE \E r \in Readers : BeginView(r) \/ EndView(r) \/ GetThreadsForSubforum(r) \/ Respond(r)
    BY <1>1, ReaderStep
  <1>2. CASE BeginUpdate /\ UNCHANGED calls
    BY <1>2, BeginStep
  <1>3. CASE OnNewPost
    BY <1>3, SpillStep, TablesCommitted DEF OnNewPost
  <1>4. CASE OnNewThread
    BY <1>4, SpillStep, TablesCommitted DEF OnNewThread
  <1>5. CASE OtherUpdate
    BY <1>5, SpillStep, TablesCommitted DEF OtherUpdate
  <1>6. CASE (Rollback \/ CommitFails \/ Close) /\ UNCHANGED calls
    BY <1>6, EndStep
  <1>7. CASE WriteMeta /\ UNCHANGED calls
    BY <1>7, WriteMetaStep
  <1>8. CASE (Write \/ WriteFails) /\ Counted
    BY <1>8, WriteStep
  <1>9. CASE UNCHANGED vars
    BY <1>9 DEF IndInv, TypesOK, PagesApart, PendingPages, NumbersOK, DirtyOK, Threads, Content, Held,
                Current, SnapshotIsKept, RowsAreThoseRead, StillThere, vars, bolt, calls
  <1> QED
    BY <1>1, <1>2, <1>3, <1>4, <1>5, <1>6, <1>7, <1>8, <1>9 DEF Next

LEMMA Inductive == Spec => []IndInv
  BY IndInit, IndStep, PTL DEF Spec
-----------------------------------------------------------------------------
\* Pages hold tables, those in use are neither free nor pending, and a transaction is
\* open for who reads.
THEOREM TypeCorrect == Spec => []TypeOK
  <1>1. IndInv => TypeOK
    <2> SUFFICES ASSUME IndInv PROVE TypeOK
      OBVIOUS
    <2>1. \A p \in 1 .. Pages : page[p] = Nil \/ (page[p] \in Seq(Nat) /\ Len(page[p]) <= MaxThreads)
      BY DEF IndInv, TypesOK, Content
    <2>2. \A r \in Readers : snap[r] # Nil => pc[r] = "view" /\ snap[r] \in 1 .. meta.tx
      BY DEF IndInv, NumbersOK
    <2> QED
      BY <2>1, <2>2 DEF IndInv, TypesOK, PagesApart, PendingPages, Threads, TypeOK
  <1> QED
    BY <1>1, Inductive, PTL

\* While its transaction is open, a handler reads what was committed when it began.
THEOREM Snapshots == Spec => []SnapshotIsKept
  <1>1. IndInv => SnapshotIsKept
    BY DEF IndInv
  <1> QED
    BY <1>1, Inductive, PTL

\* What it holds of it afterwards is good until the pages of a second write transaction
\* that had not committed when it began are written, be it that the transaction is still
\* to end or to fail, or the file is mapped anew.
THEOREM Rows == Spec => []RowsAreThoseRead
  <1>1. IndInv => RowsAreThoseRead
    BY DEF IndInv
  <1> QED
    BY <1>1, Inductive, PTL
-----------------------------------------------------------------------------
(***************************************************************************)
(* The sort.                                                               *)
(***************************************************************************)
\* The function that InsertionSort defines by recursion.
SortedUpTo(s, f, n) == f = [k \in 0 .. n |-> IF k = 0 THEN <<>> ELSE Insert(f[k - 1], s[k])]

\* There is one for each number of elements: were there not, take the smallest number
\* without one.
LEMMA SortDefined ==
  ASSUME NEW s, NEW n \in Nat
  PROVE  \E f : SortedUpTo(s, f, n)
  <1> DEFINE Without == {m \in Nat : \A f : ~ SortedUpTo(s, f, m)}
  <1>1. ASSUME n \in Without PROVE FALSE
    <2>1. Without \in SUBSET Nat /\ Without # {}
      BY <1>1
    <2> HIDE DEF Without
    <2>2. PICK m \in Without : \A k \in Without : m <= k
      BY <2>1, Smallest
    <2>3. m \in Nat /\ \A f : ~ SortedUpTo(s, f, m)
      BY <2>2 DEF Without
    <2>4. CASE m = 0
      <3> DEFINE g == [k \in 0 .. 0 |-> <<>>]
      <3>1. g = [k \in 0 .. 0 |-> IF k = 0 THEN <<>> ELSE Insert(g[k - 1], s[k])]
        OBVIOUS
      <3> QED
        BY <2>3, <2>4, <3>1 DEF SortedUpTo
    <2>5. CASE m # 0
      <3>1. m - 1 \in Nat /\ ~ (m <= m - 1)
        BY <2>3, <2>5
      <3>2. m - 1 \notin Without
        BY <2>2, <3>1
      <3>3. PICK f : SortedUpTo(s, f, m - 1)
        BY <3>1, <3>2 DEF Without
      <3> DEFINE At(k) == IF k = 0 THEN <<>> ELSE Insert(f[k - 1], s[k])
                 g == [k \in 0 .. m |-> At(k)]
      <3>4. f = [k \in 0 .. m - 1 |-> At(k)]
        BY <3>3 DEF SortedUpTo
      <3> HIDE DEF At
      <3>5. \A k \in 0 .. m - 1 : k \in 0 .. m /\ f[k] = At(k)
        BY <2>3, <3>4
      <3>6. \A k \in 0 .. m : g[k] = At(k)
        OBVIOUS
      <3>7. \A k \in 0 .. m : k # 0 => k - 1 \in 0 .. m - 1
        BY <2>3
      <3>8. g = [k \in 0 .. m |-> g[k]]
        OBVIOUS
      <3> HIDE DEF g
      <3>9. \A k \in 0 .. m : k # 0 => g[k - 1] = f[k - 1]
        BY <3>5, <3>6, <3>7
      <3>10. \A k \in 0 .. m : g[k] = IF k = 0 THEN <<>> ELSE Insert(g[k - 1], s[k])
        BY <3>6, <3>9 DEF At
      <3>11. g = [k \in 0 .. m |-> IF k = 0 THEN <<>> ELSE Insert(g[k - 1], s[k])]
        BY <3>8, <3>10
      <3> QED
        BY <2>3, <3>11 DEF SortedUpTo
    <2> QED
      BY <2>4, <2>5
  <1> QED
    BY <1>1

\* What a list of threads consists of.
Row == [id: Nat, time: Nat]

\* a is shown before b.
Ahead(a, b) == a.time > b.time \/ (a.time = b.time /\ a.id > b.id)

\* l has the first n threads of the table, each once, as they are to be shown.
InOrder(l, table, n) ==
  /\ l \in Seq(Row) /\ Len(l) = n
  /\ \A i \in 1 .. n : l[i].id \in 1 .. n /\ l[i].time = table[l[i].id]
  /\ \A k \in 1 .. n : \E i \in 1 .. n : l[i].id = k
  /\ \A i, j \in 1 .. n : i < j => Ahead(l[i], l[j])

\* t is l, a list of elements of S, with a put after its first m elements.
Inserted(t, S, l, m, a) ==
  /\ t \in Seq(S) /\ Len(t) = Len(l) + 1 /\ t[m + 1] = a
  /\ \A i \in 1 .. m : t[i] = l[i]
  /\ \A i \in m + 2 .. Len(l) + 1 : t[i] = l[i - 1]

\* An element put at a position moves those from there on.
LEMMA InsertedElements ==
  ASSUME NEW S, NEW l \in Seq(S), NEW a \in S, NEW m \in 0 .. Len(l)
  PROVE  Inserted(InsertAt(l, m + 1, a), S, l, m, a)
  <1> DEFINE x == SubSeq(l, 1, m)
             y == SubSeq(l, m + 1, Len(l))
             n == Len(l)
  <1>1. n \in Nat /\ m \in Nat /\ m <= n
    OBVIOUS
  <1>2. InsertAt(l, m + 1, a) = x \o <<a>> \o y
    <2>1. (m + 1) - 1 = m
      BY <1>1
    <2> QED
      BY <2>1 DEF InsertAt
  <1>3. x \in Seq(S) /\ Len(x) = m /\ \A i \in 1 .. m : x[i] = l[i]
    BY <1>1
  <1>4. y \in Seq(S) /\ Len(y) = n - m /\ \A i \in 1 .. n - m : y[i] = l[m + i]
    BY <1>1
  <1> HIDE DEF x, y, n
  <1>5. /\ x \o <<a>> \in Seq(S) /\ Len(x \o <<a>>) = m + 1 /\ (x \o <<a>>)[m + 1] = a
        /\ \A i \in 1 .. m : (x \o <<a>>)[i] = l[i]
    BY <1>1, <1>3
  <1> DEFINE z == x \o <<a>>
  <1> HIDE DEF z
  <1>6. z \in Seq(S) /\ Len(z) = m + 1 /\ z[m + 1] = a /\ \A i \in 1 .. m : z[i] = l[i]
    BY <1>5 DEF z
  <1>7. /\ z \o y \in Seq(S) /\ Len(z \o y) = n + 1 /\ (z \o y)[m + 1] = a
        /\ \A i \in 1 .. m : (z \o y)[i] = l[i]
        /\ \A i \in m + 2 .. n + 1 : (z \o y)[i] = y[i - (m + 1)]
    BY <1>1, <1>4, <1>6
  <1>8. \A i \in m + 2 .. n + 1 : y[i - (m + 1)] = l[i - 1]
    <2>1. \A i \in m + 2 .. n + 1 : i - (m + 1) \in 1 .. n - m /\ m + (i - (m + 1)) = i - 1
      BY <1>1
    <2> QED
      BY <1>4, <2>1
  <1>9. InsertAt(l, m + 1, a) = z \o y
    BY <1>2 DEF z
  <1> QED
    BY <1>7, <1>8, <1>9 DEF n, Inserted

\* The positions of a sequence.
LEMMA Positions ==
  ASSUME NEW S, NEW s \in Seq(S)
  PROVE  DOMAIN s = 1 .. Len(s) /\ Len(s) \in Nat /\ \A k \in DOMAIN s : s[k] \in S
  OBVIOUS

\* What is in a list in order.
LEMMA RowsTyped ==
  ASSUME NEW table, NEW n, NEW l, InOrder(l, table, n)
  PROVE  /\ l \in Seq(Row) /\ Len(l) = n /\ n \in Nat /\ DOMAIN l = 1 .. n
         /\ \A j \in 1 .. n : l[j].id \in Nat /\ l[j].time \in Nat
  <1>1. l \in Seq(Row) /\ Len(l) = n
    BY DEF InOrder
  <1>2. DOMAIN l = 1 .. n /\ n \in Nat /\ \A j \in DOMAIN l : l[j] \in Row
    BY <1>1, Positions
  <1>3. \A x \in Row : x.id \in Nat /\ x.time \in Nat
    BY DEF Row
  <1> QED
    BY <1>1, <1>2, <1>3

\* The elements that one of the given time stays behind, and how many it does.
Stays(l, n, time) == {j \in 1 .. n : time < l[j].time}
Place(l, n, time) == IF Stays(l, n, time) = {} THEN 0 ELSE Max(Stays(l, n, time))

\* In a list in order, those a new element stays behind come first.
LEMMA StaysPrefix ==
  ASSUME NEW table, NEW n \in Nat, NEW l, InOrder(l, table, n), NEW time \in Nat
  PROVE  /\ Place(l, n, time) \in 0 .. n
         /\ \A j \in 1 .. n : j <= Place(l, n, time) <=> time < l[j].time
  <1> USE DEF Place, Stays
  <1> DEFINE stays == {j \in 1 .. n : time < l[j].time}
             m == IF stays = {} THEN 0 ELSE Max(stays)
  <1>1. \A j \in 1 .. n : l[j].time \in Nat
    BY RowsTyped
  <1>2. \A i, j \in 1 .. n : i < j /\ j \in stays => i \in stays
    <2>1. ASSUME NEW i \in 1 .. n, NEW j \in 1 .. n, i < j PROVE l[i].time >= l[j].time
      <3>1. Ahead(l[i], l[j])
        BY <2>1 DEF InOrder
      <3> QED
        BY <1>1, <3>1 DEF Ahead
    <2> QED
      BY <1>1, <2>1
  <1>3. CASE stays = {}
    BY <1>3
  <1>4. CASE stays # {}
    <2> DEFINE S == {n - j : j \in stays}
    <2>1. S \in SUBSET Nat /\ S # {}
      BY <1>4
    <2>2. PICK d \in S : \A e \in S : d <= e
      <3> HIDE DEF S
      <3> QED
        BY <2>1, Smallest
    <2>3. PICK j \in stays : d = n - j
      BY <2>2
    <2>4. ASSUME NEW k \in stays PROVE j >= k
      <3>1. n - j <= n - k
        BY <2>2, <2>3
      <3>2. k \in 1 .. n /\ j \in 1 .. n
        OBVIOUS
      <3> HIDE DEF stays
      <3> QED
        BY <3>1, <3>2
    <2>5. stays \subseteq 1 .. n
      OBVIOUS
    <2>6. m \in stays /\ \A k \in stays : m >= k
      <3> HIDE DEF stays
      <3> QED
        BY <1>4, <2>4 DEF Max
    <2>7. m \in 1 .. n
      BY <2>5, <2>6
    <2> HIDE DEF m
    <2>8. \A k \in 1 .. n : k \in stays <=> time < l[k].time
      OBVIOUS
    <2> HIDE DEF stays
    <2>9. \A k \in 1 .. n : k <= m <=> k \in stays
      BY <1>2, <2>6, <2>7
    <2> QED
      BY <2>7, <2>8, <2>9 DEF m, stays
  <1> QED
    BY <1>3, <1>4

\* The insertion sort keeps its list in order: the new element has the greatest ID so
\* far, and goes before all that were changed at its time.
LEMMA InsertKeepsOrder ==
  ASSUME NEW table \in Seq(Nat), NEW n \in 0 .. Len(table) - 1, NEW l, InOrder(l, table, n)
  PROVE  InOrder(Insert(l, [id |-> n + 1, time |-> table[n + 1]]), table, n + 1)
  <1> DEFINE a == [id |-> n + 1, time |-> table[n + 1]]
             stays == Stays(l, n, table[n + 1])
             m == Place(l, n, table[n + 1])
             t == InsertAt(l, m + 1, a)
  <1>1. /\ n \in Nat /\ table[n + 1] \in Nat
        /\ l \in Seq(Row) /\ Len(l) = n /\ DOMAIN l = 1 .. n
        /\ a \in Row /\ a.id = n + 1 /\ a.time = table[n + 1]
    <2>1. n \in Nat /\ table[n + 1] \in Nat
      OBVIOUS
    <2>2. a \in Row /\ a.id = n + 1 /\ a.time = table[n + 1]
      BY <2>1 DEF Row
    <2> HIDE DEF a
    <2> QED
      BY <2>1, <2>2, RowsTyped
  <1>2. m \in 0 .. n /\ \A j \in 1 .. n : j <= m <=> table[n + 1] < l[j].time
    BY <1>1, StaysPrefix
  <1>3. Insert(l, a) = t
    <2>1. {j \in DOMAIN l : ~Less(a, l[j])} = stays
      BY <1>1 DEF Less, Stays
    <2> QED
      BY <2>1 DEF Insert, Place
  <1> HIDE DEF a, m, stays
  <1>4. /\ t \in Seq(Row) /\ Len(t) = n + 1 /\ t[m + 1] = a
        /\ \A i \in 1 .. m : t[i] = l[i]
        /\ \A i \in m + 2 .. n + 1 : t[i] = l[i - 1]
    <2>1. m \in 0 .. Len(l) /\ l \in Seq(Row) /\ a \in Row
      BY <1>1, <1>2
    <2>2. Inserted(t, Row, l, m, a)
      BY <2>1, InsertedElements
    <2> HIDE DEF t
    <2> QED
      BY <1>1, <2>2 DEF Inserted
  <1> HIDE DEF t
  <1>5. \A i \in 1 .. n + 1 : i \in 1 .. m \/ i = m + 1 \/ (i \in m + 2 .. n + 1 /\ i - 1 \in 1 .. n)
    BY <1>1, <1>2
  <1>6. /\ \A i \in 1 .. n : l[i].id \in 1 .. n /\ l[i].time = table[l[i].id] /\ l[i].time \in Nat
        /\ \A k \in 1 .. n : \E i \in 1 .. n : l[i].id = k
        /\ \A i, j \in 1 .. n : i < j => Ahead(l[i], l[j])
    <2>1. /\ \A i \in 1 .. n : l[i].id \in 1 .. n /\ l[i].time = table[l[i].id]
          /\ \A k \in 1 .. n : \E i \in 1 .. n : l[i].id = k
          /\ \A i, j \in 1 .. n : i < j => Ahead(l[i], l[j])
      BY DEF InOrder
    <2>2. \A i \in 1 .. n : l[i].time \in Nat
      BY RowsTyped
    <2> QED
      BY <2>1, <2>2
  <1>7. ASSUME NEW i \in 1 .. n + 1 PROVE t[i].id \in 1 .. n + 1 /\ t[i].time = table[t[i].id]
    <2>0. \A x \in 1 .. n : x \in 1 .. n + 1
      OBVIOUS
    <2>1. CASE i = m + 1
      BY <1>1, <1>4, <2>1
    <2>2. CASE i \in 1 .. m
      <3>1. i \in 1 .. n
        BY <1>1, <1>2, <2>2
      <3>2. l[i].id \in 1 .. n + 1 /\ l[i].time = table[l[i].id]
        BY <1>6, <2>0, <3>1
      <3> QED
        BY <1>4, <2>2, <3>2
    <2>3. CASE i \in m + 2 .. n + 1 /\ i - 1 \in 1 .. n
      <3>1. l[i - 1].id \in 1 .. n + 1 /\ l[i - 1].time = table[l[i - 1].id]
        BY <1>6, <2>0, <2>3
      <3> QED
        BY <1>4, <2>3, <3>1
    <2> QED
      BY <1>5, <2>1, <2>2, <2>3
  <1>8. ASSUME NEW k \in 1 .. n + 1 PROVE \E i \in 1 .. n + 1 : t[i].id = k
    <2>1. CASE k = n + 1
      <3>1. m + 1 \in 1 .. n + 1
        BY <1>1, <1>2
      <3> QED
        BY <1>1, <1>4, <2>1, <3>1
    <2>2. CASE k # n + 1
      <3>1. k \in 1 .. n
        BY <1>1, <2>2
      <3>2. PICK i \in 1 .. n : l[i].id = k
        BY <1>6, <3>1
      <3>3. CASE i <= m
        <4>1. i \in 1 .. m /\ i \in 1 .. n + 1
          BY <1>1, <1>2, <3>3
        <4> QED
          BY <1>4, <3>2, <4>1
      <3>4. CASE ~ (i <= m)
        <4>1. i + 1 \in m + 2 .. n + 1 /\ i + 1 \in 1 .. n + 1 /\ (i + 1) - 1 = i
          BY <1>1, <1>2, <3>4
        <4>2. t[i + 1] = l[i]
          BY <1>4, <4>1
        <4> QED
          BY <3>2, <4>1, <4>2
      <3> QED
        BY <3>3, <3>4
    <2> QED
      BY <2>1, <2>2
  <1>9. ASSUME NEW i \in 1 .. n + 1, NEW j \in 1 .. n + 1, i < j PROVE Ahead(t[i], t[j])
    <2>1. CASE j \in 1 .. m
      <3>1. i \in 1 .. m /\ i \in 1 .. n /\ j \in 1 .. n
        BY <1>1, <1>2, <1>9, <2>1
      <3> QED
        BY <1>4, <1>6, <1>9, <2>1, <3>1
    <2>2. CASE j = m + 1
      <3>1. i \in 1 .. m /\ i \in 1 .. n /\ i <= m
        BY <1>1, <1>2, <1>9, <2>2
      <3>2. l[i].time > a.time
        BY <1>1, <1>2, <1>6, <3>1
      <3> QED
        BY <1>4, <2>2, <3>1, <3>2 DEF Ahead
    <2>3. CASE j \in m + 2 .. n + 1 /\ j - 1 \in 1 .. n
      <3>1. t[j] = l[j - 1] /\ ~ (j - 1 <= m)
        BY <1>1, <1>2, <1>4, <2>3
      <3>2. CASE i \in 1 .. m
        <4>1. i \in 1 .. n /\ i < j - 1
          <5>1. n \in Nat /\ m \in 0 .. n /\ j \in m + 2 .. n + 1
            BY <1>1, <1>2, <2>3
          <5> QED
            BY <3>2, <5>1
        <4> QED
          BY <1>4, <1>6, <2>3, <3>1, <3>2, <4>1
      <3>3. CASE i = m + 1
        <4>1. l[j - 1].time \in Nat /\ l[j - 1].id \in 1 .. n /\ ~ (table[n + 1] < l[j - 1].time)
          BY <1>2, <1>6, <2>3, <3>1
        <4>2. Ahead(a, l[j - 1])
          <5>1. table[n + 1] \in Nat /\ n \in Nat
            BY <1>1
          <5>2. table[n + 1] > l[j - 1].time \/ table[n + 1] = l[j - 1].time
            BY <4>1, <5>1
          <5>3. n + 1 > l[j - 1].id
            BY <4>1, <5>1
          <5> QED
            BY <1>1, <5>2, <5>3 DEF Ahead
        <4> QED
          BY <1>4, <3>1, <3>3, <4>2
      <3>4. CASE i \in m + 2 .. n + 1 /\ i - 1 \in 1 .. n
        <4>1. i - 1 < j - 1
          BY <1>1, <1>9
        <4>2. Ahead(l[i - 1], l[j - 1])
          BY <1>6, <2>3, <3>4, <4>1
        <4> QED
          BY <1>4, <3>1, <3>4, <4>2
      <3> QED
        BY <1>5, <3>2, <3>3, <3>4
    <2> QED
      BY <1>5, <2>1, <2>2, <2>3
  <1>10. InOrder(t, table, n + 1)
    BY <1>4, <1>7, <1>8, <1>9 DEF InOrder
  <1> QED
    BY <1>3, <1>10 DEF a

\* The insertion sort puts all threads of the table in order: were it not, take the smallest
\* number of threads at which it does not.
LEMMA SortsInOrder ==
  ASSUME NEW table \in Seq(Nat)
  PROVE  InOrder(InsertionSort(ThreadsOf(table)), table, Len(table))
  <1> DEFINE s == ThreadsOf(table)
             n == Len(table)
             f == CHOOSE g : g = [k \in 0 .. Len(s) |-> IF k = 0 THEN <<>> ELSE Insert(g[k - 1], s[k])]
  <1>1. n \in Nat /\ DOMAIN table = 1 .. n
    OBVIOUS
  <1>2. Len(s) = n /\ \A k \in 1 .. n : s[k] = [id |-> k, time |-> table[k]]
    <2>1. s = [i \in 1 .. n |-> [id |-> i, time |-> table[i]]]
      BY <1>1 DEF ThreadsOf
    <2> HIDE DEF s
    <2> QED
      BY <1>1, <2>1
  <1>3. InsertionSort(s) = f[n]
    BY <1>2 DEF InsertionSort
  <1>4. SortedUpTo(s, f, n)
    <2>1. \E g : SortedUpTo(s, g, n)
      BY <1>1, SortDefined
    <2> QED
      BY <1>2, <2>1 DEF SortedUpTo
  <1> HIDE DEF s, f, n
  <1>5. f[0] = <<>> /\ \A k \in 1 .. n : f[k] = Insert(f[k - 1], s[k])
    <2>1. \A k \in 0 .. n : f[k] = IF k = 0 THEN <<>> ELSE Insert(f[k - 1], s[k])
      BY <1>4 DEF SortedUpTo
    <2> QED
      BY <1>1, <2>1
  <1> DEFINE Not == {k \in 0 .. n : ~ InOrder(f[k], table, k)}
  <1>6. ASSUME Not # {} PROVE FALSE
    <2>1. Not \in SUBSET Nat
      BY <1>1
    <2> HIDE DEF Not
    <2>2. PICK k \in Not : \A j \in Not : k <= j
      BY <1>6, <2>1, Smallest
    <2>3. k \in 0 .. n /\ ~ InOrder(f[k], table, k)
      BY <2>2 DEF Not
    <2>4. CASE k = 0
      <3>1. <<>> \in Seq(Row) /\ Len(<<>>) = 0
        OBVIOUS
      <3>2. InOrder(<<>>, table, 0)
        BY <3>1 DEF InOrder
      <3> QED
        BY <1>5, <2>3, <2>4, <3>2
    <2>5. CASE k # 0
      <3>1. k - 1 \in 0 .. Len(table) - 1 /\ k - 1 \in 0 .. n /\ ~ (k <= k - 1) /\ (k - 1) + 1 = k /\ k \in 1 .. n
        BY <1>1, <2>3, <2>5 DEF n
      <3>2. InOrder(f[k - 1], table, k - 1)
        BY <2>2, <3>1 DEF Not
      <3>3. InOrder(Insert(f[k - 1], [id |-> k, time |-> table[k]]), table, k)
        BY <3>1, <3>2, InsertKeepsOrder
      <3> QED
        BY <1>2, <1>5, <2>3, <3>1, <3>3
    <2> QED
      BY <2>4, <2>5
  <1>7. InOrder(f[n], table, n)
    BY <1>1, <1>6
  <1> QED
    BY <1>3, <1>7 DEF s, n

\* In a list in order a thread's place is the number of threads before it.
LEMMA PlacesCounted ==
  ASSUME NEW table \in Seq(Nat), NEW l, InOrder(l, table, Len(table)), NEW i \in DOMAIN l
  PROVE  /\ l[i].time = table[l[i].id]
         /\ Cardinality({k \in DOMAIN table : table[k] > l[i].time \/ (table[k] = l[i].time /\ k > l[i].id)}) = i - 1
  <1> DEFINE n == Len(table)
             B == {k \in DOMAIN table : table[k] > l[i].time \/ (table[k] = l[i].time /\ k > l[i].id)}
             g == [j \in 1 .. i - 1 |-> l[j].id]
  <1>1. n \in Nat /\ DOMAIN table = 1 .. n /\ DOMAIN l = 1 .. n /\ i \in 1 .. n /\ \A k \in 1 .. n : table[k] \in Nat
    BY RowsTyped, Positions
  <1>2. /\ \A j \in 1 .. n : l[j].id \in 1 .. n /\ l[j].time = table[l[j].id]
        /\ \A k \in 1 .. n : \E j \in 1 .. n : l[j].id = k
        /\ \A j, k \in 1 .. n : j < k => Ahead(l[j], l[k])
    BY DEF InOrder
  <1> HIDE DEF n
  <1>3. \A j \in 1 .. i - 1 : j \in 1 .. n /\ j < i
    BY <1>1
  <1>4. \A j \in 1 .. n : l[j].id \in B <=> j < i
    <2>1. \A j \in 1 .. n : l[j].id \in B <=> Ahead(l[j], l[i])
      BY <1>1, <1>2 DEF Ahead
    <2>2. \A j \in 1 .. n : j < i => Ahead(l[j], l[i])
      BY <1>1, <1>2
    <2>3. \A j \in 1 .. n : l[j].id \in Nat /\ l[j].time \in Nat
      BY RowsTyped DEF n
    <2>4. ASSUME NEW j \in 1 .. n, ~ (j < i) PROVE ~ Ahead(l[j], l[i])
      <3>1. CASE j = i
        BY <2>3, <3>1 DEF Ahead
      <3>2. CASE i < j
        <4>1. Ahead(l[i], l[j])
          BY <1>1, <1>2, <3>2
        <4> QED
          BY <1>1, <2>3, <4>1 DEF Ahead
      <3> QED
        BY <1>1, <2>4, <3>1, <3>2
    <2> QED
      BY <2>1, <2>2, <2>4
  <1>5. g \in [1 .. i - 1 -> B]
    BY <1>3, <1>4
  <1>6. \A j, k \in 1 .. i - 1 : g[j] = g[k] => j = k
    <2>1. ASSUME NEW j \in 1 .. i - 1, NEW k \in 1 .. i - 1, j < k PROVE l[j].id # l[k].id
      <3>1. Ahead(l[j], l[k]) /\ j \in 1 .. n /\ k \in 1 .. n
        BY <1>2, <1>3, <2>1
      <3>2. /\ l[j].id \in Nat /\ l[j].time \in Nat /\ l[k].id \in Nat /\ l[k].time \in Nat
            /\ l[j].time = table[l[j].id] /\ l[k].time = table[l[k].id]
        BY <1>2, <3>1, RowsTyped DEF n
      <3> QED
        BY <3>1, <3>2 DEF Ahead
    <2> QED
      BY <2>1
  <1>7. \A k \in B : \E j \in 1 .. i - 1 : g[j] = k
    <2>1. ASSUME NEW k \in B PROVE \E j \in 1 .. i - 1 : l[j].id = k
      <3>1. k \in 1 .. n
        BY <1>1
      <3>2. PICK j \in 1 .. n : l[j].id = k
        BY <1>2, <3>1
      <3>3. j < i
        BY <1>4, <3>2
      <3>4. j \in 1 .. i - 1
        BY <1>1, <3>3
      <3> QED
        BY <3>2, <3>4
    <2> QED
      BY <2>1
  <1> HIDE DEF g, B
  <1>8. ExistsBijection(1 .. i - 1, B)
    BY <1>5, <1>6, <1>7 DEF ExistsBijection, Bijection, Injection, Surjection, IsInjective
  <1>9. Cardinality(B) = i - 1
    <2>1. i - 1 \in Nat
      BY <1>1
    <2> QED
      BY <1>8, <2>1, FS_CountingElements
  <1> QED
    BY <1>1, <1>2, <1>9 DEF B

\* l has each thread of the table once, with its time.
EachOnce(l, table) ==
  /\ Len(l) = Len(table) /\ DOMAIN l = DOMAIN table
  /\ \A i, j \in DOMAIN l : l[i].id = l[j].id => i = j
  /\ \A i \in DOMAIN l : l[i].id \in DOMAIN table /\ l[i].time = table[l[i].id]

\* A list in order does.
LEMMA InOrderOnce ==
  ASSUME NEW table \in Seq(Nat), NEW l, InOrder(l, table, Len(table))
  PROVE  EachOnce(l, table)
  <1> DEFINE n == Len(table)
  <1>1. n \in Nat /\ DOMAIN table = 1 .. n /\ DOMAIN l = 1 .. n /\ Len(l) = n
    BY RowsTyped, Positions
  <1>2. /\ \A j \in 1 .. n : l[j].id \in 1 .. n /\ l[j].time = table[l[j].id]
        /\ \A j, k \in 1 .. n : j < k => Ahead(l[j], l[k])
    BY DEF InOrder
  <1>3. \A j \in 1 .. n : l[j].id \in Nat /\ l[j].time \in Nat
    BY RowsTyped
  <1> HIDE DEF n
  <1>4. ASSUME NEW j \in 1 .. n, NEW k \in 1 .. n, j < k PROVE l[j].id # l[k].id
    <2>1. Ahead(l[j], l[k])
      BY <1>2, <1>4
    <2>2. l[j].time = table[l[j].id] /\ l[k].time = table[l[k].id]
      BY <1>2
    <2> QED
      BY <1>3, <2>1, <2>2 DEF Ahead
  <1>5. \A j, k \in 1 .. n : l[j].id = l[k].id => j = k
    BY <1>1, <1>4
  <1> QED
    BY <1>1, <1>2, <1>5 DEF EachOnce, n

\* So does one that is swapped about.
LEMMA SwappedOnce ==
  ASSUME NEW table \in Seq(Nat), NEW l \in Swapped(ThreadsOf(table))
  PROVE  EachOnce(l, table)
  <1> DEFINE n == Len(table)
             s == ThreadsOf(table)
  <1>1. n \in Nat /\ DOMAIN table = 1 .. n
    OBVIOUS
  <1>2. s = [i \in 1 .. n |-> [id |-> i, time |-> table[i]]]
    BY <1>1 DEF ThreadsOf
  <1> HIDE DEF s
  <1>3. DOMAIN s = 1 .. n /\ \A k \in 1 .. n : s[k].id = k /\ s[k].time = table[k]
    BY <1>2
  <1>4. PICK at \in [1 .. n -> 1 .. n] :
          /\ \A i, j \in 1 .. n : at[i] = at[j] => i = j
          /\ l = [i \in 1 .. n |-> s[at[i]]]
    <2> DEFINE F(at) == [i \in DOMAIN s |-> s[at[i]]]
               G == {g \in [DOMAIN s -> DOMAIN s] : \A i, j \in DOMAIN s : g[i] = g[j] => i = j}
    <2>1. l \in {F(at) : at \in G}
      BY DEF Swapped, s
    <2> HIDE DEF F, G
    <2>2. PICK at \in G : l = F(at)
      BY <2>1
    <2>3. at \in [1 .. n -> 1 .. n] /\ \A i, j \in 1 .. n : at[i] = at[j] => i = j
      BY <1>3 DEF G
    <2>4. l = [i \in 1 .. n |-> s[at[i]]]
      BY <1>3, <2>2 DEF F
    <2> QED
      BY <2>3, <2>4
  <1>5. DOMAIN l = 1 .. n /\ \A i \in 1 .. n : l[i].id = at[i] /\ l[i].time = table[at[i]]
    BY <1>3, <1>4
  <1>6. Len(l) = n
    BY <1>1, <1>4
  <1> QED
    BY <1>1, <1>4, <1>5, <1>6 DEF EachOnce

-----------------------------------------------------------------------------
(***************************************************************************)
(* What the handlers show.                                                 *)
(***************************************************************************)
\* What a handler read are times, and its list is one that the sort may make of them.
Sorted(r) ==
  /\ pc[r] # "idle" => seen[r].table \in Seq(Nat)
  /\ pc[r] = "render" => list[r] \in SortThreads(ThreadsOf(seen[r].table))

ListInv == DOMAIN list = Readers /\ \A r \in Readers : Sorted(r)

LEMMA ListStep == IndInv /\ ListInv /\ [Next]_vars => ListInv'
  <1> SUFFICES ASSUME IndInv, ListInv, [Next]_vars PROVE ListInv'
    OBVIOUS
  <1>1. CASE \E r \in Readers : BeginView(r) \/ EndView(r) \/ GetThreadsForSubforum(r) \/ Respond(r)
    <2>1. PICK r \in Readers : BeginView(r) \/ EndView(r) \/ GetThreadsForSubforum(r) \/ Respond(r)
      BY <1>1
    <2>2. DOMAIN pc = Readers /\ DOMAIN seen = Readers /\ DOMAIN list = Readers
      BY DEF IndInv, TypesOK, ListInv
    <2>3. CASE BeginView(r)
      <3>1. /\ pc' = [pc EXCEPT ![r] = "view"] /\ list' = list
            /\ seen' = [seen EXCEPT ![r] = [page |-> meta.threads, map |-> map, table |-> Threads]]
        BY <2>3 DEF BeginView
      <3>2. Threads \in Seq(Nat)
        BY DEF IndInv, TypesOK, PagesApart, Content, Threads
      <3>3. ASSUME NEW q \in Readers PROVE Sorted(q)'
        BY <2>2, <3>1, <3>2 DEF ListInv, Sorted
      <3> QED
        BY <2>2, <3>1, <3>3 DEF ListInv
    <2>4. CASE GetThreadsForSubforum(r)
      <3>1. /\ pc[r] = "view" /\ pc' = [pc EXCEPT ![r] = "render"] /\ seen' = seen
            /\ \E sorted \in SortThreads(ThreadsOf(Table(seen[r].page))) : list' = [list EXCEPT ![r] = sorted]
        BY <2>4 DEF GetThreadsForSubforum
      <3>2. Table(seen[r].page) = seen[r].table
        <4>1. page[seen[r].page] = seen[r].table
          BY <3>1 DEF IndInv, SnapshotIsKept, StillThere
        <4>2. seen[r].table # Nil
          BY <3>1, TablesAssumption DEF ListInv, Sorted
        <4> QED
          BY <4>1, <4>2 DEF Table
      <3>3. PICK sorted \in SortThreads(ThreadsOf(seen[r].table)) : list' = [list EXCEPT ![r] = sorted]
        BY <3>1, <3>2
      <3>4. ASSUME NEW q \in Readers PROVE Sorted(q)'
        BY <2>2, <3>1, <3>3 DEF ListInv, Sorted
      <3> QED
        BY <2>2, <3>3, <3>4 DEF ListInv
    <2>5. CASE EndView(r) \/ Respond(r)
      <3>1. /\ pc' = [pc EXCEPT ![r] = "idle"] /\ seen' = [seen EXCEPT ![r] = NotSeen]
            /\ list' = [list EXCEPT ![r] = <<>>]
        BY <2>5 DEF EndView, Respond, Finish
      <3>2. ASSUME NEW q \in Readers PROVE Sorted(q)'
        BY <2>2, <3>1 DEF ListInv, Sorted
      <3> QED
        BY <2>2, <3>1, <3>2 DEF ListInv
    <2> QED
      BY <2>1, <2>3, <2>4, <2>5
  <1>2. CASE UNCHANGED <<pc, seen, list>>
    BY <1>2 DEF ListInv, Sorted
  <1> QED
    BY <1>1, <1>2 DEF Next, vars, calls, OnNewPost, OnNewThread, OtherUpdate, Counted

\* What the sort makes of any table.
LEMMA SortShows ==
  ASSUME NEW table \in Seq(Nat), NEW l \in SortThreads(ThreadsOf(table))
  PROVE  ShowsNewestFirst(table, l)
  <1>1. Len(ThreadsOf(table)) = Len(table)
    BY DEF ThreadsOf
  <1>2. CASE Len(table) <= InsertionMax
    <2>1. InOrder(l, table, Len(table))
      BY <1>1, <1>2, SortsInOrder DEF SortThreads
    <2>2. EachOnce(l, table)
      BY <2>1, InOrderOnce
    <2>3. \A i \in DOMAIN l :
            Cardinality({k \in DOMAIN table :
               table[k] > l[i].time \/ (table[k] = l[i].time /\ k > l[i].id)}) = i - 1
      BY <2>1, PlacesCounted
    <2> QED
      BY <2>2, <2>3 DEF EachOnce, ShowsNewestFirst
  <1>3. CASE ~ (Len(table) <= InsertionMax)
    <2>1. EachOnce(l, table)
      BY <1>1, <1>3, SwappedOnce DEF SortThreads
    <2> QED
      BY <1>3, <2>1 DEF EachOnce, ShowsNewestFirst
  <1> QED
    BY <1>2, <1>3

\* The list that a handler shows has each thread of its snapshot once, however many
\* there are and whatever their times; and the one changed last first, where they are no
\* more than sort.Sort sorts by insertion.
THEOREM Order == Spec => []NewestFirst
  <1>1. Init => ListInv
    BY DEF Init, ListInv, Sorted
  <1>2. SamplesSorted
    BY SortShows, TablesAssumption DEF SamplesSorted
  <1>3. ListInv => NewestFirst
    BY <1>2, SortShows DEF ListInv, Sorted, NewestFirst
  <1> QED
    BY <1>1, <1>3, ListStep, Inductive, PTL DEF Spec
=============================================================================
