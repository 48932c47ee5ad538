--------------------------- MODULE SubforumIndex ---------------------------
(***************************************************************************)
(* The list of a subforum's threads: subforumIndex.go, with the order that *)
(* threads.go defines.  The handler reads the threads in one transaction,  *)
(* sorts them and writes the page after it.  It has copied the times; IDs  *)
(* and titles are slices of the database's pages to the end.  ViewThread   *)
(* keeps the IDs of the posts, and a login the hash of the password, in    *)
(* the same way.                                                           *)
(*                                                                         *)
(* A table is what a page holds of the subforum: when each of its threads  *)
(* was last changed, in the order in which they were opened.               *)
(***************************************************************************)
EXTENDS Bolt, SequencesExt

CONSTANTS
  Tables,       \* what the subforum may hold at first
  Samples,      \* tables on which the sort alone is looked at
  InsertionMax, \* the longest list that sort.Sort sorts by insertion: 12
  MaxThreads    \* bound: threads in the subforum

ASSUME TablesAssumption ==
  /\ Tables \subseteq Seq(Nat) /\ Samples \subseteq Seq(Nat) /\ MaxThreads \in Nat /\ InsertionMax \in Nat
  /\ \A table \in Tables : Len(table) <= MaxThreads
  /\ Nil \notin Seq(Nat)

VARIABLES
  pc,     \* where each handler is
  seen,   \* the page it read, the map it was in, and what was there
  list,   \* threads: [id, time], as sorted
  since   \* history: write transactions that have written to pages since the read began,
          \* and had not committed when it did; 2: or more

calls == <<pc, seen, list, since>>
vars  == <<bolt, calls>>

NotSeen == [page |-> 0, map |-> 0, table |-> <<>>]

TypeOK ==
  /\ \A p \in 1 .. Pages : page[p] = Nil \/ (page[p] \in Seq(Nat) /\ Len(page[p]) <= MaxThreads)
  /\ meta.tx \in 1 .. MaxTx /\ meta.threads # meta.rest /\ Threads # Nil
  /\ {meta.threads, meta.rest} \cup free \cup {d.page : d \in pending} \subseteq 1 .. high
  /\ {meta.threads, meta.rest} \cap (free \cup {d.page : d \in pending}) = {}
  /\ high \in 2 .. Pages /\ map \in 1 .. 2 /\ update \in Phase
  /\ \A r \in Readers : snap[r] # Nil => pc[r] = "view" /\ snap[r] \in 1 .. meta.tx
  /\ pc \in [Readers -> {"idle", "view", "render"}]
  /\ since \in [Readers -> 0 .. 2]

Init ==
  /\ \E table \in Tables : BoltInit(table)
  /\ pc = [r \in Readers |-> "idle"] /\ seen = [r \in Readers |-> NotSeen]
  /\ list = [r \in Readers |-> <<>>] /\ since = [r \in Readers |-> 0]
-----------------------------------------------------------------------------
(***************************************************************************)
(* SubforumThreads, sorted by sort.Sort.  Up to twelve elements that is    *)
(* the insertion sort, which moves an element down past each one it is     *)
(* Less than.  Beyond, it takes turns with other sorts, which the library  *)
(* promises a result of if Less is strict, as it is not: all that is known *)
(* then is that the elements are swapped with each other.                  *)
(***************************************************************************)
\* A slip: the oldest comes first.
Less_Oldest(a, b) == a.time <= b.time

Less(a, b) == ~(a.time < b.time)

Insert(sorted, a) ==
  LET stays == {j \in DOMAIN sorted : ~Less(a, sorted[j])}
      n == IF stays = {} THEN 0 ELSE Max(stays)
  IN  InsertAt(sorted, n + 1, a)

InsertionSort(s) ==
  LET sorted[n \in 0 .. Len(s)] == IF n = 0 THEN <<>> ELSE Insert(sorted[n - 1], s[n])
  IN  sorted[Len(s)]

Swapped(s) ==
  {[i \in DOMAIN s |-> s[at[i]]] :
     at \in {f \in [DOMAIN s -> DOMAIN s] : \A i, j \in DOMAIN s : f[i] = f[j] => i = j}}

\* What sort.Sort may make of s.
SortThreads(s) == IF Len(s) <= InsertionMax THEN {InsertionSort(s)} ELSE Swapped(s)

\* What a page says; one that holds no threads (and SnapshotIsKept says that none such
\* is read) would show as none.
Table(p) == IF page[p] = Nil THEN <<>> ELSE page[p]

\* The threads of a table, by the order of their IDs in the subforum's bucket.
ThreadsOf(table) == [i \in DOMAIN table |-> [id |-> i, time |-> table[i]]]
-----------------------------------------------------------------------------
(***************************************************************************)
(* The handler, and other transactions.                                    *)
(***************************************************************************)
\* db.View: reads at the last commit.
BeginView(r) ==
  /\ pc[r] = "idle" /\ pc' = [pc EXCEPT ![r] = "view"]
  /\ snap' = [snap EXCEPT ![r] = meta.tx]
  /\ seen' = [seen EXCEPT ![r] = [page |-> meta.threads, map |-> map, table |-> Threads]]
  /\ since' = [since EXCEPT ![r] = IF update = "written" THEN 1 ELSE 0]
  /\ UNCHANGED <<page, meta, free, pending, made, high, map, update, dirty, list>>

Finish(r) ==
  /\ pc' = [pc EXCEPT ![r] = "idle"] /\ seen' = [seen EXCEPT ![r] = NotSeen]
  /\ list' = [list EXCEPT ![r] = <<>>]

\* The end of the transaction and the sort.
GetThreadsForSubforum(r) ==
  /\ pc[r] = "view" /\ pc' = [pc EXCEPT ![r] = "render"]
  /\ snap' = [snap EXCEPT ![r] = Nil]
  /\ \E sorted \in SortThreads(ThreadsOf(Table(seen[r].page))) : list' = [list EXCEPT ![r] = sorted]
  /\ UNCHANGED <<page, meta, free, pending, made, high, map, update, dirty, seen, since>>

\* A transaction that keeps nothing: the backup's, which may be a long one.
EndView(r) ==
  /\ pc[r] = "view" /\ Finish(r) /\ snap' = [snap EXCEPT ![r] = Nil]
  /\ UNCHANGED <<page, meta, free, pending, made, high, map, update, dirty, since>>

\* The rows are rendered, one after the other; the models look at what the slices say at
\* any time up to here.
Respond(r) == pc[r] = "render" /\ Finish(r) /\ UNCHANGED <<bolt, since>>

\* The time of a change: the clock does not go back, and may stand still.
Times == LET last == Max({0} \cup Range(Threads)) IN {last, last + 1}

OnNewPost ==
  \E i \in DOMAIN Threads, now \in Times : Spill([Threads EXCEPT ![i] = now]) /\ UNCHANGED calls

OnNewThread ==
  \E now \in Times : Len(Threads) < MaxThreads /\ Spill(Append(Threads, now)) /\ UNCHANGED calls

\* Logins, reports, console commands: other buckets.
OtherUpdate == Spill(Threads) /\ UNCHANGED calls

\* Every reader under way sees one more write transaction write to pages.
Counted ==
  /\ since' = [r \in Readers |-> IF pc[r] = "idle" \/ since[r] = 2 THEN since[r] ELSE since[r] + 1]
  /\ UNCHANGED <<pc, seen, list>>

Next ==
  \/ \E r \in Readers : \/ BeginView(r) \/ EndView(r) \/ GetThreadsForSubforum(r)
                        \/ Respond(r)
  \/ OnNewPost \/ OnNewThread \/ OtherUpdate
  \/ (BeginUpdate \/ Rollback \/ WriteMeta \/ CommitFails \/ Close) /\ UNCHANGED calls
  \/ (Write \/ WriteFails) /\ Counted

Spec == Init /\ [][Next]_vars
-----------------------------------------------------------------------------
(***************************************************************************)
(* Properties.                                                             *)
(***************************************************************************)
\* The slices still say what was read: the map is that of the time, and so is what
\* the page holds.  (Where they do not, a row may by chance come out the same.)
StillThere(r) == seen[r].map = map /\ page[seen[r].page] = seen[r].table

\* While its transaction is open, a handler reads what was committed when it began,
\* whatever is committed, fails or is freed meanwhile, however the transactions
\* of several readers overlap.
SnapshotIsKept == \A r \in Readers : pc[r] = "view" => StillThere(r)

\* Afterwards it renders what it read, though it holds slices only, until a second
\* write transaction not committed when it began to read writes to its pages (before
\* that transaction ends, and whether or not it is to fail), or the file is mapped
\* anew: the first of two keeps the page it replaces for the second to take.
RowsAreThoseRead ==
  \A r \in Readers : pc[r] = "render" =>
    StillThere(r) \/ since[r] = 2 \/ map # seen[r].map

\* l has each thread of the table once, with its time.  If they are no more than are
\* sorted by insertion, it has the one changed last first, and of those changed at
\* one instant the one opened last, for Less holds both ways between them: a thread's
\* place is the number of threads before it.
ShowsNewestFirst(table, l) ==
  LET Before(a) == {k \in DOMAIN table : table[k] > a.time \/ (table[k] = a.time /\ k > a.id)} IN
  /\ Len(l) = Len(table)
  /\ \A i, j \in DOMAIN l : l[i].id = l[j].id => i = j
  /\ \A i \in DOMAIN l :
       /\ l[i].id \in DOMAIN table /\ l[i].time = table[l[i].id]
       /\ Len(table) <= InsertionMax => Cardinality(Before(l[i])) = i - 1

SamplesSorted ==
  \A table \in Samples : \A l \in SortThreads(ThreadsOf(table)) : ShowsNewestFirst(table, l)

\* A handler's list is that of the table it read, whatever is committed meanwhile; and
\* so is what the sort makes of any of the samples.
NewestFirst ==
  /\ \A r \in Readers : pc[r] = "render" => ShowsNewestFirst(seen[r].table, list[r])
  /\ SamplesSorted
=============================================================================
