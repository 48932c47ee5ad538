-------------------------------- MODULE Bolt --------------------------------
(***************************************************************************)
(* The pages of a bbolt database, from how the server uses it: what a read *)
(* transaction returns are slices of the memory map, good while it lasts.  *)
(*                                                                         *)
(* A commit takes pages that are free, or new, writes to them what it      *)
(* changes, then the meta page that makes them the database, and ends; the *)
(* pages it replaces are pending, and the next write transaction frees,    *)
(* when it begins, those that no open read transaction can see.  The map   *)
(* shows what is written at once, whether the commit has ended or not.     *)
(* Two pages are told apart here: the one with the threads, and one that   *)
(* stands for those that every commit replaces (the page of the root       *)
(* bucket, the list of free pages).                                        *)
(***************************************************************************)
EXTENDS Naturals, Sequences, FiniteSets

CONSTANTS
  Readers,    \* goroutines with a read transaction
  Pages,      \* page numbers; a bound on the file
  Mapped,     \* pages the first memory map holds
  MayFail,    \* a commit may return an error
  MaxTx,      \* bound: number of the last write transaction
  Nil

ASSUME BoltAssumption ==
  /\ Pages \in Nat /\ Mapped \in 2 .. Pages /\ MaxTx \in Nat \ {0} /\ MayFail \in BOOLEAN
  /\ Nil \notin Nat

VARIABLES
  page,      \* what each page holds: a table of threads, or Nil for all else
  meta,      \* last commit: its number, the page of the threads, the other page
  free,      \* pages the writer may take
  pending,   \* pages replaced: by whom they were made, and replaced
  made,      \* which transaction took each page from the free ones; 0: it was new
  high,      \* the file's last page
  map,       \* the memory map is the first one, or, the file having grown, another
  update,    \* how far the write transaction is, if there is one
  dirty,     \* what it is to write, and where
  snap       \* the number each open read transaction reads at, or Nil

bolt == <<page, meta, free, pending, made, high, map, update, dirty, snap>>

\* An update runs its function, spills its changes to dirty pages, has written them,
\* and has written the meta page.
Phase == {"none", "open", "spilled", "written", "ending"}
Clean == [table |-> Nil, taken |-> {}, threads |-> 0, rest |-> 0]

BoltInit(table) ==
  /\ page = [p \in 1 .. Pages |-> IF p = 1 THEN table ELSE Nil]
  /\ meta = [tx |-> 1, threads |-> 1, rest |-> 2]
  /\ free = {} /\ pending = {} /\ made = [p \in 1 .. Pages |-> 0]
  /\ high = 2 /\ map = 1 /\ update = "none" /\ dirty = Clean /\ snap = [r \in Readers |-> Nil]

OpenAt == {snap[r] : r \in Readers} \ {Nil}

\* The table of the last commit.
Threads == page[meta.threads]

\* A slip: what is pending is freed, whoever reads it.
Releasable_All(d) == TRUE

\* freePages: what no open snapshot sees, having been replaced before it, or made
\* after it.
Releasable(d) == \A s \in OpenAt : d.replaced < s \/ d.made > s

BeginUpdate ==
  /\ update = "none" /\ meta.tx < MaxTx /\ update' = "open"
  /\ LET out == {d \in pending : Releasable(d)} IN
     /\ pending' = pending \ out /\ free' = free \cup {d.page : d \in out}
  /\ UNCHANGED <<page, meta, made, high, map, dirty, snap>>

\* The function of the update returns an error, and nothing has been taken.
Rollback ==
  /\ update = "open" /\ update' = "none"
  /\ UNCHANGED <<page, meta, free, pending, made, high, map, dirty, snap>>

\* A slip: the page of the threads counts as free before the commit that replaces it.
Takeable_Early(n) ==
  {T \in SUBSET (free \cup {meta.threads} \cup high + 1 .. Pages) :
     Cardinality(T) = n /\ \A p \in T : high + 1 .. p - 1 \subseteq T}

\* n pages: free ones, or the next beyond the end of the file, for that a page is
\* free does not say that it has the room for what is to be written.
Takeable(n) ==
  {T \in SUBSET (free \cup high + 1 .. Pages) :
     Cardinality(T) = n /\ \A p \in T : high + 1 .. p - 1 \subseteq T}

\* Where the file outgrows the map, the writer waits for every open transaction
\* to end, and maps the file anew.
Grow(T) ==
  /\ map' = IF \A p \in T : p <= Mapped THEN map ELSE 2
  /\ map' # map => OpenAt = {}

\* A slip: the page of the threads is written where it is.
ThreadsPage_InPlace(T, r, same) == meta.threads

\* Where the threads are after a commit that took the pages T, r for the other page.
ThreadsPage(T, r, same) == IF same THEN meta.threads ELSE CHOOSE p \in T : p # r

\* The pages that a commit replaces which leaves table as the threads: that of the
\* threads if it changes, and the other in any case.
Replaced(table) == {meta.rest} \cup (IF table = Threads THEN {} ELSE {meta.threads})

\* The changes are spilled to pages, and a page taken for the list of free pages.
\* What becomes of the lists is told where the meta page is written: none but the
\* writer looks at them, and an error gives back what was taken.
Spill(table) ==
  /\ update = "open" /\ update' = "spilled"
  /\ \E T \in Takeable(Cardinality(Replaced(table))) : \E r \in T :
       /\ Grow(T)
       /\ dirty' = [table |-> table, taken |-> T, rest |-> r,
                    threads |-> ThreadsPage(T, r, table = Threads)]
  /\ UNCHANGED <<page, meta, free, pending, made, high, snap>>

\* The pages once those of W are written.  (The page of the threads is not, where they
\* are the same, and would come out the same.)
Written(W) ==
  [p \in 1 .. Pages |-> IF p \notin W THEN page[p] ELSE IF p = dirty.threads THEN dirty.table ELSE Nil]

\* The dirty pages are written: they may be seen in the map from here on.  One step
\* stands for one page after the other, for those in between show less of it.
Write ==
  /\ update = "spilled" /\ update' = "written"
  /\ page' = Written({dirty.threads, dirty.rest})
  /\ UNCHANGED <<meta, free, pending, made, high, map, dirty, snap>>

\* An error on the way: some pages are written to, and stay free.
WriteFails ==
  /\ MayFail /\ update = "spilled" /\ update' = "none" /\ dirty' = Clean
  /\ \E W \in SUBSET {dirty.threads, dirty.rest} : W # {} /\ page' = Written(W)
  /\ UNCHANGED <<meta, free, pending, made, high, map, snap>>

\* The meta page: who reads from here on reads what was written.
WriteMeta ==
  /\ update = "written" /\ update' = "ending" /\ dirty' = Clean
  /\ free' = free \ dirty.taken
  /\ high' = IF \E p \in dirty.taken : p > high
               THEN CHOOSE p \in dirty.taken : \A q \in dirty.taken : q <= p
               ELSE high
  /\ made' = [p \in 1 .. Pages |-> IF p \in dirty.taken /\ p <= high THEN meta.tx + 1 ELSE made[p]]
  /\ pending' = pending \cup {[page |-> p, made |-> made[p], replaced |-> meta.tx + 1] : p \in Replaced(dirty.table)}
  /\ meta' = [tx |-> meta.tx + 1, threads |-> dirty.threads, rest |-> dirty.rest]
  /\ UNCHANGED <<page, map, snap>>

\* An error before the first page is written, or before the meta page is: nothing is
\* changed, but the map may be.  (That the meta page is written, and an error returned
\* for its not having reached the disk, is left out.)
CommitFails ==
  /\ MayFail /\ update \in {"spilled", "written"} /\ update' = "none" /\ dirty' = Clean
  /\ UNCHANGED <<page, meta, free, pending, made, high, map, snap>>

\* tx.close: the lock of the writer is given back.
Close ==
  /\ update = "ending" /\ update' = "none"
  /\ UNCHANGED <<page, meta, free, pending, made, high, map, dirty, snap>>
=============================================================================
