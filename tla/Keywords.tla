------------------------------ MODULE Keywords ------------------------------
(***************************************************************************)
(* The keyword index as searchkey.go starts, fills and feeds it.  A post   *)
(* is its ID here.  initKeyword makes the channel and starts a loop each   *)
(* time it is called, and calls itself where there is no index directory;  *)
(* the loops read the variable keywordDBchan, not the channel they were    *)
(* started for, and nothing orders that read and the second assignment.    *)
(***************************************************************************)
EXTENDS Naturals, Sequences, FiniteSets

CONSTANTS
  QueueCap,       \* capacity of keywordDBchan (64 in the code)
  IndexMayFail    \* index.Index may return an error, which nobody looks at

ASSUME KeywordsAssumption == QueueCap \in Nat \ {0} /\ IndexMayFail \in BOOLEAN

VARIABLES
  dir,          \* file: the index directory is there
  indexed,      \* file: IDs of the posts in the index
  repopulate,   \* repopulateKeywordDB
  chans,        \* channels made since the start; the last is keywordDBchan
  loops,        \* loops started since: the channel each waits on, 0 before it
                \* has read the variable, and the message in its hand, 0 if none
  missed        \* history: posts that index.Index returned an error for, and
                \* posts that a stop kept from the index: their message was in
                \* memory, or the filling had not come to them

files    == <<dir, indexed, missed>>
memory   == <<repopulate, chans, loops>>
keywords == <<files, memory>>

RangeOf(s) == {s[i] : i \in DOMAIN s}

KeywordsTypeOK(ids) ==
  /\ dir \in BOOLEAN /\ repopulate \in BOOLEAN
  /\ indexed \subseteq ids /\ missed \subseteq ids
  /\ Len(chans) = Len(loops)
  /\ \A k \in DOMAIN chans : chans[k] \in Seq(ids) /\ Len(chans[k]) <= QueueCap
  /\ \A l \in DOMAIN loops : loops[l].chan \in 0 .. Len(chans) /\ loops[l].hand \in ids \cup {0}

\* Sent and not yet indexed: in some channel, or in the hand of a loop.
Underway ==
  (UNION {RangeOf(chans[k]) : k \in DOMAIN chans}) \cup ({loops[l].hand : l \in DOMAIN loops} \ {0})

KeywordsInit ==
  /\ dir = FALSE /\ indexed = {} /\ missed = {}
  /\ repopulate = FALSE /\ chans = <<>> /\ loops = <<>>
-----------------------------------------------------------------------------
\* A slip: only the first call starts a loop.
MakeChannel_OneLoop ==
  /\ chans' = Append(chans, <<>>)
  /\ loops' = IF loops = <<>> THEN <<[chan |-> 0, hand |-> 0]>> ELSE loops

\* The head of initKeyword, on every call.
MakeChannel ==
  /\ chans' = Append(chans, <<>>)
  /\ loops' = Append(loops, [chan |-> 0, hand |-> 0])

\* bleve.New, to be filled; its error where the directory is there ends main.
NewIndex ==
  /\ repopulate /\ ~dir
  /\ dir' = TRUE /\ indexed' = {} /\ missed' = {}
  /\ MakeChannel /\ UNCHANGED repopulate

\* bleve.Open: whatever is there is taken for complete.
OpenIndex == ~repopulate /\ dir /\ MakeChannel /\ UNCHANGED <<files, repopulate>>

\* No directory: initKeyword once more, with the flag set.
Recurse == ~repopulate /\ ~dir /\ MakeChannel /\ repopulate' = TRUE /\ UNCHANGED files

\* index.Index, with its error ignored.
Index(i) ==
  \/ indexed' = indexed \cup {i} /\ missed' = missed \ {i}
  \/ IndexMayFail /\ missed' = (missed \cup {i}) \ indexed /\ UNCHANGED indexed

\* The cursor over bucket posts, n being the last post.
FillNext(n) ==
  \E i \in 1 .. n \ (indexed \cup missed) :
    /\ 1 .. i - 1 \subseteq indexed \cup missed
    /\ Index(i) /\ UNCHANGED <<dir, memory>>

FillEnds(n) == 1 .. n \subseteq indexed \cup missed /\ UNCHANGED keywords
-----------------------------------------------------------------------------
\* A slip: a message is dropped when the channel is full.
Send_DropWhenFull(i) ==
  LET k == Len(chans) IN
  /\ chans' = IF Len(chans[k]) < QueueCap THEN [chans EXCEPT ![k] = Append(@, i)] ELSE chans
  /\ UNCHANGED <<files, repopulate, loops>>

\* sendPostToKeywordDB: blocks while the channel is full.
Send(i) ==
  LET k == Len(chans) IN
  /\ k # 0 /\ Len(chans[k]) < QueueCap
  /\ chans' = [chans EXCEPT ![k] = Append(@, i)]
  /\ UNCHANGED <<files, repopulate, loops>>

\* The l-th loop was started after the l-th channel was made; it may read the
\* variable before or after a later assignment.
Channels(l) == l .. Len(chans)

Evaluate(l) ==
  /\ loops[l] = [chan |-> 0, hand |-> 0]
  /\ \E k \in Channels(l) : loops' = [loops EXCEPT ![l].chan = k]
  /\ UNCHANGED <<files, repopulate, chans>>

Receive(l) ==
  LET k == loops[l].chan IN
  /\ k # 0 /\ chans[k] # <<>>
  /\ loops' = [loops EXCEPT ![l] = [chan |-> 0, hand |-> Head(chans[k])]]
  /\ chans' = [chans EXCEPT ![k] = Tail(@)]
  /\ UNCHANGED <<files, repopulate>>

\* The loop then reads the variable again.
IndexHand(l) ==
  /\ loops[l].hand # 0 /\ Index(loops[l].hand)
  /\ \E k \in Channels(l) : loops' = [loops EXCEPT ![l] = [chan |-> k, hand |-> 0]]
  /\ UNCHANGED <<dir, repopulate, chans>>

KeywordDBLoop(l) == Evaluate(l) \/ Receive(l) \/ IndexHand(l)

\* The process ends, with n posts stored: channels and loops are gone.
Forget(n, filling) ==
  /\ repopulate' = FALSE /\ chans' = <<>> /\ loops' = <<>>
  /\ missed' = missed \cup ((IF filling THEN 1 .. n ELSE Underway \cap 1 .. n) \ indexed)
  /\ UNCHANGED <<dir, indexed>>

\* The operator follows the advice of initKeyword's error: "Please remove this
\* directory and try again."
RemoveDirectory ==
  /\ dir /\ dir' = FALSE /\ indexed' = {} /\ missed' = {}
  /\ UNCHANGED memory
=============================================================================
