------------------------------- MODULE Threads -------------------------------
(***************************************************************************)
(* Opening threads and replying to them, from the arrival of a request to  *)
(* the answer, with every database transaction and channel operation a     *)
(* step of its own: threads.go, nudge.go, the moderator commands of        *)
(* console.go that these handlers read the effect of, and the keyword      *)
(* queue of searchkey.go that they feed.                                   *)
(*                                                                         *)
(* A bbolt bucket whose keys come from NextSequence is a sequence: nothing *)
(* in the program deletes from one, so the key of an entry is its position.*)
(* A read transaction sees one committed state, hence one step.  A write   *)
(* transaction holds the database's only writer lock from Begin to Commit; *)
(* its writes are computed at Commit, which no one can tell from computing *)
(* them earlier, as no other writer runs in between.                       *)
(***************************************************************************)
EXTENDS UserPriviledge, Sequences, FiniteSets

CONSTANTS
  Users,            \* names of registered, logged-in users
  Subforums,        \* IDs in Configuration.Forum
  Texts,            \* post bodies
  Requests,         \* goroutines of the server, one per open connection
  Loops,            \* goroutines running keywordDBloop
  Privilege,        \* Configuration.Priviledges, User where it has no entry
  ThreadPrivilege,  \* Subforum.ThreadPriviledge
  ReplyPrivilege,   \* Subforum.ReplyPriviledge
  QueueCap,         \* capacity of keywordDBchan (64 in the code)
  PathIds,          \* thread IDs a reply's path may name; 0: the path has none
  MayCrash,         \* the process may stop or be stopped at any point
  MayFail,          \* a commit may return an error
  IndexMayFail,     \* index.Index may return an error, which no caller looks at
  MaxPosts,         \* bound: posts stored and under way
  Nil

ASSUME ConstantsAssumption ==
  /\ Privilege \in [Users -> Level]
  /\ ThreadPrivilege \in [Subforums -> Level]
  /\ ReplyPrivilege \in [Subforums -> Level]
  /\ QueueCap \in Nat \ {0}
  /\ PathIds \subseteq Nat
  /\ MaxPosts \in Nat
  /\ IsFiniteSet(Loops)
  /\ MayCrash \in BOOLEAN /\ MayFail \in BOOLEAN /\ IndexMayFail \in BOOLEAN
  /\ Nil \notin Users \cup Subforums \cup Texts \cup Requests

VARIABLES
  threads,      \* bucket allthreads, each with its sub-bucket of posts
  posts,        \* bucket posts
  subforums,    \* bucket subforums: thread IDs of each
  threadToSf,   \* bucket threadtosubforum
  userThreads,  \* bucket userthreads: thread IDs of each user
  userPosts,    \* bucket userposts: post IDs of each user
  nudge,        \* bucket users, key postnudge: "1" is TRUE
  muted,        \* bucket users, key muted, as IsUserCurrentlyMuted reads it now
  writer,       \* the request that holds the writer lock across steps, or Nil
  pc,           \* where each request's handler is
  req,          \* what each request asks for
  queue,        \* keywordDBchan
  hand,         \* per loop, the message received and not yet indexed, if any
  index,        \* the keyword index: post ID -> text
  missed,       \* history, no state of the code: the IDs whose last index.Index
                \* on this index returned an error
  server        \* state of the process

db    == <<threads, posts, subforums, threadToSf, userThreads, userPosts>>
flags == <<nudge, muted>>
calls == <<writer, pc, req>>
keys  == <<queue, hand, index, missed>>
vars  == <<db, flags, calls, keys, server>>

Post    == [text: Texts, user: Users, thread: Nat, index: Nat]
Thread  == [user: Users, locked: BOOLEAN, posts: Seq(Nat)]
Message == [id: Nat, text: Texts]
Call    == [kind: {"none", "reply", "thread"}, user: Users \cup {Nil}, thread: Nat,
            sf: Subforums \cup {Nil}, text: Texts \cup {Nil}]
NoCall  == [kind |-> "none", user |-> Nil, thread |-> 0, sf |-> Nil, text |-> Nil]
Label   == {"idle", "lookup", "nudge", "setnudge", "begin", "send", "commit"}

BucketTypes ==
  /\ threads \in Seq(Thread) /\ posts \in Seq(Post)
  /\ subforums \in [Subforums -> Seq(Nat)]
  /\ DOMAIN threadToSf \subseteq Nat /\ \A t \in DOMAIN threadToSf : threadToSf[t] \in Subforums
  /\ userThreads \in [Users -> Seq(Nat)] /\ userPosts \in [Users -> Seq(Nat)]
FlagTypes == nudge \in [Users -> BOOLEAN] /\ muted \in [Users -> BOOLEAN]
CallTypes == writer \in Requests \cup {Nil} /\ pc \in [Requests -> Label] /\ req \in [Requests -> Call]
KeyTypes ==
  /\ queue \in Seq(Message) /\ Len(queue) <= QueueCap
  /\ hand \in [Loops -> Seq(Message)] /\ \A l \in Loops : Len(hand[l]) <= 1
  /\ DOMAIN index \subseteq Nat /\ \A i \in DOMAIN index : index[i] \in Texts
  /\ missed \subseteq Nat
TypeOK ==
  /\ BucketTypes /\ FlagTypes /\ CallTypes /\ KeyTypes
  /\ server \in {"up", "populating", "down", "panicked"}

\* bbolt and bleve: store v under k, over what is there.
Put(f, k, v) == [x \in DOMAIN f \cup {k} |-> IF x = k THEN v ELSE f[x]]

Init ==
  /\ threads = <<>> /\ posts = <<>>
  /\ subforums = [s \in Subforums |-> <<>>] /\ threadToSf = <<>>
  /\ userThreads = [u \in Users |-> <<>>] /\ userPosts = [u \in Users |-> <<>>]
  /\ nudge = [u \in Users |-> TRUE] /\ muted = [u \in Users |-> FALSE]
  /\ writer = Nil /\ pc = [r \in Requests |-> "idle"] /\ req = [r \in Requests |-> NoCall]
  /\ queue = <<>> /\ hand = [l \in Loops |-> <<>>] /\ index = <<>>
  /\ missed = {} /\ server = "up"
-----------------------------------------------------------------------------
(***************************************************************************)
(* The handlers.  An answer that stores no post is Answer: its wording and *)
(* status are left out.  NewPostHandler and CreateThreadHandler read the   *)
(* session and the mute in one transaction when the request arrives; a     *)
(* muted user is turned away there, which changes no state.                *)
(***************************************************************************)
Goto(r, label) == pc' = [pc EXCEPT ![r] = label]
Answer(r) == Goto(r, "idle") /\ req' = [req EXCEPT ![r] = NoCall]

\* Bound on the model: no request arrives that could take posts beyond MaxPosts.
RoomForOneMore == Len(posts) + Cardinality({r \in Requests : pc[r] # "idle"}) < MaxPosts

\* text = Nil stands for a request that brings nothing to store yet: no query.
NewPostHandler(r, u, t, text) ==
  /\ server = "up" /\ pc[r] = "idle" /\ RoomForOneMore /\ ~muted[u]
  /\ Goto(r, "lookup")
  /\ req' = [req EXCEPT ![r] = [kind |-> "reply", user |-> u, thread |-> t, sf |-> Nil, text |-> text]]
  /\ UNCHANGED <<db, flags, writer, keys, server>>

\* sf = Nil: a path without a configured subforum.  text = Nil: no title or text
\* in the request yet, or a title that ValidateThreadTitle refuses.
CreateThreadHandler(r, u, sf, text) ==
  /\ server = "up" /\ pc[r] = "idle" /\ RoomForOneMore /\ ~muted[u]
  /\ Goto(r, "nudge")
  /\ req' = [req EXCEPT ![r] = [kind |-> "thread", user |-> u, thread |-> 0, sf |-> sf, text |-> text]]
  /\ UNCHANGED <<db, flags, writer, keys, server>>

\* The user may reply in the subforum that threadtosubforum gives for the thread.
MayReplyInSubforum(u, t) ==
  t \in DOMAIN threadToSf /\ Is(Privilege[u], ReplyPrivilege[threadToSf[t]])

LookupSubforum(r) ==
  /\ pc[r] = "lookup" /\ req[r].thread # 0
  /\ IF MayReplyInSubforum(req[r].user, req[r].thread)
       THEN Goto(r, "nudge") /\ UNCHANGED req
       ELSE Answer(r)
  /\ UNCHANGED <<db, flags, writer, keys, server>>

\* What is checked between the nudge and the write transaction.
ReadyToStore(q) ==
  /\ q.text # Nil
  /\ q.kind = "thread" => q.sf # Nil /\ Is(Privilege[q.user], ThreadPrivilege[q.sf])

\* A slip: threads are opened without the reminder.
CheckForPostNudge_RepliesOnly(r) ==
  /\ pc[r] = "nudge"
  /\ IF nudge[req[r].user] /\ req[r].kind = "reply" THEN Goto(r, "setnudge") /\ UNCHANGED req
     ELSE IF ReadyToStore(req[r]) THEN Goto(r, "begin") /\ UNCHANGED req
     ELSE Answer(r)
  /\ UNCHANGED <<db, flags, writer, keys, server>>

CheckForPostNudge(r) ==
  /\ pc[r] = "nudge"
  /\ IF nudge[req[r].user] THEN Goto(r, "setnudge") /\ UNCHANGED req
     ELSE IF ReadyToStore(req[r]) THEN Goto(r, "begin") /\ UNCHANGED req
     ELSE Answer(r)
  /\ UNCHANGED <<db, flags, writer, keys, server>>

\* A write transaction of its own; the callers ignore its error and answer with
\* the reminder either way.
UpdateForPostNudge(r) ==
  /\ pc[r] = "setnudge" /\ writer = Nil
  /\ \/ nudge' = [nudge EXCEPT ![req[r].user] = FALSE]
     \/ MayFail /\ UNCHANGED nudge
  /\ Answer(r)
  /\ UNCHANGED <<db, muted, writer, keys, server>>
-----------------------------------------------------------------------------
(***************************************************************************)
(* The write transaction of OnNewPost and OnNewThread.                     *)
(***************************************************************************)
\* A slip: the lock is not looked at.
MayPostInThread_Always(u, t) == t \in DOMAIN threads

MayPostInThread(u, t) ==
  t \in DOMAIN threads /\ (threads[t].locked => Is(Privilege[u], Mod))

\* A slip: the post is made without the lock, in a batch of its own.
BeginUpdate_NoLock(r) ==
  /\ pc[r] = "begin" /\ UNCHANGED writer
  /\ IF req[r].kind = "reply" => MayPostInThread(req[r].user, req[r].thread)
       THEN Goto(r, "send") /\ UNCHANGED req
       ELSE Answer(r)
  /\ UNCHANGED <<db, flags, keys, server>>

\* db.Update takes the lock; OnNewPost then checks the thread, and on an error
\* the transaction is rolled back and the lock released in the same step.
BeginUpdate(r) ==
  /\ pc[r] = "begin" /\ writer = Nil
  /\ IF req[r].kind = "reply" => MayPostInThread(req[r].user, req[r].thread)
       THEN writer' = r /\ Goto(r, "send") /\ UNCHANGED req
       ELSE Answer(r) /\ UNCHANGED writer
  /\ UNCHANGED <<db, flags, keys, server>>

\* Slips: a send that drops the message when the channel is full, one that does
\* not wait for room, and a message that takes an ID of its own from NextSequence.
SendPostToKeywordDB_DropWhenFull(r) ==
  /\ pc[r] = "send"
  /\ queue' = IF Len(queue) < QueueCap THEN Append(queue, [id |-> Len(posts) + 1, text |-> req[r].text]) ELSE queue
  /\ Goto(r, "commit") /\ UNCHANGED <<db, flags, writer, req, hand, index, missed, server>>
SendPostToKeywordDB_NoWait(r) ==
  /\ pc[r] = "send"
  /\ queue' = Append(queue, [id |-> Len(posts) + 1, text |-> req[r].text])
  /\ Goto(r, "commit") /\ UNCHANGED <<db, flags, writer, req, hand, index, missed, server>>
SendPostToKeywordDB_OwnSequence(r) ==
  /\ pc[r] = "send" /\ Len(queue) < QueueCap
  /\ queue' = Append(queue, [id |-> Len(posts) + 2, text |-> req[r].text])
  /\ Goto(r, "commit") /\ UNCHANGED <<db, flags, writer, req, hand, index, missed, server>>

\* AddNewPostToDatabase has drawn the ID; the channel send blocks while it is
\* full, with the writer lock held.
SendPostToKeywordDB(r) ==
  /\ pc[r] = "send" /\ Len(queue) < QueueCap
  /\ queue' = Append(queue, [id |-> Len(posts) + 1, text |-> req[r].text])
  /\ Goto(r, "commit") /\ UNCHANGED <<db, flags, writer, req, hand, index, missed, server>>

\* A slip: the index stays as it was first put.
AddNewPostToDatabase_NoIndex(u, t, text, earlier) ==
  /\ posts' = Append(posts, [text |-> text, user |-> u, thread |-> t, index |-> 0])
  /\ userPosts' = [userPosts EXCEPT ![u] = Append(@, Len(posts) + 1)]

\* earlier: the posts already in the thread.  The caller stores the new ID there.
AddNewPostToDatabase(u, t, text, earlier) ==
  /\ posts' = Append(posts, [text |-> text, user |-> u, thread |-> t, index |-> Len(earlier) + 1])
  /\ userPosts' = [userPosts EXCEPT ![u] = Append(@, Len(posts) + 1)]

OnNewPost(u, t, text) ==
  /\ AddNewPostToDatabase(u, t, text, threads[t].posts)
  /\ threads' = [threads EXCEPT ![t].posts = Append(@, Len(posts) + 1)]
  /\ UNCHANGED <<subforums, threadToSf, userThreads>>

\* Slips: the subforum lists the ID of the post; step 2 of the procedure is left out.
OnNewThread_ListsPost(u, sf, text) ==
  LET t == Len(threads) + 1 IN
  /\ AddNewPostToDatabase(u, t, text, <<>>)
  /\ threads' = Append(threads, [user |-> u, locked |-> FALSE, posts |-> <<Len(posts) + 1>>])
  /\ userThreads' = [userThreads EXCEPT ![u] = Append(@, t)]
  /\ subforums' = [subforums EXCEPT ![sf] = Append(@, Len(posts) + 1)]
  /\ threadToSf' = Put(threadToSf, t, sf)
OnNewThread_NotListed(u, sf, text) ==
  LET t == Len(threads) + 1 IN
  /\ AddNewPostToDatabase(u, t, text, <<>>)
  /\ threads' = Append(threads, [user |-> u, locked |-> FALSE, posts |-> <<Len(posts) + 1>>])
  /\ subforums' = [subforums EXCEPT ![sf] = Append(@, t)]
  /\ threadToSf' = Put(threadToSf, t, sf) /\ UNCHANGED userThreads

OnNewThread(u, sf, text) ==
  LET t == Len(threads) + 1 IN
  /\ AddNewPostToDatabase(u, t, text, <<>>)
  /\ threads' = Append(threads, [user |-> u, locked |-> FALSE, posts |-> <<Len(posts) + 1>>])
  /\ userThreads' = [userThreads EXCEPT ![u] = Append(@, t)]
  /\ subforums' = [subforums EXCEPT ![sf] = Append(@, t)]
  /\ threadToSf' = Put(threadToSf, t, sf)

EndUpdate(r) == pc[r] = "commit" /\ writer' = Nil /\ Answer(r)

CommitPost(r) ==
  /\ req[r].kind = "reply" /\ EndUpdate(r)
  /\ OnNewPost(req[r].user, req[r].thread, req[r].text)
  /\ UNCHANGED <<flags, keys, server>>

CommitThread(r) ==
  /\ req[r].kind = "thread" /\ EndUpdate(r)
  /\ OnNewThread(req[r].user, req[r].sf, req[r].text)
  /\ UNCHANGED <<flags, keys, server>>

\* The transaction is rolled back, the sequences with it; the message stays sent.
CommitFails(r) == MayFail /\ EndUpdate(r) /\ UNCHANGED <<db, flags, keys, server>>
-----------------------------------------------------------------------------
(***************************************************************************)
(* Moderator commands, each one write transaction.  The entry they add to  *)
(* the console log in a second transaction is no state of this module.     *)
(***************************************************************************)
MuteOrUnmuteThread(t, b) ==
  /\ server = "up" /\ writer = Nil /\ t \in DOMAIN threads
  /\ threads' = [threads EXCEPT ![t].locked = b]
  /\ UNCHANGED <<posts, subforums, threadToSf, userThreads, userPosts, flags, calls, keys, server>>

Mute(u) ==
  /\ server = "up" /\ writer = Nil
  /\ muted' = [muted EXCEPT ![u] = TRUE]
  /\ UNCHANGED <<db, nudge, calls, keys, server>>

\* The unmute command, or the end of a mute for some days, which needs no lock.
Unmute(u) ==
  /\ muted[u] /\ muted' = [muted EXCEPT ![u] = FALSE]
  /\ UNCHANGED <<db, nudge, calls, keys, server>>
-----------------------------------------------------------------------------
(***************************************************************************)
(* The keyword index.                                                      *)
(***************************************************************************)
KeywordReceive(l) ==
  /\ hand[l] = <<>> /\ queue # <<>>
  /\ hand' = [hand EXCEPT ![l] = <<Head(queue)>>] /\ queue' = Tail(queue)
  /\ UNCHANGED <<db, flags, calls, index, missed, server>>

\* index.Index, called by the loop and by initKeyword: the entry replaces the one
\* under its ID, or an error is returned, the index as it was, and dropped.
IndexPost(i, text) ==
  \/ index' = Put(index, i, text) /\ missed' = missed \ {i}
  \/ IndexMayFail /\ missed' = missed \cup {i} /\ UNCHANGED index

\* Slips: the loop goes on with the message it has; an entry that is there is kept.
KeywordIndex_SameAgain(l) ==
  /\ hand[l] # <<>> /\ IndexPost(hand[l][1].id, hand[l][1].text)
  /\ UNCHANGED <<db, flags, calls, queue, hand, server>>
KeywordIndex_FirstWins(l) ==
  /\ hand[l] # <<>>
  /\ IF hand[l][1].id \in DOMAIN index THEN UNCHANGED <<index, missed>>
     ELSE IndexPost(hand[l][1].id, hand[l][1].text)
  /\ hand' = [hand EXCEPT ![l] = <<>>]
  /\ UNCHANGED <<db, flags, calls, queue, server>>

KeywordIndex(l) ==
  /\ hand[l] # <<>>
  /\ IndexPost(hand[l][1].id, hand[l][1].text)
  /\ hand' = [hand EXCEPT ![l] = <<>>]
  /\ UNCHANGED <<db, flags, calls, queue, server>>
-----------------------------------------------------------------------------
(***************************************************************************)
(* The process.  Requests, the channel and what a loop holds are memory;   *)
(* committed buckets and the index are files.  OnQuit loses the same       *)
(* memory, at fewer points than a crash can.                               *)
(***************************************************************************)
Stop(state) ==
  /\ server' = state /\ writer' = Nil
  /\ pc' = [r \in Requests |-> "idle"] /\ req' = [r \in Requests |-> NoCall]
  /\ queue' = <<>> /\ hand' = [l \in Loops |-> <<>>]
  /\ UNCHANGED <<db, flags, index, missed>>

Crash == MayCrash /\ server \in {"up", "populating"} /\ Stop("down")

\* NewPostHandler goes on after it has found the path too short, and reads past
\* the end of its parts; nothing recovers the panic.
ShortPath(r) == pc[r] = "lookup" /\ req[r].thread = 0 /\ Stop("panicked")

\* main with the index in place: it is opened as it is.
Restart ==
  /\ server \in {"down", "panicked"} /\ server' = "up"
  /\ UNCHANGED <<db, flags, calls, keys>>

\* main with -r, or with no index there: a new index is filled before the server listens.
Repopulate ==
  /\ server \in {"down", "panicked"} /\ server' = "populating"
  /\ index' = <<>> /\ missed' = {}
  /\ UNCHANGED <<db, flags, calls, queue, hand>>

\* A slip: the last post is left out.
PopulateNext_AllButLast ==
  /\ server = "populating"
  /\ LET rest == {i \in DOMAIN posts \ (DOMAIN index \cup missed) : i < Len(posts)} IN
     \/ \E i \in rest : /\ \A j \in rest : i <= j
                        /\ IndexPost(i, posts[i].text) /\ UNCHANGED server
     \/ rest = {} /\ server' = "up" /\ UNCHANGED <<index, missed>>
  /\ UNCHANGED <<db, flags, calls, queue, hand>>

\* initKeyword's cursor over bucket posts: it has gone over the IDs that are in
\* the new index and those that index.Index refused.
PopulateNext ==
  /\ server = "populating"
  /\ LET rest == DOMAIN posts \ (DOMAIN index \cup missed) IN
     \/ \E i \in rest : /\ \A j \in rest : i <= j
                        /\ IndexPost(i, posts[i].text) /\ UNCHANGED server
     \/ rest = {} /\ server' = "up" /\ UNCHANGED <<index, missed>>
  /\ UNCHANGED <<db, flags, calls, queue, hand>>
-----------------------------------------------------------------------------
Arrive(r) ==
  \/ \E u \in Users, t \in PathIds, x \in Texts \cup {Nil} : NewPostHandler(r, u, t, x)
  \/ \E u \in Users, s \in Subforums \cup {Nil}, x \in Texts \cup {Nil} : CreateThreadHandler(r, u, s, x)

\* What the goroutine of a request does by itself once the request has arrived.
Handle(r) ==
  \/ LookupSubforum(r) \/ CheckForPostNudge(r) \/ UpdateForPostNudge(r)
  \/ BeginUpdate(r) \/ SendPostToKeywordDB(r)
  \/ CommitPost(r) \/ CommitThread(r) \/ CommitFails(r) \/ ShortPath(r)

Moderate ==
  \/ \E t \in DOMAIN threads, b \in BOOLEAN : MuteOrUnmuteThread(t, b)
  \/ \E u \in Users : Mute(u) \/ Unmute(u)

KeywordDBLoop(l) == KeywordReceive(l) \/ KeywordIndex(l)

Process == Crash \/ Restart \/ Repopulate \/ PopulateNext

Next ==
  \/ \E r \in Requests : Arrive(r) \/ Handle(r)
  \/ \E l \in Loops : KeywordDBLoop(l)
  \/ Moderate \/ Process

Spec == Init /\ [][Next]_vars

\* The runtime runs every goroutine that can run.  A goroutine that waits for
\* the writer lock gets it: a sync.Mutex in starvation mode is handed over in
\* the order of arrival, so being able to take it again and again suffices.
FairSpec ==
  /\ Spec
  /\ \A r \in Requests : WF_vars(Handle(r)) /\ SF_vars(BeginUpdate(r)) /\ SF_vars(UpdateForPostNudge(r))
  /\ \A l \in Loops : WF_vars(KeywordDBLoop(l))
-----------------------------------------------------------------------------
(***************************************************************************)
(* Safety of the buckets.                                                  *)
(***************************************************************************)
SeqRange(s) == {s[i] : i \in DOMAIN s}

PostIsInItsThread(i) ==
  /\ posts[i].thread \in DOMAIN threads
  /\ posts[i].index \in DOMAIN threads[posts[i].thread].posts
  /\ threads[posts[i].thread].posts[posts[i].index] = i

ThreadHasItsPosts(t) ==
  /\ \A k \in DOMAIN threads[t].posts :
       /\ threads[t].posts[k] \in DOMAIN posts
       /\ posts[threads[t].posts[k]].thread = t /\ posts[threads[t].posts[k]].index = k
  /\ 1 \in DOMAIN threads[t].posts /\ posts[threads[t].posts[1]].user = threads[t].user

\* Posts and threads name each other, at the index the post records, and the
\* first post is by the thread's author: SearchUser tells replies from openings
\* by that index and dereferences the thread without looking (search.go:236-258).
PostsAndThreadsAgree ==
  /\ \A i \in DOMAIN posts : PostIsInItsThread(i)
  /\ \A t \in DOMAIN threads : ThreadHasItsPosts(t)

\* threadtosubforum and the subforum buckets, written in two places of
\* OnNewThread, are inverse to each other: a thread is listed once, in the
\* subforum whose privilege its replies are checked against.
ListedWhereChecked ==
  /\ DOMAIN threadToSf = DOMAIN threads
  /\ \A s \in Subforums :
       /\ SeqRange(subforums[s]) = {t \in DOMAIN threads : threadToSf[t] = s}
       /\ \A j, k \in DOMAIN subforums[s] : j < k => subforums[s][j] < subforums[s][k]

\* What SearchUser lists for a user: the first posts of the threads opened, and
\* the posts that are not first in their thread.
SearchUser(u) ==
  [first   |-> [j \in DOMAIN userThreads[u] |-> threads[userThreads[u][j]].posts[1]],
   replies |-> {i \in SeqRange(userPosts[u]) : posts[i].index # 1}]

\* Together these are the user's posts, none missing and none twice, whatever
\* was committed, rolled back or cut off by a crash in between.
SearchFindsEveryPost ==
  \A u \in Users :
    LET found == SearchUser(u) IN
    /\ SeqRange(found.first) \cup found.replies = {i \in DOMAIN posts : posts[i].user = u}
    /\ SeqRange(found.first) \cap found.replies = {}
    /\ Cardinality(SeqRange(found.first)) = Len(found.first)
    /\ Cardinality(SeqRange(userPosts[u])) = Len(userPosts[u])

\* Nobody has a post whose flag for the reminder of nudge.go is still set, in
\* whatever order the requests of the user are handled.  It is about the flag: it
\* is cleared and the reminder sent in one step here, so that a reminder lost
\* between the two (a crash, a closed connection) is not seen.
NudgedBeforePosting == \A i \in DOMAIN posts : ~nudge[posts[i].user]

\* What ThreadViewHandler shows of each thread: together, an instance of the Board.
PostShown(i) == [user |-> posts[i].user, text |-> posts[i].text]
PostsShown(t) == [k \in DOMAIN threads[t].posts |-> PostShown(threads[t].posts[k])]
ThreadShown(t) == [subforum |-> threadToSf[t], locked |-> threads[t].locked, posts |-> PostsShown(t)]
view == [t \in DOMAIN threads |-> ThreadShown(t)]

B == INSTANCE Board WITH board <- view

\* The handlers, transactions, failures and crashes add up to the Board: a post
\* appears whole and at once, by someone entitled to it when it appears, never
\* in a locked thread unless a moderator wrote it, and nothing shown is lost.
ImplementsBoard == B!Spec
-----------------------------------------------------------------------------
(***************************************************************************)
(* The keyword index against the buckets.                                  *)
(***************************************************************************)
InHand == UNION {SeqRange(hand[l]) : l \in Loops}
Underway == SeqRange(queue) \cup InHand
KeywordIds == {m.id : m \in Underway} \cup DOMAIN index

\* The message is sent before the commit, so a failed commit or a crash leaves
\* an entry for a post that is not there; it is always for the very next ID,
\* which the next post takes over.
PhantomIsNextPost == KeywordIds \subseteq 1 .. Len(posts) + 1

\* The process runs on: no crash, and no request whose path is too short.
RunsOn == ~MayCrash /\ 0 \notin PathIds

\* Unless the process stops, a stored post is in the index or on its way there,
\* but for the posts that index.Index returned an error for.
NoPostForgotten == RunsOn => DOMAIN posts \subseteq KeywordIds \cup missed

Searchable(i) == i \in DOMAIN posts \cap DOMAIN index /\ index[i] = posts[i].text

\* A keyword search: the hits of the index, less those that have no post, or one
\* whose thread is not there.  A text stands for the words that are looked for.
SearchKeyword(x) ==
  {i \in DOMAIN index : index[i] = x /\ i \in DOMAIN posts /\ posts[i].thread \in DOMAIN threads}

\* With one loop, and unless the process stops, a search of a quiet index finds the
\* posts with the text and no others, whatever messages of failed commits went
\* before; what index.Index last returned an error for is left out of account: the
\* post is missing, or found under the text of an earlier failed commit.
QuietIndexIsRight ==
  (RunsOn /\ Cardinality(Loops) = 1 /\ Underway = {}) =>
    \A x \in Texts : SearchKeyword(x) \ missed = {i \in DOMAIN posts \ missed : posts[i].text = x}

\* Once initKeyword has gone through bucket posts, the index has every post that
\* index.Index did not return an error for, and no entry for anything else.
PopulatedIsComplete ==
  [][server = "populating" /\ server' = "up" =>
       /\ \A i \in DOMAIN posts \ missed : Searchable(i)
       /\ DOMAIN index \subseteq DOMAIN posts \ missed]_vars

\* Every request is answered: the channel being full, with the writer lock held,
\* holds nobody up for ever.
RequestsAnswered == \A r \in Requests : pc[r] # "idle" ~> pc[r] = "idle"

\* Every stored post can be found by keyword in the end, unless index.Index
\* returns an error for it: that post is never sent again.
PostsBecomeSearchable ==
  \A i \in 1 .. MaxPosts : i \in DOMAIN posts ~> Searchable(i) \/ i \in missed
-----------------------------------------------------------------------------
(***************************************************************************)
(* The invariant that carries the proofs (ThreadsProofs.tla).              *)
(***************************************************************************)
\* A handler that has come this far has made these checks, and what it checked
\* outside the write transaction still holds: nothing takes back a thread's
\* subforum or sets the reminder's flag again.  What it checks under the lock
\* (the thread's own lock) holds because no one else can write.
CallChecked(r) ==
  LET q == req[r] IN
  /\ pc[r] # "idle" => q.user \in Users /\ q.kind \in {"reply", "thread"}
  /\ pc[r] = "lookup" => q.thread \in PathIds
  /\ pc[r] \in {"nudge", "setnudge", "begin", "send", "commit"} /\ q.kind = "reply" =>
       MayReplyInSubforum(q.user, q.thread)
  /\ pc[r] \in {"begin", "send", "commit"} => ReadyToStore(q) /\ ~nudge[q.user]
  /\ pc[r] \in {"send", "commit"} =>
       writer = r /\ (q.kind = "reply" => MayPostInThread(q.user, q.thread))
CallsChecked == \A r \in Requests : CallChecked(r)

\* The lock is held across steps by a handler between its check and its commit.
WriterIsInUpdate == writer # Nil => pc[writer] \in {"send", "commit"}

\* Between the send and the commit, the message of the post to come is underway,
\* or index.Index has had it.
SentBeforeCommit ==
  RunsOn => /\ server = "up"
            /\ \A r \in Requests : pc[r] = "commit" => Len(posts) + 1 \in KeywordIds \cup missed

IndInv ==
  /\ TypeOK /\ CallsChecked /\ WriterIsInUpdate /\ DOMAIN threadToSf = DOMAIN threads
  /\ PostsAndThreadsAgree /\ NudgedBeforePosting
  /\ PhantomIsNextPost /\ NoPostForgotten /\ SentBeforeCommit
-----------------------------------------------------------------------------
(***************************************************************************)
(* What the repository says of these handlers and the code does not do.    *)
(***************************************************************************)
\* console.go:88 on muting, "Don't allow user to write new threads or posts":
\* no post of a user is stored while that user is muted.
MutedDontPost ==
  [][\A u \in Users : muted[u] => Len(userPosts'[u]) = Len(userPosts[u])]_vars
=============================================================================
