----------------------------- MODULE ThreadsProofs -----------------------------
(***************************************************************************)
(* Proofs about Threads, for every set of users, requests and loops, every *)
(* channel capacity and every bound.                                       *)
(***************************************************************************)
EXTENDS Threads, SequenceTheorems, TLAPS

\* Storing under a key leaves the other keys as they were.
LEMMA PutLemma ==
  ASSUME NEW f, NEW k, NEW v
  PROVE  /\ DOMAIN Put(f, k, v) = DOMAIN f \cup {k}
         /\ Put(f, k, v)[k] = v
         /\ \A x \in DOMAIN f \ {k} : Put(f, k, v)[x] = f[x]
  BY DEF Put

\* index.Index adds no other ID than its own, which is then in the index or missed;
\* an entry it adds has the text it was given, and the others stay as they are.
LEMMA IndexPostFacts ==
  ASSUME NEW i, NEW x, IndexPost(i, x)
  PROVE  /\ DOMAIN index' \subseteq DOMAIN index \cup {i}
         /\ DOMAIN index \cup missed \cup {i} \subseteq DOMAIN index' \cup missed'
         /\ missed' \subseteq missed \cup {i}
         /\ DOMAIN index \subseteq DOMAIN index'
         /\ \A j \in DOMAIN index' :
              (j \in DOMAIN index /\ index'[j] = index[j]) \/ (j = i /\ index'[j] = x)
         /\ i \in missed' \/ (i \in DOMAIN index' /\ index'[i] = x)
         /\ \A j : j # i => (j \in missed' <=> j \in missed)
  <1>1. CASE index' = Put(index, i, x) /\ missed' = missed \ {i}
    <2>1. DOMAIN index' = DOMAIN index \cup {i} /\ index'[i] = x
      BY <1>1, PutLemma
    <2>2. \A j \in DOMAIN index \ {i} : index'[j] = index[j]
      BY <1>1 DEF Put
    <2> QED
      BY <1>1, <2>1, <2>2
  <1>2. CASE missed' = missed \cup {i} /\ index' = index
    BY <1>2
  <1> QED
    BY <1>1, <1>2 DEF IndexPost

\* index.Index keeps the types of the index and of what it missed.
LEMMA IndexPostTypes ==
  ASSUME KeyTypes, NEW i \in Nat, NEW x \in Texts, IndexPost(i, x)
  PROVE  DOMAIN index' \subseteq Nat /\ missed' \subseteq Nat /\ \A j \in DOMAIN index' : index'[j] \in Texts
  <1>1. /\ DOMAIN index' \subseteq DOMAIN index \cup {i} /\ missed' \subseteq missed \cup {i}
        /\ \A j \in DOMAIN index' :
             (j \in DOMAIN index /\ index'[j] = index[j]) \/ (j = i /\ index'[j] = x)
    BY IndexPostFacts
  <1>2. DOMAIN index \subseteq Nat /\ missed \subseteq Nat /\ \A j \in DOMAIN index : index[j] \in Texts
    BY DEF KeyTypes
  <1>3. \A j \in DOMAIN index' : index'[j] \in Texts
    BY <1>1, <1>2
  <1> QED
    BY <1>1, <1>2, <1>3

\* Elements of a sequence are in its set; an empty sequence is the one of length 0.
LEMMA SeqElements ==
  ASSUME NEW S, NEW s \in Seq(S)
  PROVE  /\ \A i \in DOMAIN s : i \in Nat /\ s[i] \in S
         /\ s # <<>> => 1 \in DOMAIN s
         /\ DOMAIN s = 1 .. Len(s) /\ Len(s) \in Nat
  OBVIOUS

\* What Append does to the domain and to the elements.
LEMMA AppendElements ==
  ASSUME NEW S, NEW s \in Seq(S), NEW e \in S
  PROVE  /\ Append(s, e) \in Seq(S)
         /\ DOMAIN Append(s, e) = DOMAIN s \cup {Len(s) + 1}
         /\ Len(s) + 1 \notin DOMAIN s
         /\ Append(s, e)[Len(s) + 1] = e
         /\ \A i \in DOMAIN s : Append(s, e)[i] = s[i]
  OBVIOUS

\* The types of threads and posts, field by field.
LEMMA BucketElements ==
  ASSUME BucketTypes
  PROVE  /\ \A t \in DOMAIN threads :
              t \in Nat /\ threads[t] \in Thread /\ threads[t].user \in Users
              /\ threads[t].locked \in BOOLEAN /\ threads[t].posts \in Seq(Nat)
         /\ \A i \in DOMAIN posts :
              i \in Nat /\ posts[i].text \in Texts /\ posts[i].user \in Users
              /\ posts[i].thread \in Nat /\ posts[i].index \in Nat
         /\ DOMAIN threads = 1 .. Len(threads) /\ DOMAIN posts = 1 .. Len(posts)
         /\ Len(threads) \in Nat /\ Len(posts) \in Nat
  <1>1. threads \in Seq(Thread) /\ posts \in Seq(Post)
    BY DEF BucketTypes
  <1>2. \A t \in DOMAIN threads : t \in Nat /\ threads[t] \in Thread
    BY <1>1, SeqElements
  <1>3. \A i \in DOMAIN posts : i \in Nat /\ posts[i] \in Post
    BY <1>1, SeqElements
  <1>4. \A a \in Thread : a.user \in Users /\ a.locked \in BOOLEAN /\ a.posts \in Seq(Nat)
    BY DEF Thread
  <1>5. \A p \in Post : p.text \in Texts /\ p.user \in Users /\ p.thread \in Nat /\ p.index \in Nat
    BY DEF Post
  <1> QED
    BY <1>1, <1>2, <1>3, <1>4, <1>5, SeqElements

\* Initially everything is empty.
LEMMA TypeInit == Init => TypeOK
  BY ConstantsAssumption
  DEF Init, TypeOK, BucketTypes, FlagTypes, CallTypes, KeyTypes, NoCall, Call, Label

\* A part of the state that a step leaves alone keeps its type.
LEMMA TypesUnchanged ==
  /\ BucketTypes /\ UNCHANGED db => BucketTypes'
  /\ FlagTypes /\ UNCHANGED flags => FlagTypes'
  /\ CallTypes /\ UNCHANGED calls => CallTypes'
  /\ KeyTypes /\ UNCHANGED keys => KeyTypes'
  BY DEF BucketTypes, FlagTypes, CallTypes, KeyTypes, db, flags, calls, keys

\* A handler that moves on, with its request kept or cleared, keeps the types.
LEMMA CallTypesMove ==
  ASSUME CallTypes, NEW r \in Requests, NEW label \in Label, writer' \in {writer, r, Nil},
         \/ Goto(r, label) /\ UNCHANGED req
         \/ Answer(r)
  PROVE  CallTypes'
  <1>1. NoCall \in Call /\ "idle" \in Label
    BY ConstantsAssumption DEF Call, NoCall, Label
  <1>2. pc' \in [Requests -> Label]
    BY <1>1 DEF CallTypes, Goto, Answer
  <1>3. req' \in [Requests -> Call]
    BY <1>1 DEF CallTypes, Answer
  <1> QED
    BY <1>2, <1>3 DEF CallTypes

\* Every step keeps the types; a commit needs to know that the handler has
\* checked its request, which makes it a user's, with a text.
LEMMA TypeStep == ASSUME TypeOK, CallsChecked, [Next]_vars PROVE TypeOK'
  <1> USE DEF TypeOK
  <1>1. ASSUME NEW r \in Requests, NEW u \in Users, NEW t \in PathIds, NEW x \in Texts \cup {Nil},
               NewPostHandler(r, u, t, x)
        PROVE  TypeOK'
    <2>1. CallTypes'
      BY <1>1, ConstantsAssumption DEF NewPostHandler, CallTypes, Goto, Label, Call
    <2> QED
      BY <1>1, <2>1, TypesUnchanged DEF NewPostHandler
  <1>2. ASSUME NEW r \in Requests, NEW u \in Users, NEW s \in Subforums \cup {Nil}, NEW x \in Texts \cup {Nil},
               CreateThreadHandler(r, u, s, x)
        PROVE  TypeOK'
    <2>1. CallTypes'
      BY <1>2, ConstantsAssumption DEF CreateThreadHandler, CallTypes, Goto, Label, Call
    <2> QED
      BY <1>2, <2>1, TypesUnchanged DEF CreateThreadHandler
  <1>3. ASSUME NEW r \in Requests, LookupSubforum(r) PROVE TypeOK'
    <2>1. CallTypes'
      BY <1>3, CallTypesMove DEF LookupSubforum, Label
    <2> QED
      BY <1>3, <2>1, TypesUnchanged DEF LookupSubforum
  <1>4. ASSUME NEW r \in Requests, CheckForPostNudge(r) PROVE TypeOK'
    <2>1. CallTypes'
      BY <1>4, CallTypesMove DEF CheckForPostNudge, Label
    <2> QED
      BY <1>4, <2>1, TypesUnchanged DEF CheckForPostNudge
  <1>5. ASSUME NEW r \in Requests, UpdateForPostNudge(r) PROVE TypeOK'
    <2>1. CallTypes'
      BY <1>5, CallTypesMove DEF UpdateForPostNudge, Label
    <2>2. FlagTypes'
      BY <1>5 DEF UpdateForPostNudge, FlagTypes
    <2> QED
      BY <1>5, <2>1, <2>2, TypesUnchanged DEF UpdateForPostNudge
  <1>6. ASSUME NEW r \in Requests, BeginUpdate(r) PROVE TypeOK'
    <2>1. CallTypes'
      BY <1>6, CallTypesMove DEF BeginUpdate, Label
    <2> QED
      BY <1>6, <2>1, TypesUnchanged DEF BeginUpdate
  <1>7. ASSUME NEW r \in Requests, SendPostToKeywordDB(r) PROVE TypeOK'
    <2>1. CallTypes'
      BY <1>7, CallTypesMove DEF SendPostToKeywordDB, Label
    <2>2. req[r].text \in Texts
      BY <1>7 DEF SendPostToKeywordDB, CallsChecked, CallChecked, ReadyToStore, CallTypes, Call
    <2>3. [id |-> Len(posts) + 1, text |-> req[r].text] \in Message
      BY <2>2 DEF Message, BucketTypes
    <2>4. KeyTypes'
      BY <1>7, <2>3, ConstantsAssumption DEF SendPostToKeywordDB, KeyTypes
    <2> QED
      BY <1>7, <2>1, <2>4, TypesUnchanged DEF SendPostToKeywordDB
  <1>8. ASSUME NEW r \in Requests, EndUpdate(r)
        PROVE  /\ CallTypes'
               /\ req[r].user \in Users /\ req[r].text \in Texts
               /\ req[r].kind = "reply" => req[r].thread \in DOMAIN threads
               /\ req[r].kind = "thread" => req[r].sf \in Subforums
    <2>1. CallTypes'
      BY <1>8, CallTypesMove DEF EndUpdate, Label
    <2> QED
      BY <1>8, <2>1 DEF EndUpdate, CallsChecked, CallChecked, ReadyToStore, MayPostInThread, CallTypes, Call
  <1>9. ASSUME NEW r \in Requests, CommitPost(r) PROVE TypeOK'
    <2> DEFINE q == req[r]
    <2>1. CallTypes' /\ q.user \in Users /\ q.text \in Texts /\ q.thread \in DOMAIN threads
      BY <1>8, <1>9 DEF CommitPost
    <2>0. threads[q.thread] \in Thread /\ threads[q.thread].posts \in Seq(Nat) /\ Len(posts) + 1 \in Nat
      BY <2>1, BucketElements
    <2>2. posts' \in Seq(Post)
      <3>1. [text |-> q.text, user |-> q.user, thread |-> q.thread, index |-> Len(threads[q.thread].posts) + 1] \in Post
        BY <2>1, <2>0, SeqElements DEF BucketTypes, Post
      <3> QED
        BY <1>9, <3>1, AppendElements DEF CommitPost, OnNewPost, AddNewPostToDatabase, BucketTypes
    <2>3. threads' \in Seq(Thread)
      <3>1. [threads[q.thread] EXCEPT !.posts = Append(@, Len(posts) + 1)] \in Thread
        <4>1. Append(threads[q.thread].posts, Len(posts) + 1) \in Seq(Nat)
          BY <2>0, AppendElements
        <4> QED
          BY <2>0, <4>1 DEF Thread
      <3> QED
        BY <1>9, <2>1, <3>1 DEF CommitPost, OnNewPost, BucketTypes
    <2>4. userPosts' \in [Users -> Seq(Nat)]
      BY <1>9, <2>1 DEF CommitPost, OnNewPost, AddNewPostToDatabase, BucketTypes
    <2>5. BucketTypes'
      BY <1>9, <2>2, <2>3, <2>4 DEF CommitPost, OnNewPost, BucketTypes
    <2> QED
      BY <1>9, <2>1, <2>5, TypesUnchanged DEF CommitPost
  <1>10. ASSUME NEW r \in Requests, CommitThread(r) PROVE TypeOK'
    <2> DEFINE q == req[r]
    <2>1. CallTypes' /\ q.user \in Users /\ q.text \in Texts /\ q.sf \in Subforums
      BY <1>8, <1>10 DEF CommitThread
    <2>2. posts' \in Seq(Post)
      BY <1>10, <2>1 DEF CommitThread, OnNewThread, AddNewPostToDatabase, BucketTypes, Post
    <2>3. threads' \in Seq(Thread)
      BY <1>10, <2>1 DEF CommitThread, OnNewThread, BucketTypes, Thread
    <2>4. userPosts' \in [Users -> Seq(Nat)] /\ userThreads' \in [Users -> Seq(Nat)]
      BY <1>10, <2>1 DEF CommitThread, OnNewThread, AddNewPostToDatabase, BucketTypes
    <2>5. subforums' \in [Subforums -> Seq(Nat)]
      BY <1>10, <2>1 DEF CommitThread, OnNewThread, BucketTypes
    <2>6. DOMAIN threadToSf' \subseteq Nat /\ \A t \in DOMAIN threadToSf' : threadToSf'[t] \in Subforums
      BY <1>10, <2>1 DEF CommitThread, OnNewThread, BucketTypes, Put
    <2>7. BucketTypes'
      BY <2>2, <2>3, <2>4, <2>5, <2>6 DEF BucketTypes
    <2> QED
      BY <1>10, <2>1, <2>7, TypesUnchanged DEF CommitThread
  <1>11. ASSUME NEW r \in Requests, CommitFails(r) PROVE TypeOK'
    BY <1>8, <1>11, TypesUnchanged DEF CommitFails
  <1>12. ASSUME NEW t \in DOMAIN threads, NEW b \in BOOLEAN, MuteOrUnmuteThread(t, b) PROVE TypeOK'
    <2>1. threads' \in Seq(Thread)
      <3>1. [threads[t] EXCEPT !.locked = b] \in Thread
        <4>1. threads[t] \in Thread
          BY BucketElements
        <4> QED
          BY <4>1 DEF Thread
      <3> QED
        BY <1>12, <3>1 DEF MuteOrUnmuteThread, BucketTypes
    <2> QED
      BY <1>12, <2>1, TypesUnchanged DEF MuteOrUnmuteThread, BucketTypes
  <1>13. ASSUME NEW u \in Users, Mute(u) \/ Unmute(u) PROVE TypeOK'
    <2>1. FlagTypes'
      BY <1>13 DEF Mute, Unmute, FlagTypes
    <2> QED
      BY <1>13, <2>1, TypesUnchanged DEF Mute, Unmute
  <1>14. ASSUME NEW l \in Loops, KeywordReceive(l) PROVE TypeOK'
    <2>1. Head(queue) \in Message /\ Tail(queue) \in Seq(Message) /\ Len(Tail(queue)) <= QueueCap
      BY <1>14, ConstantsAssumption DEF KeywordReceive, KeyTypes
    <2>2. KeyTypes'
      BY <1>14, <2>1 DEF KeywordReceive, KeyTypes
    <2> QED
      BY <1>14, <2>2, TypesUnchanged DEF KeywordReceive
  <1>15. ASSUME NEW l \in Loops, KeywordIndex(l) PROVE TypeOK'
    <2>1. hand[l][1].id \in Nat /\ hand[l][1].text \in Texts
      <3>1. hand[l] \in Seq(Message) /\ hand[l] # <<>>
        BY <1>15 DEF KeywordIndex, KeyTypes
      <3>2. hand[l][1] \in Message
        BY <3>1, SeqElements
      <3> QED
        BY <3>2 DEF Message
    <2>2. hand' \in [Loops -> Seq(Message)] /\ \A m \in Loops : Len(hand'[m]) <= 1
      BY <1>15 DEF KeywordIndex, KeyTypes
    <2>3. DOMAIN index' \subseteq Nat /\ missed' \subseteq Nat /\ \A i \in DOMAIN index' : index'[i] \in Texts
      <3>1. PICK i, x : i = hand[l][1].id /\ x = hand[l][1].text
        OBVIOUS
      <3>2. IndexPost(i, x) /\ i \in Nat /\ x \in Texts
        BY <1>15, <2>1, <3>1 DEF KeywordIndex
      <3> QED
        BY <3>2, IndexPostTypes
    <2>4. KeyTypes'
      BY <1>15, <2>2, <2>3 DEF KeywordIndex, KeyTypes
    <2> QED
      BY <1>15, <2>4, TypesUnchanged DEF KeywordIndex
  <1>16. ASSUME NEW state \in {"down", "panicked"}, Stop(state) PROVE TypeOK'
    <2>1. CallTypes'
      BY <1>16 DEF Stop, CallTypes, Label, Call, NoCall
    <2>2. KeyTypes'
      BY <1>16, ConstantsAssumption DEF Stop, KeyTypes
    <2> QED
      BY <1>16, <2>1, <2>2, TypesUnchanged DEF Stop
  <1>17. ASSUME Restart \/ Repopulate PROVE TypeOK'
    <2>1. KeyTypes'
      BY <1>17, TypesUnchanged DEF Restart, Repopulate, KeyTypes, keys
    <2> QED
      BY <1>17, <2>1, TypesUnchanged DEF Restart, Repopulate
  <1>18. ASSUME PopulateNext PROVE TypeOK'
    <2>1. \A i \in DOMAIN posts : i \in Nat /\ posts[i].text \in Texts
      BY BucketElements
    <2>2. DOMAIN index' \subseteq Nat /\ missed' \subseteq Nat /\ \A i \in DOMAIN index' : index'[i] \in Texts
      <3>1. CASE UNCHANGED <<index, missed>>
        BY <3>1 DEF KeyTypes
      <3>2. ASSUME NEW i \in DOMAIN posts, IndexPost(i, posts[i].text)
            PROVE  DOMAIN index' \subseteq Nat /\ missed' \subseteq Nat /\ \A j \in DOMAIN index' : index'[j] \in Texts
        BY <2>1, <3>2, IndexPostTypes
      <3> QED
        BY <1>18, <3>1, <3>2 DEF PopulateNext
    <2>3. KeyTypes'
      BY <1>18, <2>2 DEF PopulateNext, KeyTypes
    <2> QED
      BY <1>18, <2>3, TypesUnchanged DEF PopulateNext
  <1>19. CASE UNCHANGED vars
    BY <1>19, TypesUnchanged DEF vars
  <1> QED
    BY <1>1, <1>2, <1>3, <1>4, <1>5, <1>6, <1>7, <1>9, <1>10, <1>11, <1>12, <1>13, <1>14, <1>15,
       <1>16, <1>17, <1>18, <1>19
    DEF Next, Arrive, Handle, Moderate, KeywordDBLoop, Process, Crash, ShortPath
-----------------------------------------------------------------------------
\* What a handler has checked stays true under the steps of others, if they only
\* add threads, only clear the reminder's flag, and leave the threads' locks
\* alone while this handler holds the writer lock.
LEMMA CallKept ==
  ASSUME NEW p \in Requests, CallChecked(p), pc'[p] = pc[p], req'[p] = req[p],
         \A t \in DOMAIN threadToSf : t \in DOMAIN threadToSf' /\ threadToSf'[t] = threadToSf[t],
         \A u \in Users : ~nudge[u] => ~nudge'[u],
         pc[p] \in {"send", "commit"} =>
           /\ writer' = writer
           /\ \A t \in DOMAIN threads : t \in DOMAIN threads' /\ threads'[t].locked = threads[t].locked
  PROVE  CallChecked(p)'
  BY DEF CallChecked, MayReplyInSubforum, MayPostInThread, ReadyToStore

CallInv == CallsChecked /\ WriterIsInUpdate /\ DOMAIN threadToSf = DOMAIN threads

\* The steps of a handler other than a commit: its own checks are those it has
\* just made, the other requests' are kept.
LEMMA CallStepOfHandler ==
  ASSUME TypeOK, CallInv, NEW r \in Requests, UNCHANGED db,
         \A p \in Requests \ {r} : pc'[p] = pc[p] /\ req'[p] = req[p],
         \A u \in Users : ~nudge[u] => ~nudge'[u],
         writer' # writer => writer = Nil \/ writer = r,
         CallChecked(r)'
  PROVE  CallsChecked' /\ DOMAIN threadToSf' = DOMAIN threads'
  <1>1. ASSUME NEW p \in Requests, p # r PROVE CallChecked(p)'
    <2>1. pc[p] \in {"send", "commit"} => writer' = writer
      BY <1>1, ConstantsAssumption DEF CallInv, CallsChecked, CallChecked
    <2> QED
      BY <1>1, <2>1, CallKept DEF CallInv, CallsChecked, db
  <1> QED
    BY <1>1 DEF CallsChecked, CallInv, db

LEMMA CallStep == ASSUME TypeOK, CallInv, [Next]_vars PROVE CallInv'
  <1> USE DEF TypeOK
  <1>1. ASSUME NEW r \in Requests, NEW u \in Users, NEW t \in PathIds, NEW x \in Texts \cup {Nil},
               NewPostHandler(r, u, t, x)
        PROVE  CallInv'
    <2>1. pc' = [pc EXCEPT ![r] = "lookup"] /\ req'[r].user = u /\ req'[r].kind = "reply" /\ req'[r].thread = t
      BY <1>1 DEF NewPostHandler, Goto, CallTypes
    <2>2. CallChecked(r)'
      BY <2>1 DEF CallChecked, CallTypes
    <2> QED
      BY <1>1, <2>1, <2>2, CallStepOfHandler DEF NewPostHandler, CallInv, WriterIsInUpdate, CallTypes, flags
  <1>2. ASSUME NEW r \in Requests, NEW u \in Users, NEW s \in Subforums \cup {Nil}, NEW x \in Texts \cup {Nil},
               CreateThreadHandler(r, u, s, x)
        PROVE  CallInv'
    <2>1. pc' = [pc EXCEPT ![r] = "nudge"] /\ req'[r].user = u /\ req'[r].kind = "thread"
      BY <1>2 DEF CreateThreadHandler, Goto, CallTypes
    <2>2. CallChecked(r)'
      BY <2>1 DEF CallChecked, CallTypes
    <2> QED
      BY <1>2, <2>1, <2>2, CallStepOfHandler DEF CreateThreadHandler, CallInv, WriterIsInUpdate, CallTypes, flags
  <1>3. ASSUME NEW r \in Requests, Answer(r) PROVE CallChecked(r)'
    BY <1>3 DEF Answer, Goto, CallChecked, CallTypes
  <1>4. ASSUME NEW r \in Requests, LookupSubforum(r) PROVE CallInv'
    <2>1. CallChecked(r)'
      <3>1. CASE MayReplyInSubforum(req[r].user, req[r].thread)
        BY <1>4, <3>1
        DEF LookupSubforum, Goto, CallInv, CallsChecked, CallChecked, CallTypes, db, MayReplyInSubforum
      <3> QED
        BY <1>3, <1>4, <3>1 DEF LookupSubforum
    <2> QED
      BY <1>4, <2>1, CallStepOfHandler
      DEF LookupSubforum, Goto, Answer, CallInv, WriterIsInUpdate, CallTypes, flags
  <1>5. ASSUME NEW r \in Requests, CheckForPostNudge(r) PROVE CallInv'
    <2>1. CallChecked(r)'
      <3>1. CASE nudge[req[r].user] \/ ReadyToStore(req[r])
        BY <1>5, <3>1
        DEF CheckForPostNudge, Goto, Answer, CallInv, CallsChecked, CallChecked, CallTypes, db, flags,
            MayReplyInSubforum, ReadyToStore
      <3> QED
        BY <1>3, <1>5, <3>1 DEF CheckForPostNudge
    <2> QED
      BY <1>5, <2>1, CallStepOfHandler
      DEF CheckForPostNudge, Goto, Answer, CallInv, WriterIsInUpdate, CallTypes, flags
  <1>6. ASSUME NEW r \in Requests, UpdateForPostNudge(r) PROVE CallInv'
    BY <1>3, <1>6, CallStepOfHandler
    DEF UpdateForPostNudge, Goto, Answer, CallInv, WriterIsInUpdate, CallTypes, FlagTypes
  <1>7. ASSUME NEW r \in Requests, BeginUpdate(r) PROVE CallInv'
    <2>1. CallChecked(r)'
      <3>1. CASE req[r].kind = "reply" => MayPostInThread(req[r].user, req[r].thread)
        BY <1>7, <3>1
        DEF BeginUpdate, Goto, CallInv, CallsChecked, CallChecked, CallTypes, db, flags,
            MayReplyInSubforum, MayPostInThread, ReadyToStore
      <3> QED
        BY <1>3, <1>7, <3>1 DEF BeginUpdate
    <2> QED
      BY <1>7, <2>1, CallStepOfHandler
      DEF BeginUpdate, Goto, Answer, CallInv, WriterIsInUpdate, CallTypes, flags
  <1>8. ASSUME NEW r \in Requests, SendPostToKeywordDB(r) PROVE CallInv'
    <2>1. CallChecked(r)'
      BY <1>8
      DEF SendPostToKeywordDB, Goto, CallInv, CallsChecked, CallChecked, CallTypes, db, flags,
          MayReplyInSubforum, MayPostInThread, ReadyToStore
    <2> QED
      BY <1>8, <2>1, CallStepOfHandler
      DEF SendPostToKeywordDB, Goto, CallInv, WriterIsInUpdate, CallTypes, flags
  <1>9. ASSUME NEW r \in Requests, EndUpdate(r), UNCHANGED flags,
               \A t \in DOMAIN threadToSf : t \in DOMAIN threadToSf' /\ threadToSf'[t] = threadToSf[t]
        PROVE  CallsChecked' /\ WriterIsInUpdate'
    <2>1. writer = r
      BY <1>9 DEF EndUpdate, CallInv, CallsChecked, CallChecked
    <2>2. ASSUME NEW p \in Requests, p # r PROVE CallChecked(p)'
      <3>1. pc[p] \notin {"send", "commit"}
        BY <2>1, <2>2 DEF CallInv, CallsChecked, CallChecked
      <3>2. pc'[p] = pc[p] /\ req'[p] = req[p]
        BY <1>9, <2>2 DEF EndUpdate, Answer, Goto, CallTypes
      <3> QED
        BY <1>9, <3>1, <3>2, CallKept DEF CallInv, CallsChecked, flags
    <2> QED
      BY <1>3, <1>9, <2>2 DEF EndUpdate, CallsChecked, WriterIsInUpdate
  <1>10. ASSUME NEW r \in Requests, CommitPost(r) PROVE CallInv'
    <2>1. CallsChecked' /\ WriterIsInUpdate'
      BY <1>9, <1>10 DEF CommitPost, OnNewPost
    <2>2. DOMAIN threads' = DOMAIN threads
      BY <1>10 DEF CommitPost, OnNewPost, BucketTypes
    <2> QED
      BY <1>10, <2>1, <2>2 DEF CommitPost, OnNewPost, CallInv
  <1>11. ASSUME NEW r \in Requests, CommitThread(r) PROVE CallInv'
    <2> DEFINE t == Len(threads) + 1
               new == [user |-> req[r].user, locked |-> FALSE, posts |-> <<Len(posts) + 1>>]
    <2>1. threadToSf' = Put(threadToSf, t, req[r].sf) /\ threads' = Append(threads, new)
      BY <1>11 DEF CommitThread, OnNewThread
    <2>2. t \notin DOMAIN threads /\ DOMAIN threads' = DOMAIN threads \cup {t}
      <3>1. DOMAIN threads = 1 .. Len(threads) /\ Len(threads) \in Nat
        BY BucketElements
      <3>2. Len(threads') = Len(threads) + 1 /\ DOMAIN threads' = 1 .. Len(threads')
        BY <2>1 DEF BucketTypes
      <3> QED
        BY <3>1, <3>2
    <2>3. DOMAIN threadToSf' = DOMAIN threadToSf \cup {t}
      BY <2>1 DEF Put
    <2>4. \A k \in DOMAIN threadToSf : threadToSf'[k] = threadToSf[k]
      BY <2>1, <2>2 DEF Put, CallInv
    <2>5. CallsChecked' /\ WriterIsInUpdate'
      BY <1>9, <1>11, <2>3, <2>4 DEF CommitThread
    <2> QED
      BY <2>2, <2>3, <2>5 DEF CallInv
  <1>12. ASSUME NEW r \in Requests, CommitFails(r) PROVE CallInv'
    BY <1>9, <1>12 DEF CommitFails, CallInv, db
  <1>13. ASSUME NEW t \in DOMAIN threads, NEW b \in BOOLEAN, MuteOrUnmuteThread(t, b) PROVE CallInv'
    <2>1. ASSUME NEW p \in Requests PROVE CallChecked(p)'
      <3>1. pc[p] \notin {"send", "commit"}
        BY <1>13, ConstantsAssumption DEF MuteOrUnmuteThread, CallInv, CallsChecked, CallChecked
      <3> QED
        BY <1>13, <3>1, CallKept DEF MuteOrUnmuteThread, CallInv, CallsChecked, flags, calls
    <2>2. DOMAIN threads' = DOMAIN threads
      BY <1>13 DEF MuteOrUnmuteThread, BucketTypes
    <2> QED
      BY <1>13, <2>1, <2>2 DEF MuteOrUnmuteThread, CallInv, CallsChecked, WriterIsInUpdate, calls
  <1>14. ASSUME UNCHANGED <<db, nudge, calls>> PROVE CallInv'
    BY <1>14
    DEF CallInv, CallsChecked, CallChecked, WriterIsInUpdate, MayReplyInSubforum, MayPostInThread,
        ReadyToStore, db, calls
  <1>15. ASSUME NEW state \in {"down", "panicked"}, Stop(state) PROVE CallInv'
    BY <1>15 DEF Stop, CallInv, CallsChecked, CallChecked, WriterIsInUpdate, db
  <1> QED
    BY <1>1, <1>2, <1>4, <1>5, <1>6, <1>7, <1>8, <1>10, <1>11, <1>12, <1>13, <1>14, <1>15
    DEF Next, Arrive, Handle, Moderate, KeywordDBLoop, Process, Crash, ShortPath, vars, flags,
        Mute, Unmute, KeywordReceive, KeywordIndex, Restart, Repopulate, PopulateNext
-----------------------------------------------------------------------------
\* Which steps touch the buckets of threads and posts, and how the reminder's
\* flags change.
LEMMA BucketSteps ==
  ASSUME FlagTypes, [Next]_vars
  PROVE  /\ \/ UNCHANGED db
            \/ \E r \in Requests : CommitPost(r) \/ CommitThread(r)
            \/ \E t \in DOMAIN threads, b \in BOOLEAN : MuteOrUnmuteThread(t, b)
         /\ \A u \in Users : ~nudge[u] => ~nudge'[u]
  <1>1. ASSUME NEW r \in Requests, Arrive(r) PROVE UNCHANGED <<db, flags>>
    BY <1>1 DEF Arrive, NewPostHandler, CreateThreadHandler
  <1>2. ASSUME NEW r \in Requests, UpdateForPostNudge(r)
        PROVE  UNCHANGED db /\ \A u \in Users : ~nudge[u] => ~nudge'[u]
    BY <1>2 DEF UpdateForPostNudge, FlagTypes
  <1>3. ASSUME NEW r \in Requests, Handle(r)
        PROVE  \/ UNCHANGED <<db, flags>> \/ UpdateForPostNudge(r)
               \/ (CommitPost(r) \/ CommitThread(r)) /\ UNCHANGED flags
    BY <1>3 DEF Handle, LookupSubforum, CheckForPostNudge, BeginUpdate, SendPostToKeywordDB,
                CommitPost, CommitThread, CommitFails, ShortPath, Stop
  <1>4. ASSUME NEW l \in Loops, KeywordDBLoop(l) PROVE UNCHANGED <<db, flags>>
    BY <1>4 DEF KeywordDBLoop, KeywordReceive, KeywordIndex
  <1>5. ASSUME Process PROVE UNCHANGED <<db, flags>>
    BY <1>5 DEF Process, Crash, Stop, Restart, Repopulate, PopulateNext
  <1>6. ASSUME NEW u \in Users, Mute(u) \/ Unmute(u) PROVE UNCHANGED <<db, nudge>>
    BY <1>6 DEF Mute, Unmute
  <1>7. ASSUME NEW t \in DOMAIN threads, NEW b \in BOOLEAN, MuteOrUnmuteThread(t, b) PROVE UNCHANGED flags
    BY <1>7 DEF MuteOrUnmuteThread
  <1> QED
    BY <1>1, <1>2, <1>3, <1>4, <1>5, <1>6, <1>7 DEF Next, Moderate, vars, flags

\* What a commit knows of its request and leaves behind in bucket posts.
LEMMA CommitFacts ==
  ASSUME TypeOK, CallInv, NEW r \in Requests, CommitPost(r) \/ CommitThread(r)
  PROVE  LET i == Len(posts) + 1 IN
         /\ req[r].user \in Users /\ ~nudge[req[r].user] /\ nudge' = nudge
         /\ i \notin DOMAIN posts /\ DOMAIN posts' = DOMAIN posts \cup {i}
         /\ posts'[i].user = req[r].user /\ Len(posts') = i
         /\ \A j \in DOMAIN posts : posts'[j] = posts[j]
  <1> DEFINE e(t, k) == [text |-> req[r].text, user |-> req[r].user, thread |-> t, index |-> k]
  <1>1. req[r].user \in Users /\ ~nudge[req[r].user] /\ nudge' = nudge
    BY DEF CommitPost, CommitThread, EndUpdate, CallInv, CallsChecked, CallChecked, flags
  <1>2. \E t, k : posts' = Append(posts, e(t, k))
    BY DEF CommitPost, CommitThread, OnNewPost, OnNewThread, AddNewPostToDatabase
  <1>3. PICK t, k : posts' = Append(posts, e(t, k))
    BY <1>2
  <1>4. Len(posts') = Len(posts) + 1 /\ posts'[Len(posts) + 1] = e(t, k)
        /\ \A j \in 1 .. Len(posts) : posts'[j] = posts[j]
    BY <1>3 DEF TypeOK, BucketTypes
  <1>5. DOMAIN posts' = 1 .. Len(posts') /\ DOMAIN posts = 1 .. Len(posts) /\ Len(posts) \in Nat
    BY <1>3, BucketElements DEF TypeOK, BucketTypes
  <1> QED
    BY <1>1, <1>4, <1>5

\* The author of a new post is one whose flag was found cleared.
LEMMA NudgeStep ==
  ASSUME TypeOK, CallInv, NudgedBeforePosting, [Next]_vars
  PROVE  NudgedBeforePosting'
  <1>1. \A u \in Users : ~nudge[u] => ~nudge'[u]
    BY BucketSteps DEF TypeOK
  <1>2. \A i \in DOMAIN posts : posts[i].user \in Users
    BY BucketElements DEF TypeOK
  <1>3. CASE UNCHANGED posts
    BY <1>1, <1>2, <1>3 DEF NudgedBeforePosting
  <1>4. ASSUME NEW r \in Requests, CommitPost(r) \/ CommitThread(r) PROVE NudgedBeforePosting'
    BY <1>4, CommitFacts DEF NudgedBeforePosting
  <1> QED
    BY <1>3, <1>4, BucketSteps DEF TypeOK, db, MuteOrUnmuteThread
-----------------------------------------------------------------------------
\* The elements of the sequences the channel goes through.
LEMMA RangeFacts ==
  ASSUME NEW S, NEW s \in Seq(S), NEW e \in S
  PROVE  /\ SeqRange(Append(s, e)) = SeqRange(s) \cup {e}
         /\ s # <<>> => SeqRange(s) = {s[1]} \cup SeqRange(Tail(s)) /\ Head(s) = s[1]
         /\ s # <<>> /\ Len(s) <= 1 => SeqRange(s) = {s[1]}
         /\ SeqRange(<<e>>) = {e} /\ SeqRange(<<>>) = {}
  <1>1. SeqRange(Append(s, e)) = SeqRange(s) \cup {e}
    BY AppendElements DEF SeqRange
  <1>2. ASSUME s # <<>> PROVE SeqRange(s) = {s[1]} \cup SeqRange(Tail(s)) /\ Head(s) = s[1]
    <2>1. Len(s) \in Nat /\ Len(s) >= 1 /\ DOMAIN s = 1 .. Len(s)
      BY <1>2
    <2>2. DOMAIN Tail(s) = 1 .. Len(s) - 1 /\ \A i \in 1 .. Len(s) - 1 : Tail(s)[i] = s[i + 1]
      BY <1>2, <2>1
    <2>3. \A i \in DOMAIN s : i = 1 \/ (i - 1 \in DOMAIN Tail(s) /\ Tail(s)[i - 1] = s[i])
      BY <2>1, <2>2
    <2>4. \A i \in DOMAIN Tail(s) : i + 1 \in DOMAIN s /\ Tail(s)[i] = s[i + 1]
      BY <2>1, <2>2
    <2>5. 1 \in DOMAIN s /\ Head(s) = s[1]
      BY <1>2, <2>1
    <2>6. SeqRange(s) \subseteq {s[1]} \cup SeqRange(Tail(s))
      BY <2>3 DEF SeqRange
    <2>7. {s[1]} \cup SeqRange(Tail(s)) \subseteq SeqRange(s)
      BY <2>4, <2>5 DEF SeqRange
    <2> QED
      BY <2>5, <2>6, <2>7
  <1>3. ASSUME s # <<>>, Len(s) <= 1 PROVE SeqRange(s) = {s[1]}
    <2>1. Len(s) \in Nat /\ Len(s) >= 1 /\ DOMAIN s = 1 .. Len(s)
      BY <1>3
    <2>2. DOMAIN s = {1}
      BY <1>3, <2>1
    <2> QED
      BY <2>2 DEF SeqRange
  <1>4. SeqRange(<<e>>) = {e} /\ SeqRange(<<>>) = {}
    BY DEF SeqRange
  <1> QED
    BY <1>1, <1>2, <1>3, <1>4

\* How each step that touches the channel, the loops or the index changes the
\* set of post IDs that are indexed or underway.
LEMMA KeySend ==
  ASSUME TypeOK, CallInv, NEW r \in Requests, SendPostToKeywordDB(r)
  PROVE  KeywordIds' = KeywordIds \cup {Len(posts) + 1} /\ missed' = missed
  <1> DEFINE m == [id |-> Len(posts) + 1, text |-> req[r].text]
  <1>1. m \in Message
    BY BucketElements
    DEF SendPostToKeywordDB, TypeOK, CallTypes, Call, Message, CallInv, CallsChecked, CallChecked, ReadyToStore
  <1>2. SeqRange(queue') = SeqRange(queue) \cup {m}
    <2>1. queue \in Seq(Message) /\ queue' = Append(queue, m)
      BY DEF SendPostToKeywordDB, TypeOK, KeyTypes
    <2> HIDE DEF m
    <2> QED
      BY <1>1, <2>1, AppendElements DEF SeqRange
  <1>3. Underway' = Underway \cup {m}
    BY <1>2 DEF SendPostToKeywordDB, Underway, InHand
  <1> QED
    BY <1>3 DEF KeywordIds, SendPostToKeywordDB

LEMMA KeyLoop ==
  ASSUME TypeOK, NEW l \in Loops, KeywordDBLoop(l)
  PROVE  /\ KeywordIds' \subseteq KeywordIds
         /\ KeywordIds \cup missed \subseteq KeywordIds' \cup missed'
  <1> USE DEF TypeOK, KeyTypes
  <1>1. CASE KeywordReceive(l)
    <2>1. queue # <<>> /\ queue' = Tail(queue) /\ hand[l] = <<>> /\ hand' = [hand EXCEPT ![l] = <<Head(queue)>>]
      BY <1>1 DEF KeywordReceive
    <2>2. SeqRange(queue) = {Head(queue)} \cup SeqRange(queue') /\ Head(queue) \in Message
      BY <2>1, RangeFacts, SeqElements
    <2>3. SeqRange(hand[l]) = {} /\ SeqRange(hand'[l]) = {Head(queue)}
      BY <2>1, <2>2, RangeFacts
    <2>4. \A k \in Loops \ {l} : hand'[k] = hand[k]
      BY <2>1
    <2>5. InHand' = InHand \cup {Head(queue)}
      <3>1. \A k \in Loops : SeqRange(hand'[k]) = IF k = l THEN {Head(queue)} ELSE SeqRange(hand[k])
        BY <2>3, <2>4
      <3>2. InHand' \subseteq InHand \cup {Head(queue)}
        BY <3>1 DEF InHand
      <3>3. InHand \subseteq InHand'
        BY <2>3, <3>1 DEF InHand
      <3>4. Head(queue) \in InHand'
        BY <3>1 DEF InHand
      <3> QED
        BY <3>2, <3>3, <3>4
    <2>6. Underway' = Underway
      BY <2>2, <2>5 DEF Underway
    <2> QED
      BY <1>1, <2>6 DEF KeywordIds, KeywordReceive
  <1>2. CASE KeywordIndex(l)
    <2>1. hand[l] # <<>> /\ hand' = [hand EXCEPT ![l] = <<>>] /\ queue' = queue
      BY <1>2 DEF KeywordIndex
    <2>2. hand[l] \in Seq(Message) /\ Len(hand[l]) <= 1 /\ hand[l][1] \in Message
      BY <2>1, SeqElements
    <2>3. SeqRange(hand[l]) = {hand[l][1]} /\ SeqRange(hand'[l]) = {}
      BY <2>1, <2>2, RangeFacts
    <2>4. \A k \in Loops \ {l} : hand'[k] = hand[k]
      BY <2>1
    <2>5. Underway = Underway' \cup {hand[l][1]}
      BY <2>1, <2>3, <2>4 DEF Underway, InHand
    <2>6. PICK i, x : i = hand[l][1].id /\ x = hand[l][1].text
      OBVIOUS
    <2>7. IndexPost(i, x)
      BY <1>2, <2>6 DEF KeywordIndex
    <2>8. /\ DOMAIN index' \subseteq DOMAIN index \cup {i}
          /\ DOMAIN index \cup missed \cup {i} \subseteq DOMAIN index' \cup missed'
      BY <2>7, IndexPostFacts
    <2>9. {m.id : m \in Underway} = {m.id : m \in Underway'} \cup {i}
      BY <2>5, <2>6
    <2> QED
      BY <2>8, <2>9 DEF KeywordIds
  <1> QED
    BY <1>1, <1>2 DEF KeywordDBLoop

LEMMA KeyStop ==
  ASSUME NEW state, Stop(state)
  PROVE  KeywordIds' = DOMAIN index
  <1>1. SeqRange(queue') = {} /\ \A l \in Loops : SeqRange(hand'[l]) = {}
    BY DEF Stop, SeqRange
  <1>2. Underway' = {}
    BY <1>1 DEF Underway, InHand
  <1> QED
    BY <1>2 DEF KeywordIds, Stop

LEMMA KeyPopulate ==
  ASSUME Restart \/ Repopulate \/ PopulateNext
  PROVE  KeywordIds' \subseteq KeywordIds \cup DOMAIN posts /\ posts' = posts
  <1>1. Underway' = Underway /\ posts' = posts
    BY DEF Restart, Repopulate, PopulateNext, Underway, InHand, keys, db
  <1>2. DOMAIN index' \subseteq DOMAIN index \cup DOMAIN posts
    <2>1. CASE PopulateNext
      <3>1. ASSUME NEW i \in DOMAIN posts, IndexPost(i, posts[i].text)
            PROVE  DOMAIN index' \subseteq DOMAIN index \cup DOMAIN posts
        BY <3>1, IndexPostFacts
      <3> QED
        BY <2>1, <3>1 DEF PopulateNext
    <2>2. CASE Restart \/ Repopulate
      BY <2>2 DEF Restart, Repopulate, keys
    <2> QED
      BY <2>1, <2>2
  <1> QED
    BY <1>1, <1>2 DEF KeywordIds

KeyInv == PhantomIsNextPost /\ NoPostForgotten /\ SentBeforeCommit

LEMMA KeyStep ==
  ASSUME TypeOK, CallInv, KeyInv, [Next]_vars
  PROVE  KeyInv'
  <1> USE DEF KeyInv
  <1>0. Len(posts) \in Nat /\ DOMAIN posts = 1 .. Len(posts)
    BY BucketElements DEF TypeOK
  <1>1. ASSUME NEW r \in Requests, SendPostToKeywordDB(r) PROVE KeyInv'
    <2>1. KeywordIds' = KeywordIds \cup {Len(posts) + 1} /\ UNCHANGED <<posts, missed, server>>
      BY <1>1, KeySend DEF SendPostToKeywordDB, db
    <2>2. PhantomIsNextPost'
      <3>1. Len(posts) + 1 \in 1 .. Len(posts) + 1
        BY <1>0
      <3> QED
        BY <2>1, <3>1 DEF PhantomIsNextPost
    <2> QED
      BY <2>1, <2>2 DEF NoPostForgotten, SentBeforeCommit, RunsOn
  <1>2. ASSUME NEW r \in Requests, EndUpdate(r), UNCHANGED <<keys, server>>,
               \/ DOMAIN posts' = DOMAIN posts \cup {Len(posts) + 1} /\ Len(posts') = Len(posts) + 1
               \/ posts' = posts
        PROVE  KeyInv'
    <2>1. KeywordIds' = KeywordIds /\ server' = server /\ missed' = missed
      BY <1>2 DEF KeywordIds, Underway, InHand, keys
    <2>2. \A p \in Requests : pc'[p] # "commit"
      BY <1>2 DEF EndUpdate, Answer, Goto, CallInv, CallsChecked, CallChecked, TypeOK, CallTypes
    <2>3. NoPostForgotten'
      BY <1>2, <2>1 DEF EndUpdate, NoPostForgotten, SentBeforeCommit, RunsOn
    <2>4. PhantomIsNextPost'
      BY <1>0, <1>2, <2>1 DEF PhantomIsNextPost
    <2> QED
      BY <2>1, <2>2, <2>3, <2>4 DEF SentBeforeCommit, RunsOn
  <1>3. ASSUME NEW r \in Requests, CommitPost(r) \/ CommitThread(r) \/ CommitFails(r) PROVE KeyInv'
    <2>1. CASE CommitFails(r)
      BY <1>2, <2>1 DEF CommitFails, db
    <2>2. CASE CommitPost(r) \/ CommitThread(r)
      <3>1. DOMAIN posts' = DOMAIN posts \cup {Len(posts) + 1}
        BY <2>2, CommitFacts
      <3>2. Len(posts') = Len(posts) + 1
        BY <2>2, CommitFacts
      <3> QED
        BY <1>2, <2>2, <3>1, <3>2 DEF CommitPost, CommitThread
    <2> QED
      BY <1>3, <2>1, <2>2
  <1>4. ASSUME NEW l \in Loops, KeywordDBLoop(l) PROVE KeyInv'
    <2>1. /\ KeywordIds' \subseteq KeywordIds /\ KeywordIds \cup missed \subseteq KeywordIds' \cup missed'
          /\ posts' = posts /\ server' = server /\ pc' = pc
      BY <1>4, KeyLoop DEF KeywordDBLoop, KeywordReceive, KeywordIndex, db, calls
    <2> QED
      BY <2>1 DEF PhantomIsNextPost, NoPostForgotten, SentBeforeCommit, RunsOn
  <1>5. ASSUME NEW state \in {"down", "panicked"}, Stop(state), ~RunsOn PROVE KeyInv'
    <2>1. KeywordIds' \subseteq KeywordIds /\ posts' = posts
      BY <1>5, KeyStop DEF Stop, KeywordIds, db
    <2> QED
      BY <1>5, <2>1 DEF PhantomIsNextPost, NoPostForgotten, SentBeforeCommit, RunsOn
  <1>6. ASSUME NEW r \in Requests, ShortPath(r) PROVE ~RunsOn
    BY <1>6 DEF ShortPath, RunsOn, CallInv, CallsChecked, CallChecked
  <1>7. ASSUME Restart \/ Repopulate \/ PopulateNext PROVE KeyInv'
    <2>1. KeywordIds' \subseteq KeywordIds \cup DOMAIN posts /\ posts' = posts
      BY <1>7, KeyPopulate
    <2>2. ~RunsOn
      BY <1>7 DEF Restart, Repopulate, PopulateNext, SentBeforeCommit
    <2> QED
      <3>1. PhantomIsNextPost'
        BY <1>0, <2>1 DEF PhantomIsNextPost
      <3> QED
        BY <2>2, <3>1 DEF NoPostForgotten, SentBeforeCommit, RunsOn
  <1>8. ASSUME UNCHANGED <<posts, keys, server>>, \A p \in Requests : pc'[p] = "commit" => pc[p] = "commit"
        PROVE  KeyInv'
    BY <1>8
    DEF PhantomIsNextPost, NoPostForgotten, SentBeforeCommit, RunsOn, KeywordIds, Underway, InHand, keys
  <1>9. ASSUME NEW r \in Requests,
               Arrive(r) \/ LookupSubforum(r) \/ CheckForPostNudge(r) \/ UpdateForPostNudge(r) \/ BeginUpdate(r)
        PROVE  UNCHANGED <<posts, keys, server>> /\ \A p \in Requests : pc'[p] = "commit" => pc[p] = "commit"
    BY <1>9
    DEF Arrive, NewPostHandler, CreateThreadHandler, LookupSubforum, CheckForPostNudge, UpdateForPostNudge,
        BeginUpdate, Goto, Answer, TypeOK, CallTypes, db
  <1>10. ASSUME Moderate \/ UNCHANGED vars
         PROVE  UNCHANGED <<posts, keys, server>> /\ \A p \in Requests : pc'[p] = "commit" => pc[p] = "commit"
    BY <1>10 DEF Moderate, MuteOrUnmuteThread, Mute, Unmute, db, calls, keys, vars
  <1>11. ASSUME NEW r \in Requests, Arrive(r) \/ Handle(r) PROVE KeyInv'
    <2>1. CASE ShortPath(r)
      BY <1>5, <1>6, <2>1 DEF ShortPath
    <2>2. CASE Arrive(r) \/ LookupSubforum(r) \/ CheckForPostNudge(r) \/ UpdateForPostNudge(r) \/ BeginUpdate(r)
      BY <1>8, <1>9, <2>2
    <2> QED
      BY <1>1, <1>3, <1>11, <2>1, <2>2 DEF Handle
  <1>12. ASSUME Process PROVE KeyInv'
    BY <1>5, <1>7, <1>12 DEF Process, Crash, RunsOn
  <1> QED
    BY <1>4, <1>8, <1>10, <1>11, <1>12 DEF Next
-----------------------------------------------------------------------------
\* The two commits add one post at the end of bucket posts and enter it at the
\* end of one thread; lock and unlock leave both orders alone.
LEMMA AgreeStep ==
  ASSUME TypeOK, CallInv, PostsAndThreadsAgree, [Next]_vars
  PROVE  PostsAndThreadsAgree'
  <1> DEFINE i == Len(posts) + 1
  <1> USE DEF PostIsInItsThread, ThreadHasItsPosts, PostsAndThreadsAgree
  <1>1. CASE UNCHANGED db
    BY <1>1 DEF db
  <1>2. ASSUME NEW r \in Requests, CommitPost(r) PROVE PostsAndThreadsAgree'
    <2> DEFINE t == req[r].thread
               k == Len(threads[t].posts) + 1
    <2>1. t \in DOMAIN threads
      BY <1>2 DEF CommitPost, EndUpdate, CallInv, CallsChecked, CallChecked, MayPostInThread
    <2>2. threads[t].posts \in Seq(Nat) /\ i \in Nat
      BY <2>1, BucketElements DEF TypeOK
    <2>3. threads' = [threads EXCEPT ![t].posts = Append(@, i)]
      BY <1>2 DEF CommitPost, OnNewPost
    <2>4. /\ DOMAIN threads' = DOMAIN threads
          /\ \A s \in DOMAIN threads : threads'[s].user = threads[s].user
          /\ \A s \in DOMAIN threads \ {t} : threads'[s].posts = threads[s].posts
          /\ threads'[t].posts = Append(threads[t].posts, i)
      <3>1. /\ DOMAIN threads' = DOMAIN threads
            /\ \A s \in DOMAIN threads \ {t} : threads'[s] = threads[s]
            /\ threads'[t] = [threads[t] EXCEPT !.posts = Append(@, i)]
        BY <2>1, <2>3 DEF TypeOK, BucketTypes
      <3>2. threads[t] \in Thread
        BY <2>1, BucketElements DEF TypeOK
      <3>3. threads'[t].user = threads[t].user /\ threads'[t].posts = Append(threads[t].posts, i)
        BY <3>1, <3>2 DEF Thread
      <3> QED
        BY <3>1, <3>3
    <2>5. /\ DOMAIN threads'[t].posts = DOMAIN threads[t].posts \cup {k}
          /\ k \notin DOMAIN threads[t].posts
          /\ threads'[t].posts[k] = i
          /\ \A j \in DOMAIN threads[t].posts : threads'[t].posts[j] = threads[t].posts[j]
      <3> DEFINE ps == threads[t].posts
      <3>1. ps \in Seq(Nat)
        BY <2>2
      <3> HIDE DEF ps, i
      <3>2. /\ DOMAIN Append(ps, i) = DOMAIN ps \cup {Len(ps) + 1} /\ Len(ps) + 1 \notin DOMAIN ps
            /\ Append(ps, i)[Len(ps) + 1] = i
            /\ \A j \in DOMAIN ps : Append(ps, i)[j] = ps[j]
        BY <2>2, <3>1, AppendElements
      <3> QED
        BY <2>4, <3>2 DEF ps
    <2>6. /\ i \notin DOMAIN posts /\ DOMAIN posts' = DOMAIN posts \cup {i}
          /\ \A j \in DOMAIN posts : posts'[j] = posts[j]
      BY <1>2, CommitFacts
    <2>7. posts'[i].thread = t /\ posts'[i].index = k
      <3> DEFINE e == [text |-> req[r].text, user |-> req[r].user, thread |-> t, index |-> k]
      <3>1. posts' = Append(posts, e) /\ posts \in Seq(Post)
        BY <1>2 DEF CommitPost, OnNewPost, AddNewPostToDatabase, TypeOK, BucketTypes
      <3>2. posts'[i] = e
        <4> HIDE DEF e
        <4> QED
          BY <3>1
      <3> QED
        BY <3>2
    <2> HIDE DEF PostIsInItsThread, ThreadHasItsPosts, PostsAndThreadsAgree, t, k, i
    <2>8. ASSUME NEW j \in DOMAIN posts' PROVE PostIsInItsThread(j)'
      <3>1. CASE j = i
        BY <2>1, <2>4, <2>5, <2>7, <3>1 DEF PostIsInItsThread
      <3>2. CASE j \in DOMAIN posts
        <4> DEFINE m == posts[j].index
                   s == posts[j].thread
        <4>1. posts'[j] = posts[j]
          BY <2>6, <3>2
        <4>2. s \in DOMAIN threads /\ m \in DOMAIN threads[s].posts /\ threads[s].posts[m] = j
          BY <3>2 DEF PostsAndThreadsAgree, PostIsInItsThread
        <4>3. s \in DOMAIN threads' /\ m \in DOMAIN threads'[s].posts /\ threads'[s].posts[m] = j
          <5> HIDE DEF m, s
          <5>1. CASE s = t
            BY <2>4, <2>5, <4>2, <5>1
          <5>2. CASE s # t
            BY <2>4, <4>2, <5>2
          <5> QED
            BY <5>1, <5>2
        <4> QED
          BY <4>1, <4>3 DEF PostIsInItsThread
      <3> QED
        BY <2>6, <2>8, <3>1, <3>2
    <2>9. ASSUME NEW s \in DOMAIN threads' PROVE ThreadHasItsPosts(s)'
      <3>1. s \in DOMAIN threads /\ ThreadHasItsPosts(s)
        BY <2>4, <2>9 DEF PostsAndThreadsAgree
      <3>2. \A j \in DOMAIN posts : j \in DOMAIN posts' /\ posts'[j] = posts[j]
        BY <2>6
      <3>3. CASE s = t
        <4>1. ASSUME NEW j \in DOMAIN threads'[t].posts
              PROVE  /\ threads'[t].posts[j] \in DOMAIN posts'
                     /\ posts'[threads'[t].posts[j]].thread = t /\ posts'[threads'[t].posts[j]].index = j
          <5>1. CASE j = k
            BY <2>5, <2>6, <2>7, <5>1
          <5>2. CASE j \in DOMAIN threads[t].posts
            <6>1. threads'[t].posts[j] = threads[t].posts[j]
              BY <2>5, <5>2
            <6>2. /\ threads[t].posts[j] \in DOMAIN posts
                  /\ posts[threads[t].posts[j]].thread = t /\ posts[threads[t].posts[j]].index = j
              BY <3>1, <3>3, <5>2 DEF ThreadHasItsPosts
            <6> QED
              BY <3>2, <6>1, <6>2
          <5> QED
            BY <2>5, <4>1, <5>1, <5>2
        <4>2. 1 \in DOMAIN threads'[t].posts /\ posts'[threads'[t].posts[1]].user = threads'[t].user
          <5>1. /\ 1 \in DOMAIN threads[t].posts /\ threads[t].posts[1] \in DOMAIN posts
                /\ posts[threads[t].posts[1]].user = threads[t].user
            BY <3>1, <3>3 DEF ThreadHasItsPosts
          <5>2. 1 \in DOMAIN threads'[t].posts /\ threads'[t].posts[1] = threads[t].posts[1]
            BY <2>5, <5>1
          <5> QED
            BY <2>1, <2>4, <3>2, <5>1, <5>2
        <4> QED
          BY <3>3, <4>1, <4>2 DEF ThreadHasItsPosts
      <3>4. CASE s # t
        <4>1. threads'[s].posts = threads[s].posts /\ threads'[s].user = threads[s].user
          BY <2>4, <3>1, <3>4
        <4> QED
          BY <3>1, <3>2, <4>1 DEF ThreadHasItsPosts
      <3> QED
        BY <3>3, <3>4
    <2> QED
      BY <2>8, <2>9 DEF PostsAndThreadsAgree
  <1>3. ASSUME NEW r \in Requests, CommitThread(r) PROVE PostsAndThreadsAgree'
    <2> DEFINE t == Len(threads) + 1
    <2>1. /\ DOMAIN threads' = DOMAIN threads \cup {t} /\ t \notin DOMAIN threads
          /\ \A s \in DOMAIN threads : threads'[s] = threads[s]
          /\ threads'[t] = [user |-> req[r].user, locked |-> FALSE, posts |-> <<i>>]
      BY <1>3, BucketElements DEF CommitThread, OnNewThread, TypeOK, BucketTypes
    <2>2. DOMAIN threads'[t].posts = {1} /\ threads'[t].posts[1] = i /\ threads'[t].user = req[r].user
      BY <2>1
    <2>3. /\ i \notin DOMAIN posts /\ DOMAIN posts' = DOMAIN posts \cup {i}
          /\ \A j \in DOMAIN posts : posts'[j] = posts[j]
          /\ posts'[i].user = req[r].user
      BY <1>3, CommitFacts
    <2>4. posts'[i].thread = t /\ posts'[i].index = 1
      <3> DEFINE e == [text |-> req[r].text, user |-> req[r].user, thread |-> t, index |-> 1]
      <3>1. posts' = Append(posts, e) /\ posts \in Seq(Post)
        BY <1>3 DEF CommitThread, OnNewThread, AddNewPostToDatabase, TypeOK, BucketTypes
      <3>2. posts'[i] = e
        <4> HIDE DEF e
        <4> QED
          BY <3>1
      <3> QED
        BY <3>2
    <2>5. ASSUME NEW j \in DOMAIN posts' PROVE PostIsInItsThread(j)'
      BY <2>1, <2>2, <2>3, <2>4, <2>5
    <2>6. ASSUME NEW s \in DOMAIN threads' PROVE ThreadHasItsPosts(s)'
      BY <2>1, <2>2, <2>3, <2>4, <2>6
    <2> QED
      BY <2>5, <2>6
  <1>4. ASSUME NEW t \in DOMAIN threads, NEW b \in BOOLEAN, MuteOrUnmuteThread(t, b) PROVE PostsAndThreadsAgree'
    <2>1. /\ DOMAIN threads' = DOMAIN threads /\ posts' = posts
          /\ \A s \in DOMAIN threads : threads'[s].user = threads[s].user /\ threads'[s].posts = threads[s].posts
      <3>1. /\ DOMAIN threads' = DOMAIN threads /\ posts' = posts
            /\ \A s \in DOMAIN threads \ {t} : threads'[s] = threads[s]
            /\ threads'[t] = [threads[t] EXCEPT !.locked = b]
        BY <1>4 DEF MuteOrUnmuteThread, TypeOK, BucketTypes
      <3>2. threads[t] \in Thread
        BY BucketElements DEF TypeOK
      <3>3. threads'[t].user = threads[t].user /\ threads'[t].posts = threads[t].posts
        BY <3>1, <3>2 DEF Thread
      <3> QED
        BY <3>1, <3>3
    <2> QED
      BY <2>1
  <1> QED
    BY <1>1, <1>2, <1>3, <1>4, BucketSteps DEF TypeOK
-----------------------------------------------------------------------------
\* The invariant holds at the start.
LEMMA IndInit == Init => IndInv
  <1> SUFFICES ASSUME Init PROVE IndInv
    OBVIOUS
  <1>1. TypeOK
    BY TypeInit
  <1>2. CallInv
    BY DEF Init, CallInv, CallsChecked, CallChecked, WriterIsInUpdate
  <1>3. PostsAndThreadsAgree /\ NudgedBeforePosting
    BY DEF Init, PostsAndThreadsAgree, NudgedBeforePosting
  <1>4. KeyInv
    <2>1. KeywordIds = {}
      BY DEF Init, KeywordIds, Underway, InHand, SeqRange
    <2> QED
      BY <2>1 DEF Init, KeyInv, PhantomIsNextPost, NoPostForgotten, SentBeforeCommit
  <1> QED
    BY <1>1, <1>2, <1>3, <1>4 DEF IndInv, CallInv, KeyInv

\* Every step keeps it.
LEMMA IndStep == IndInv /\ [Next]_vars => IndInv'
  <1> SUFFICES ASSUME IndInv, [Next]_vars PROVE IndInv'
    OBVIOUS
  <1>1. TypeOK /\ CallInv /\ KeyInv
    BY DEF IndInv, CallInv, KeyInv
  <1>2. TypeOK'
    BY TypeStep DEF IndInv
  <1>3. CallInv'
    BY <1>1, CallStep
  <1>4. PostsAndThreadsAgree'
    BY <1>1, AgreeStep DEF IndInv
  <1>5. NudgedBeforePosting'
    BY <1>1, NudgeStep DEF IndInv
  <1>6. KeyInv'
    BY <1>1, KeyStep
  <1> QED
    BY <1>2, <1>3, <1>4, <1>5, <1>6 DEF IndInv, CallInv, KeyInv

\* The inductive invariant of the specification.
THEOREM Inductive == Spec => []IndInv
  BY IndInit, IndStep, PTL DEF Spec

\* Every bucket, flag, request and message keeps its type.
THEOREM TypeCorrect == Spec => []TypeOK
  <1>1. IndInv => TypeOK
    BY DEF IndInv
  <1> QED
    BY <1>1, Inductive, PTL

\* Search and the thread view never meet a post without its thread, a thread
\* without its posts, or an index that points elsewhere: after any interleaving
\* of commits, failed commits, crashes and restarts.
THEOREM BucketsAgree == Spec => []PostsAndThreadsAgree
  <1>1. IndInv => PostsAndThreadsAgree
    BY DEF IndInv
  <1> QED
    BY <1>1, Inductive, PTL

\* The flag for the reminder is cleared for every author of a stored post.
THEOREM Nudged == Spec => []NudgedBeforePosting
  <1>1. IndInv => NudgedBeforePosting
    BY DEF IndInv
  <1> QED
    BY <1>1, Inductive, PTL

\* Whatever fails or crashes, an index entry without a post is for the next ID.
THEOREM PhantomBound == Spec => []PhantomIsNextPost
  <1>1. IndInv => PhantomIsNextPost
    BY DEF IndInv
  <1> QED
    BY <1>1, Inductive, PTL

\* As long as the process runs on, every stored post is indexed, underway, or one
\* that index.Index returned an error for, for any channel capacity and any number
\* of loops: nothing else loses a post.
THEOREM NothingForgotten == Spec => []NoPostForgotten
  <1>1. IndInv => NoPostForgotten
    BY DEF IndInv
  <1> QED
    BY <1>1, Inductive, PTL
-----------------------------------------------------------------------------
(***************************************************************************)
(* Threads implements the Board.                                           *)
(***************************************************************************)
\* A sequence with one more position than s, the last one e, is Append(s, e).
LEMMA AppendByPositions ==
  ASSUME NEW S, NEW s \in Seq(S), NEW e \in S, NEW g \in Seq(S),
         Len(g) = Len(s) + 1, \A k \in DOMAIN s : g[k] = s[k], g[Len(s) + 1] = e
  PROVE  g = Append(s, e)
  <1>1. Append(s, e) \in Seq(S) /\ Len(Append(s, e)) = Len(g)
    OBVIOUS
  <1>2. \A k \in 1 .. Len(g) : g[k] = Append(s, e)[k]
    OBVIOUS
  <1> QED
    BY <1>1, <1>2, SeqEqual

ViewOK ==
  /\ view \in Seq(B!Thread) /\ DOMAIN view = DOMAIN threads /\ Len(view) = Len(threads)
  /\ \A t \in DOMAIN threads :
       /\ PostsShown(t) \in Seq(B!Post)
       /\ Len(PostsShown(t)) = Len(threads[t].posts)
       /\ DOMAIN PostsShown(t) = DOMAIN threads[t].posts

\* The view is a board.
LEMMA ViewType == IndInv => ViewOK
  <1> SUFFICES ASSUME IndInv PROVE ViewOK
    OBVIOUS
  <1> USE DEF IndInv, TypeOK
  <1>1. ASSUME NEW i \in DOMAIN posts PROVE PostShown(i) \in B!Post
    BY BucketElements DEF PostShown, B!Post
  <1>2. ASSUME NEW t \in DOMAIN threads
        PROVE  /\ PostsShown(t) \in Seq(B!Post)
               /\ Len(PostsShown(t)) = Len(threads[t].posts)
               /\ DOMAIN PostsShown(t) = DOMAIN threads[t].posts
    <2>1. threads[t].posts \in Seq(Nat)
      BY BucketElements
    <2>2. \A k \in DOMAIN threads[t].posts : PostShown(threads[t].posts[k]) \in B!Post
      BY <1>1 DEF PostsAndThreadsAgree, ThreadHasItsPosts
    <2>3. DOMAIN threads[t].posts = 1 .. Len(threads[t].posts) /\ Len(threads[t].posts) \in Nat
      BY <2>1
    <2>4. PostsShown(t) = [k \in 1 .. Len(threads[t].posts) |-> PostShown(threads[t].posts[k])]
      BY <2>3 DEF PostsShown
    <2> QED
      BY <2>2, <2>3, <2>4
  <1>3. ASSUME NEW t \in DOMAIN threads PROVE ThreadShown(t) \in B!Thread
    <2>1. threadToSf[t] \in Subforums /\ threads[t].locked \in BOOLEAN
      BY BucketElements DEF BucketTypes
    <2>2. PostsShown(t) \in Seq(B!Post)
      BY <1>2
    <2> QED
      BY <2>1, <2>2 DEF ThreadShown, B!Thread
  <1>4. DOMAIN threads = 1 .. Len(threads) /\ Len(threads) \in Nat
    BY BucketElements
  <1>5. view = [t \in 1 .. Len(threads) |-> ThreadShown(t)]
    BY <1>4 DEF view
  <1>6. view \in Seq(B!Thread) /\ DOMAIN view = DOMAIN threads /\ Len(view) = Len(threads)
    BY <1>3, <1>4, <1>5
  <1> QED
    BY <1>2, <1>6 DEF ViewOK

\* So it is after a step that keeps the invariant.
LEMMA ViewTypeNext == IndInv' => ViewOK'
  BY ViewType, PTL

\* A thread that a step does not touch is shown as before: its posts are still there.
LEMMA ShownAsBefore ==
  ASSUME IndInv, NEW t \in DOMAIN threads,
         threads'[t] = threads[t], threadToSf'[t] = threadToSf[t],
         \A i \in DOMAIN posts : posts'[i] = posts[i]
  PROVE  ThreadShown(t)' = ThreadShown(t)
  <1>1. \A k \in DOMAIN threads[t].posts : threads[t].posts[k] \in DOMAIN posts
    BY DEF IndInv, PostsAndThreadsAgree, ThreadHasItsPosts
  <1>2. \A k \in DOMAIN threads[t].posts : posts'[threads[t].posts[k]] = posts[threads[t].posts[k]]
    BY <1>1
  <1> QED
    BY <1>2 DEF ThreadShown, PostsShown, PostShown

\* A committed reply is a Reply of the Board: what was checked before the
\* transaction and under its lock is what the Board asks for at that moment.
LEMMA CommitPostIsReply ==
  ASSUME IndInv, IndInv', NEW r \in Requests, CommitPost(r), NEW t, t = req[r].thread
  PROVE  t \in DOMAIN view /\ B!Reply(req[r].user, t, req[r].text)
  <1> DEFINE u == req[r].user
             i == Len(posts) + 1
             e == [user |-> req[r].user, text |-> req[r].text]
             ps == threads[t].posts
  <1> USE DEF IndInv, TypeOK
  <1>1. /\ pc[r] = "commit" /\ req[r].kind = "reply" /\ t \in DOMAIN threads /\ CallInv
        /\ u \in Users /\ req[r].text \in Texts
    BY DEF CommitPost, EndUpdate, CallInv, CallsChecked, CallChecked, MayPostInThread, ReadyToStore, CallTypes, Call
  <1>2. /\ Is(Privilege[u], ReplyPrivilege[threadToSf[t]])
        /\ threads[t].locked => Is(Privilege[u], Mod)
    BY <1>1 DEF CallsChecked, CallChecked, MayReplyInSubforum, MayPostInThread
  <1>3. /\ ViewOK /\ view[t].subforum = threadToSf[t] /\ view[t].locked = threads[t].locked
        /\ view[t] = ThreadShown(t)
    BY <1>1, ViewType DEF view, ThreadShown
  <1>4. /\ i \notin DOMAIN posts /\ DOMAIN posts' = DOMAIN posts \cup {i}
        /\ \A j \in DOMAIN posts : posts'[j] = posts[j]
    BY <1>1, CommitFacts
  <1>5. posts'[i].user = u /\ posts'[i].text = req[r].text
    BY <1>1 DEF CommitPost, OnNewPost, AddNewPostToDatabase, BucketTypes
  <1>6. threadToSf' = threadToSf /\ threads' = [threads EXCEPT ![t].posts = Append(@, i)]
    BY DEF CommitPost, OnNewPost
  <1>7. /\ DOMAIN threads' = DOMAIN threads
        /\ \A s \in DOMAIN threads \ {t} : threads'[s] = threads[s]
        /\ threads'[t].locked = threads[t].locked
        /\ threads'[t].posts = Append(ps, i)
    <2>1. threads'[t] = [threads[t] EXCEPT !.posts = Append(@, i)]
      BY <1>1, <1>6 DEF BucketTypes
    <2>2. threads[t] \in Thread
      BY <1>1, BucketElements
    <2>3. threads'[t].locked = threads[t].locked /\ threads'[t].posts = Append(ps, i)
      BY <2>1, <2>2 DEF Thread
    <2> QED
      BY <1>1, <1>6, <2>3 DEF BucketTypes
  <1>8. \A s \in DOMAIN threads \ {t} : ThreadShown(s)' = ThreadShown(s)
    BY <1>4, <1>6, <1>7, ShownAsBefore
  <1>9. PostsShown(t)' = Append(PostsShown(t), e)
    <2>1. /\ ps \in Seq(Nat) /\ i \in Nat
          /\ \A k \in DOMAIN ps : ps[k] \in DOMAIN posts
      BY <1>1, BucketElements DEF PostsAndThreadsAgree, ThreadHasItsPosts
    <2>2. /\ PostsShown(t) \in Seq(B!Post) /\ Len(PostsShown(t)) = Len(ps)
          /\ DOMAIN PostsShown(t) = DOMAIN ps
      BY <1>1, <1>3 DEF ViewOK
    <2>3. PostsShown(t)' \in Seq(B!Post) /\ Len(PostsShown(t)') = Len(threads'[t].posts)
          /\ DOMAIN PostsShown(t)' = DOMAIN threads'[t].posts
      BY <1>1, <1>7, ViewTypeNext DEF ViewOK
    <2>4. /\ Len(threads'[t].posts) = Len(ps) + 1 /\ Len(ps) + 1 \in DOMAIN threads'[t].posts
          /\ threads'[t].posts[Len(ps) + 1] = i
          /\ \A k \in DOMAIN ps : k \in DOMAIN threads'[t].posts /\ threads'[t].posts[k] = ps[k]
      <3> HIDE DEF ps, i
      <3> QED
        BY <1>7, <2>1
    <2>5. ASSUME NEW k \in DOMAIN ps PROVE PostsShown(t)'[k] = PostsShown(t)[k]
      <3>1. k \in DOMAIN threads'[t].posts /\ threads'[t].posts[k] = ps[k] /\ posts'[ps[k]] = posts[ps[k]]
        BY <1>4, <2>1, <2>4
      <3>2. PostsShown(t)'[k] = [user |-> posts[ps[k]].user, text |-> posts[ps[k]].text]
        BY <3>1 DEF PostsShown, PostShown
      <3>3. PostsShown(t)[k] = [user |-> posts[ps[k]].user, text |-> posts[ps[k]].text]
        BY DEF PostsShown, PostShown
      <3> QED
        BY <3>2, <3>3
    <2>6. PostsShown(t)'[Len(ps) + 1] = e
      BY <1>5, <2>4 DEF PostsShown, PostShown
    <2>7. e \in B!Post
      BY <1>1 DEF B!Post
    <2> HIDE DEF e, ps, i
    <2> QED
      BY <2>2, <2>3, <2>4, <2>5, <2>6, <2>7, AppendByPositions
  <1>10. ThreadShown(t)' = [ThreadShown(t) EXCEPT !.posts = Append(@, e)]
    <2>1. threadToSf'[t] = threadToSf[t] /\ threads'[t].locked = threads[t].locked
      BY <1>6, <1>7
    <2>2. ThreadShown(t) = [subforum |-> threadToSf[t], locked |-> threads[t].locked, posts |-> PostsShown(t)]
      BY DEF ThreadShown
    <2>3. ThreadShown(t)' = [subforum |-> threadToSf'[t], locked |-> threads'[t].locked, posts |-> PostsShown(t)']
      BY DEF ThreadShown
    <2>4. ThreadShown(t)' = [subforum |-> threadToSf[t], locked |-> threads[t].locked, posts |-> Append(PostsShown(t), e)]
      BY <1>9, <2>1, <2>3, Zenon
    <2> HIDE DEF e, IndInv, TypeOK
    <2>5. [[subforum |-> threadToSf[t], locked |-> threads[t].locked, posts |-> PostsShown(t)]
             EXCEPT !.posts = Append(@, e)]
            = [subforum |-> threadToSf[t], locked |-> threads[t].locked, posts |-> Append(PostsShown(t), e)]
      <3> DEFINE a == threadToSf[t]
                 b == threads[t].locked
                 q == PostsShown(t)
      <3> HIDE DEF a, b, q
      <3>1. [[subforum |-> a, locked |-> b, posts |-> q] EXCEPT !.posts = Append(@, e)]
              = [subforum |-> a, locked |-> b, posts |-> Append(q, e)]
        OBVIOUS
      <3> QED
        BY <3>1 DEF a, b, q
    <2>6. [ThreadShown(t) EXCEPT !.posts = Append(@, e)]
            = [[subforum |-> threadToSf[t], locked |-> threads[t].locked, posts |-> PostsShown(t)]
                 EXCEPT !.posts = Append(@, e)]
      BY <2>2, Zenon
    <2> QED
      BY <2>4, <2>5, <2>6, Zenon
  <1>11. view' = [view EXCEPT ![t].posts = Append(@, e)]
    <2>1. view' = [s \in DOMAIN threads |-> ThreadShown(s)']
      BY <1>7 DEF view
    <2> QED
      BY <1>1, <1>8, <1>10, <2>1 DEF view
  <1> QED
    BY <1>1, <1>2, <1>3, <1>11 DEF ViewOK, B!Reply, B!Is, B!Mod, Is, Mod

\* A committed thread is an OpenThread of the Board.
LEMMA CommitThreadIsOpen ==
  ASSUME IndInv, IndInv', NEW r \in Requests, CommitThread(r), NEW t, t = Len(threads) + 1
  PROVE  /\ req[r].user \in Users /\ req[r].sf \in Subforums /\ req[r].text \in Texts
         /\ B!OpenThread(req[r].user, req[r].sf, req[r].text)
  <1> DEFINE u == req[r].user
             i == Len(posts) + 1
             new == [subforum |-> req[r].sf, locked |-> FALSE,
                     posts |-> <<[user |-> req[r].user, text |-> req[r].text]>>]
  <1> USE DEF IndInv, TypeOK
  <1>1. /\ CallInv /\ u \in Users /\ req[r].text \in Texts /\ req[r].sf \in Subforums
        /\ Is(Privilege[u], ThreadPrivilege[req[r].sf])
    BY DEF CommitThread, EndUpdate, CallInv, CallsChecked, CallChecked, ReadyToStore, CallTypes, Call
  <1>2. /\ DOMAIN threads' = DOMAIN threads \cup {t} /\ t \notin DOMAIN threads /\ Len(threads') = t
        /\ \A s \in DOMAIN threads : threads'[s] = threads[s]
        /\ threads'[t] = [user |-> u, locked |-> FALSE, posts |-> <<i>>]
    <2> DEFINE th == [user |-> u, locked |-> FALSE, posts |-> <<i>>]
    <2>1. threads \in Seq(Thread) /\ threads' = Append(threads, th)
      BY DEF CommitThread, OnNewThread, BucketTypes
    <2>2. th \in Thread
      BY <1>1, BucketElements DEF Thread
    <2> HIDE DEF th
    <2>3. Len(Append(threads, th)) = Len(threads) + 1
      BY <2>1, <2>2
    <2>4. /\ DOMAIN threads' = DOMAIN threads \cup {t} /\ t \notin DOMAIN threads /\ Len(threads') = t
          /\ \A s \in DOMAIN threads : threads'[s] = threads[s]
          /\ threads'[t] = th
      BY <2>1, <2>2, <2>3, AppendElements
    <2> QED
      BY <2>4 DEF th
  <1>3. threadToSf'[t] = req[r].sf /\ \A s \in DOMAIN threads : threadToSf'[s] = threadToSf[s]
    <2>1. threadToSf' = Put(threadToSf, t, req[r].sf) /\ DOMAIN threadToSf = DOMAIN threads
      BY DEF CommitThread, OnNewThread
    <2> QED
      BY <1>2, <2>1 DEF Put
  <1>4. /\ i \notin DOMAIN posts /\ DOMAIN posts' = DOMAIN posts \cup {i}
        /\ \A j \in DOMAIN posts : posts'[j] = posts[j]
    BY <1>1, CommitFacts
  <1>5. posts'[i].user = u /\ posts'[i].text = req[r].text
    <2> DEFINE p == [text |-> req[r].text, user |-> u, thread |-> t, index |-> 1]
    <2>1. posts' = Append(posts, p) /\ posts \in Seq(Post)
      BY <1>1 DEF CommitThread, OnNewThread, AddNewPostToDatabase, BucketTypes
    <2>2. posts'[i] = p
      <3> HIDE DEF p
      <3> QED
        BY <2>1
    <2> QED
      BY <2>2
  <1>6. \A s \in DOMAIN threads : ThreadShown(s)' = ThreadShown(s)
    BY <1>2, <1>3, <1>4, ShownAsBefore
  <1>7. ThreadShown(t)' = new
    <2>1. threads'[t].locked = FALSE /\ threads'[t].posts = <<i>>
      BY <1>2
    <2>2. DOMAIN threads'[t].posts = 1 .. 1 /\ threads'[t].posts[1] = i
      BY <2>1
    <2>3. PostsShown(t)' = <<[user |-> u, text |-> req[r].text]>>
      BY <1>5, <2>2 DEF PostsShown, PostShown
    <2> QED
      BY <1>3, <2>1, <2>3 DEF ThreadShown
  <1>8. ViewOK /\ ViewOK'
    BY ViewType, ViewTypeNext
  <1>9. /\ Len(view) + 1 = t /\ Len(view') = t
        /\ \A s \in DOMAIN view : view'[s] = view[s]
        /\ view'[t] = new
    BY <1>2, <1>6, <1>7, <1>8 DEF ViewOK, view
  <1>10. view' \in Seq(B!Thread) /\ view \in Seq(B!Thread) /\ new \in B!Thread
    BY <1>1, <1>8 DEF ViewOK, B!Thread, B!Post
  <1>11. view' = Append(view, new)
    BY <1>9, <1>10, AppendByPositions
  <1> QED
    BY <1>1, <1>11 DEF B!OpenThread, B!Is, Is

\* Lock and unlock are the Board's SetLocked.
LEMMA LockIsSetLocked ==
  ASSUME IndInv, NEW t \in DOMAIN threads, NEW b \in BOOLEAN, MuteOrUnmuteThread(t, b)
  PROVE  t \in DOMAIN view /\ B!SetLocked(t, b)
  <1> USE DEF IndInv, TypeOK
  <1>1. /\ DOMAIN threads' = DOMAIN threads /\ posts' = posts /\ threadToSf' = threadToSf
        /\ \A s \in DOMAIN threads \ {t} : threads'[s] = threads[s]
        /\ threads'[t] = [threads[t] EXCEPT !.locked = b]
    BY DEF MuteOrUnmuteThread, BucketTypes
  <1>2. threads'[t].locked = b /\ threads'[t].posts = threads[t].posts
    <2>1. threads[t] \in Thread
      BY BucketElements
    <2> QED
      BY <1>1, <2>1 DEF Thread
  <1>3. \A s \in DOMAIN threads \ {t} : ThreadShown(s)' = ThreadShown(s)
    BY <1>1, ShownAsBefore
  <1>4. ThreadShown(t)' = [ThreadShown(t) EXCEPT !.locked = b]
    <2>1. PostsShown(t)' = PostsShown(t)
      BY <1>1, <1>2 DEF PostsShown, PostShown
    <2> QED
      BY <1>1, <1>2, <2>1 DEF ThreadShown
  <1>5. view' = [view EXCEPT ![t].locked = b]
    <2>1. view' = [s \in DOMAIN threads |-> ThreadShown(s)']
      BY <1>1 DEF view
    <2> QED
      BY <1>3, <1>4, <2>1 DEF view
  <1> QED
    BY <1>5 DEF B!SetLocked, view

\* Every other step leaves the view as it is.
LEMMA OtherStepsStutter ==
  ASSUME UNCHANGED db
  PROVE  view' = view
  BY DEF db, view, ThreadShown, PostsShown, PostShown

\* Threads, with its transactions, failures and crashes, implements the Board.
THEOREM Refinement == Spec => ImplementsBoard
  <1>1. Init => B!Init
    BY DEF Init, B!Init, view
  <1>2. IndInv /\ IndInv' /\ [Next]_vars => [B!Next]_view
    <2> SUFFICES ASSUME IndInv, IndInv', [Next]_vars PROVE [B!Next]_view
      OBVIOUS
    <2>1. CASE UNCHANGED db
      BY <2>1, OtherStepsStutter
    <2>2. ASSUME NEW r \in Requests, CommitPost(r) PROVE B!Next
      <3>1. req[r].user \in Users /\ req[r].text \in Texts
        BY <2>2 DEF CommitPost, EndUpdate, IndInv, TypeOK, CallsChecked, CallChecked, ReadyToStore, CallTypes, Call
      <3>2. PICK t : t = req[r].thread
        OBVIOUS
      <3> QED
        BY <2>2, <3>1, <3>2, CommitPostIsReply DEF B!Next
    <2>3. ASSUME NEW r \in Requests, CommitThread(r) PROVE B!Next
      <3>1. PICK t : t = Len(threads) + 1
        OBVIOUS
      <3> QED
        BY <2>3, <3>1, CommitThreadIsOpen DEF B!Next
    <2>4. ASSUME NEW t \in DOMAIN threads, NEW b \in BOOLEAN, MuteOrUnmuteThread(t, b) PROVE B!Next
      BY <2>4, LockIsSetLocked DEF B!Next
    <2> QED
      BY <2>1, <2>2, <2>3, <2>4, BucketSteps DEF IndInv, TypeOK
  <1> QED
    BY <1>1, <1>2, Inductive, PTL DEF Spec, ImplementsBoard, B!Spec
=============================================================================
