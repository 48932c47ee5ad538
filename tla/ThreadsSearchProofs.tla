-------------------------- MODULE ThreadsSearchProofs --------------------------
(***************************************************************************)
(* More proofs about Threads: what the lists of subforums and users, and   *)
(* the keyword index, say of the buckets of threads and posts.             *)
(***************************************************************************)
EXTENDS ThreadsProofs, FiniteSetTheorems

\* IDs are drawn in rising order.
Rising(s) == \A j, k \in DOMAIN s : j < k => s[j] < s[k]

PostsOf(u) == {i \in DOMAIN posts : posts[i].user = u}
ThreadsOf(u) == {t \in DOMAIN threads : threads[t].user = u}

\* The lists of a user are those of the posts and of the threads of the user.
UserLists ==
  \A u \in Users :
    /\ SeqRange(userPosts[u]) = PostsOf(u) /\ Rising(userPosts[u])
    /\ SeqRange(userThreads[u]) = ThreadsOf(u) /\ Rising(userThreads[u])

\* Adding a larger number to a rising sequence.
LEMMA RisingAppend ==
  ASSUME NEW s \in Seq(Nat), NEW e \in Nat, Rising(s), \A x \in SeqRange(s) : x < e
  PROVE  Rising(Append(s, e)) /\ SeqRange(Append(s, e)) = SeqRange(s) \cup {e}
  <1>1. /\ DOMAIN Append(s, e) = DOMAIN s \cup {Len(s) + 1}
        /\ Append(s, e)[Len(s) + 1] = e
        /\ \A i \in DOMAIN s : Append(s, e)[i] = s[i]
        /\ DOMAIN s = 1 .. Len(s) /\ Len(s) \in Nat
    BY AppendElements, SeqElements
  <1>2. ASSUME NEW j \in DOMAIN Append(s, e), NEW k \in DOMAIN Append(s, e), j < k
        PROVE  Append(s, e)[j] < Append(s, e)[k]
    <2>1. j \in DOMAIN s
      BY <1>1, <1>2
    <2>2. CASE k \in DOMAIN s
      BY <1>1, <1>2, <2>1, <2>2 DEF Rising
    <2>3. CASE k = Len(s) + 1
      BY <1>1, <2>1, <2>3 DEF SeqRange
    <2> QED
      BY <1>1, <2>2, <2>3
  <1>3. Rising(Append(s, e))
    <2> DEFINE a == Append(s, e)
    <2>1. \A j, k \in DOMAIN a : j < k => a[j] < a[k]
      BY <1>2
    <2> HIDE DEF a
    <2>2. Rising(a)
      BY <2>1 DEF Rising
    <2> QED
      BY <2>2 DEF a
  <1>4. SeqRange(Append(s, e)) = SeqRange(s) \cup {e}
    BY <1>1 DEF SeqRange
  <1> QED
    BY <1>3, <1>4

\* A sequence whose elements are all different has as many of them as positions.
LEMMA DistinctElements ==
  ASSUME NEW S, NEW s \in Seq(S), \A j, k \in DOMAIN s : s[j] = s[k] => j = k
  PROVE  Cardinality(SeqRange(s)) = Len(s)
  <1>1. DOMAIN s = 1 .. Len(s) /\ Len(s) \in Nat
    BY SeqElements
  <1>2. IsFiniteSet(1 .. Len(s)) /\ Cardinality(1 .. Len(s)) = Len(s)
    BY <1>1, FS_Interval
  <1>3. s \in Bijection(1 .. Len(s), SeqRange(s))
    BY <1>1 DEF SeqRange, Bijection, Injection, Surjection, IsInjective
  <1> QED
    BY <1>2, <1>3, FS_Bijection DEF ExistsBijection

\* So has a rising one.
LEMMA RisingDistinct ==
  ASSUME NEW s \in Seq(Nat), Rising(s)
  PROVE  (\A j, k \in DOMAIN s : s[j] = s[k] => j = k) /\ Cardinality(SeqRange(s)) = Len(s)
  <1>1. \A j, k \in DOMAIN s : s[j] = s[k] => j = k
    <2>1. ASSUME NEW j \in DOMAIN s, NEW k \in DOMAIN s, s[j] = s[k] PROVE j = k
      <3>1. j \in Nat /\ k \in Nat /\ s[j] \in Nat /\ s[k] \in Nat
        BY SeqElements
      <3>2. ~ (j < k) /\ ~ (k < j)
        BY <2>1, <3>1 DEF Rising
      <3> QED
        BY <3>1, <3>2
    <2> QED
      BY <2>1
  <1> QED
    BY <1>1, DistinctElements
-----------------------------------------------------------------------------
(***************************************************************************)
(* The lists are written in the transactions of posts and threads.         *)
(***************************************************************************)
\* A list to which the newest ID is added stays the list of its set.
LEMMA ListGrows ==
  ASSUME NEW s \in Seq(Nat), Rising(s), NEW n \in Nat, SeqRange(s) \subseteq 1 .. n
  PROVE  /\ Rising(Append(s, n + 1)) /\ SeqRange(Append(s, n + 1)) = SeqRange(s) \cup {n + 1}
         /\ Append(s, n + 1) \in Seq(Nat)
  <1>1. \A x \in SeqRange(s) : x < n + 1
    OBVIOUS
  <1>2. n + 1 \in Nat
    OBVIOUS
  <1> QED
    BY <1>1, <1>2, RisingAppend

\* The numbers of buckets, as the lists need them.
LEMMA ListFacts ==
  ASSUME TypeOK, UserLists
  PROVE  /\ Len(posts) \in Nat /\ DOMAIN posts = 1 .. Len(posts)
         /\ Len(threads) \in Nat /\ DOMAIN threads = 1 .. Len(threads)
         /\ \A u \in Users : /\ userPosts[u] \in Seq(Nat) /\ SeqRange(userPosts[u]) \subseteq 1 .. Len(posts)
                             /\ userThreads[u] \in Seq(Nat) /\ SeqRange(userThreads[u]) \subseteq 1 .. Len(threads)
  <1>1. /\ Len(posts) \in Nat /\ DOMAIN posts = 1 .. Len(posts)
        /\ Len(threads) \in Nat /\ DOMAIN threads = 1 .. Len(threads)
    BY BucketElements DEF TypeOK
  <1>2. ASSUME NEW u \in Users
        PROVE  /\ userPosts[u] \in Seq(Nat) /\ SeqRange(userPosts[u]) \subseteq 1 .. Len(posts)
               /\ userThreads[u] \in Seq(Nat) /\ SeqRange(userThreads[u]) \subseteq 1 .. Len(threads)
    BY <1>1 DEF TypeOK, BucketTypes, UserLists, PostsOf, ThreadsOf
  <1> QED
    BY <1>1, <1>2

\* The list of the author's posts has the new one, the others are as before.
LEMMA PostListed ==
  ASSUME TypeOK, CallInv, UserLists, NEW r \in Requests, CommitPost(r) \/ CommitThread(r)
  PROVE  \A u \in Users : SeqRange(userPosts'[u]) = PostsOf(u)' /\ Rising(userPosts'[u])
  <1> DEFINE i == Len(posts) + 1
             a == req[r].user
  <1>1. /\ a \in Users /\ i \notin DOMAIN posts /\ DOMAIN posts' = DOMAIN posts \cup {i}
        /\ posts'[i].user = a /\ \A j \in DOMAIN posts : posts'[j] = posts[j]
    BY CommitFacts
  <1>2. userPosts' = [userPosts EXCEPT ![a] = Append(@, i)]
    BY DEF CommitPost, CommitThread, OnNewPost, OnNewThread, AddNewPostToDatabase
  <1>3. userPosts \in [Users -> Seq(Nat)]
    BY DEF TypeOK, BucketTypes
  <1> HIDE DEF i
  <1>4. ASSUME NEW u \in Users PROVE SeqRange(userPosts'[u]) = PostsOf(u)' /\ Rising(userPosts'[u])
    <2>1. SeqRange(userPosts[u]) = PostsOf(u) /\ Rising(userPosts[u])
      BY DEF UserLists
    <2>2. CASE u = a
      <3>1. userPosts'[u] = Append(userPosts[u], i)
        BY <1>2, <1>3, <2>2
      <3>2. SeqRange(userPosts'[u]) = SeqRange(userPosts[u]) \cup {i} /\ Rising(userPosts'[u])
        BY <2>1, <3>1, ListFacts, ListGrows DEF i
      <3>3. PostsOf(u)' = PostsOf(u) \cup {i}
        BY <1>1, <2>2 DEF PostsOf
      <3> QED
        BY <2>1, <3>2, <3>3
    <2>3. CASE u # a
      <3>1. userPosts'[u] = userPosts[u]
        BY <1>2, <1>3, <2>3
      <3>2. PostsOf(u)' = PostsOf(u)
        BY <1>1, <2>3 DEF PostsOf
      <3> QED
        BY <2>1, <3>1, <3>2
    <2> QED
      BY <2>2, <2>3
  <1> QED
    BY <1>4

\* A reply, or a lock, leaves the threads' authors as they are.
LEMMA AuthorsKept ==
  ASSUME TypeOK, CallInv,
         \/ \E r \in Requests : CommitPost(r)
         \/ \E t \in DOMAIN threads, b \in BOOLEAN : MuteOrUnmuteThread(t, b)
  PROVE  /\ DOMAIN threads' = DOMAIN threads /\ \A u \in Users : ThreadsOf(u)' = ThreadsOf(u)
         /\ UNCHANGED <<subforums, threadToSf, userThreads>>
  <1>1. ASSUME NEW t \in DOMAIN threads, NEW e,
               \/ threads' = [threads EXCEPT ![t].posts = e]
               \/ threads' = [threads EXCEPT ![t].locked = e]
        PROVE  /\ DOMAIN threads' = DOMAIN threads
               /\ \A s \in DOMAIN threads : threads'[s].user = threads[s].user
    <2>1. threads \in Seq(Thread) /\ threads[t] \in Thread
      BY BucketElements DEF TypeOK, BucketTypes
    <2>2. /\ DOMAIN threads' = DOMAIN threads
          /\ \A s \in DOMAIN threads \ {t} : threads'[s] = threads[s]
          /\ threads'[t] = [threads[t] EXCEPT !.posts = e] \/ threads'[t] = [threads[t] EXCEPT !.locked = e]
      BY <1>1, <2>1
    <2>3. threads'[t].user = threads[t].user
      BY <2>1, <2>2 DEF Thread
    <2> QED
      BY <2>2, <2>3
  <1>2. ASSUME NEW r \in Requests, CommitPost(r)
        PROVE  /\ \E t \in DOMAIN threads : \E e : threads' = [threads EXCEPT ![t].posts = e]
               /\ UNCHANGED <<subforums, threadToSf, userThreads>>
    <2>1. req[r].thread \in DOMAIN threads
      BY <1>2 DEF CommitPost, EndUpdate, CallInv, CallsChecked, CallChecked, MayPostInThread
    <2> QED
      BY <1>2, <2>1 DEF CommitPost, OnNewPost
  <1>3. ASSUME NEW t \in DOMAIN threads, NEW b \in BOOLEAN, MuteOrUnmuteThread(t, b)
        PROVE  /\ \E e : threads' = [threads EXCEPT ![t].locked = e]
               /\ UNCHANGED <<subforums, threadToSf, userThreads>>
    BY <1>3 DEF MuteOrUnmuteThread
  <1> QED
    BY <1>1, <1>2, <1>3 DEF ThreadsOf

\* What opening a thread adds to the threads.
LEMMA ThreadAdded ==
  ASSUME TypeOK, CallInv, NEW r \in Requests, CommitThread(r)
  PROVE  LET t == Len(threads) + 1 IN
         /\ req[r].user \in Users /\ req[r].sf \in Subforums
         /\ DOMAIN threads' = DOMAIN threads \cup {t} /\ t \notin DOMAIN threads
         /\ threads'[t].user = req[r].user /\ \A s \in DOMAIN threads : threads'[s] = threads[s]
         /\ threadToSf' = Put(threadToSf, t, req[r].sf)
         /\ subforums' = [subforums EXCEPT ![req[r].sf] = Append(@, t)]
         /\ userThreads' = [userThreads EXCEPT ![req[r].user] = Append(@, t)]
  <1> DEFINE th == [user |-> req[r].user, locked |-> FALSE, posts |-> <<Len(posts) + 1>>]
  <1>1. req[r].user \in Users /\ req[r].sf \in Subforums
    BY DEF CommitThread, EndUpdate, CallInv, CallsChecked, CallChecked, ReadyToStore, TypeOK, CallTypes, Call
  <1>2. threads \in Seq(Thread) /\ threads' = Append(threads, th) /\ th \in Thread
    <2>1. Len(posts) + 1 \in Nat
      BY BucketElements DEF TypeOK
    <2> QED
      BY <1>1, <2>1 DEF CommitThread, OnNewThread, TypeOK, BucketTypes, Thread
  <1>3. th.user = req[r].user
    OBVIOUS
  <1> HIDE DEF th
  <1>4. /\ DOMAIN threads' = DOMAIN threads \cup {Len(threads) + 1} /\ Len(threads) + 1 \notin DOMAIN threads
        /\ threads'[Len(threads) + 1] = th /\ \A s \in DOMAIN threads : threads'[s] = threads[s]
    BY <1>2, AppendElements
  <1> QED
    BY <1>1, <1>3, <1>4 DEF CommitThread, OnNewThread

LEMMA ListStep ==
  ASSUME TypeOK, CallInv, UserLists, [Next]_vars
  PROVE  UserLists'
  <1>1. CASE UNCHANGED db
    BY <1>1 DEF db, UserLists, PostsOf, ThreadsOf
  <1>2. ASSUME NEW r \in Requests, CommitPost(r) PROVE UserLists'
    <2>1. \A u \in Users : ThreadsOf(u)' = ThreadsOf(u) /\ userThreads' = userThreads
      BY <1>2, AuthorsKept
    <2> QED
      BY <1>2, <2>1, PostListed DEF UserLists
  <1>3. ASSUME NEW r \in Requests, CommitThread(r) PROVE UserLists'
    <2> DEFINE t == Len(threads) + 1
               a == req[r].user
    <2>1. /\ a \in Users /\ DOMAIN threads' = DOMAIN threads \cup {t} /\ t \notin DOMAIN threads
          /\ threads'[t].user = a /\ \A s \in DOMAIN threads : threads'[s] = threads[s]
          /\ userThreads' = [userThreads EXCEPT ![a] = Append(@, t)]
      BY <1>3, ThreadAdded
    <2>2. userThreads \in [Users -> Seq(Nat)]
      BY DEF TypeOK, BucketTypes
    <2> HIDE DEF t
    <2>3. ASSUME NEW u \in Users PROVE SeqRange(userThreads'[u]) = ThreadsOf(u)' /\ Rising(userThreads'[u])
      <3>1. SeqRange(userThreads[u]) = ThreadsOf(u) /\ Rising(userThreads[u])
        BY DEF UserLists
      <3>2. CASE u = a
        <4>1. userThreads'[u] = Append(userThreads[u], t)
          BY <2>1, <2>2, <3>2
        <4>2. SeqRange(userThreads'[u]) = SeqRange(userThreads[u]) \cup {t} /\ Rising(userThreads'[u])
          BY <3>1, <4>1, ListFacts, ListGrows DEF t
        <4>3. ThreadsOf(u)' = ThreadsOf(u) \cup {t}
          BY <2>1, <3>2 DEF ThreadsOf
        <4> QED
          BY <3>1, <4>2, <4>3
      <3>3. CASE u # a
        <4>1. userThreads'[u] = userThreads[u]
          BY <2>1, <2>2, <3>3
        <4>2. ThreadsOf(u)' = ThreadsOf(u)
          BY <2>1, <3>3 DEF ThreadsOf
        <4> QED
          BY <3>1, <4>1, <4>2
      <3> QED
        BY <3>2, <3>3
    <2> QED
      BY <1>3, <2>3, PostListed DEF UserLists
  <1>4. ASSUME NEW t \in DOMAIN threads, NEW b \in BOOLEAN, MuteOrUnmuteThread(t, b) PROVE UserLists'
    <2>1. \A u \in Users : ThreadsOf(u)' = ThreadsOf(u) /\ userThreads' = userThreads
      BY <1>4, AuthorsKept
    <2>2. posts' = posts /\ userPosts' = userPosts
      BY <1>4 DEF MuteOrUnmuteThread
    <2> QED
      BY <2>1, <2>2 DEF UserLists, PostsOf
  <1> QED
    BY <1>1, <1>2, <1>3, <1>4, BucketSteps DEF TypeOK

\* The same for the lists of subforums.
LEMMA SubforumStep ==
  ASSUME TypeOK, CallInv, ListedWhereChecked, [Next]_vars
  PROVE  ListedWhereChecked'
  <1> USE DEF ListedWhereChecked
  <1>0. /\ Len(threads) \in Nat /\ DOMAIN threads = 1 .. Len(threads)
        /\ subforums \in [Subforums -> Seq(Nat)]
    BY BucketElements DEF TypeOK, BucketTypes
  <1>1. CASE UNCHANGED <<subforums, threadToSf>> /\ DOMAIN threads' = DOMAIN threads
    BY <1>1
  <1>2. ASSUME NEW r \in Requests, CommitThread(r) PROVE ListedWhereChecked'
    <2> DEFINE t == Len(threads) + 1
               sf == req[r].sf
    <2>1. /\ sf \in Subforums /\ DOMAIN threads' = DOMAIN threads \cup {t} /\ t \notin DOMAIN threads
          /\ threadToSf' = Put(threadToSf, t, sf)
          /\ subforums' = [subforums EXCEPT ![sf] = Append(@, t)]
      BY <1>2, ThreadAdded
    <2> HIDE DEF t, sf
    <2>2. /\ DOMAIN threadToSf' = DOMAIN threads' /\ threadToSf'[t] = sf
          /\ \A s \in DOMAIN threads : threadToSf'[s] = threadToSf[s]
      <3>1. DOMAIN threadToSf = DOMAIN threads
        OBVIOUS
      <3>2. /\ DOMAIN Put(threadToSf, t, sf) = DOMAIN threadToSf \cup {t}
            /\ Put(threadToSf, t, sf)[t] = sf
            /\ \A s \in DOMAIN threadToSf \ {t} : Put(threadToSf, t, sf)[s] = threadToSf[s]
        BY DEF Put
      <3> QED
        BY <2>1, <3>1, <3>2
    <2>3. ASSUME NEW s \in Subforums
          PROVE  /\ SeqRange(subforums'[s]) = {k \in DOMAIN threads' : threadToSf'[k] = s}
                 /\ Rising(subforums'[s])
      <3>1. /\ SeqRange(subforums[s]) = {k \in DOMAIN threads : threadToSf[k] = s}
            /\ Rising(subforums[s]) /\ subforums[s] \in Seq(Nat)
        BY <1>0 DEF Rising
      <3>2. CASE s = sf
        <4>1. subforums'[s] = Append(subforums[s], t)
          BY <1>0, <2>1, <3>2
        <4>2. SeqRange(subforums[s]) \subseteq 1 .. Len(threads)
          BY <1>0, <3>1
        <4>3. SeqRange(subforums'[s]) = SeqRange(subforums[s]) \cup {t} /\ Rising(subforums'[s])
          BY <1>0, <3>1, <4>1, <4>2, ListGrows DEF t
        <4> QED
          BY <2>1, <2>2, <3>1, <3>2, <4>3
      <3>3. CASE s # sf
        <4>1. subforums'[s] = subforums[s]
          BY <1>0, <2>1, <3>3
        <4> QED
          BY <2>1, <2>2, <3>1, <3>3, <4>1
      <3> QED
        BY <3>2, <3>3
    <2> QED
      BY <2>2, <2>3 DEF Rising
  <1> QED
    BY <1>1, <1>2, AuthorsKept, BucketSteps DEF TypeOK, db

\* The inductive invariant of the lists.
ListInv == IndInv /\ UserLists /\ ListedWhereChecked

LEMMA ListInductive == Spec => []ListInv
  <1>1. Init => ListInv
    <2>1. Init => UserLists /\ ListedWhereChecked
      BY DEF Init, UserLists, ListedWhereChecked, PostsOf, ThreadsOf, Rising, SeqRange
    <2> QED
      BY <2>1, IndInit DEF ListInv
  <1>2. ListInv /\ [Next]_vars => ListInv'
    <2> SUFFICES ASSUME ListInv, [Next]_vars PROVE ListInv'
      OBVIOUS
    <2>1. IndInv /\ TypeOK /\ CallInv /\ UserLists /\ ListedWhereChecked
      BY DEF ListInv, IndInv, CallInv
    <2>2. IndInv'
      BY <2>1, IndStep
    <2>3. UserLists'
      BY <2>1, ListStep
    <2>4. ListedWhereChecked'
      BY <2>1, SubforumStep
    <2> QED
      BY <2>2, <2>3, <2>4 DEF ListInv
  <1> QED
    BY <1>1, <1>2, PTL DEF Spec

\* A thread is listed once, in the subforum whose privilege its replies are checked
\* against, in the order in which threads were opened.
THEOREM Listed == Spec => []ListedWhereChecked
  <1>1. ListInv => ListedWhereChecked
    BY DEF ListInv
  <1> QED
    BY <1>1, ListInductive, PTL
-----------------------------------------------------------------------------
(***************************************************************************)
(* What SearchUser finds.                                                  *)
(***************************************************************************)
\* The first post of a thread is by the thread's author, and knows where it is.
LEMMA FirstPosts ==
  ASSUME ListInv, NEW u \in Users
  PROVE  /\ \A t \in ThreadsOf(u) :
              /\ t \in Nat /\ threads[t].posts[1] \in PostsOf(u)
              /\ posts[threads[t].posts[1]].index = 1 /\ posts[threads[t].posts[1]].thread = t
         /\ \A i \in PostsOf(u) : posts[i].index = 1 =>
              \E t \in ThreadsOf(u) : threads[t].posts[1] = i
  <1>1. PostsAndThreadsAgree /\ TypeOK
    BY DEF ListInv, IndInv
  <1>2. DOMAIN threads \subseteq Nat
    BY <1>1, BucketElements DEF TypeOK
  <1>3. ASSUME NEW t \in ThreadsOf(u)
        PROVE  /\ t \in Nat /\ threads[t].posts[1] \in PostsOf(u)
               /\ posts[threads[t].posts[1]].index = 1 /\ posts[threads[t].posts[1]].thread = t
    BY <1>1, <1>2 DEF ThreadsOf, PostsOf, PostsAndThreadsAgree, ThreadHasItsPosts
  <1>4. ASSUME NEW i \in PostsOf(u), posts[i].index = 1
        PROVE  \E t \in ThreadsOf(u) : threads[t].posts[1] = i
    <2> DEFINE t == posts[i].thread
    <2>1. t \in DOMAIN threads /\ threads[t].posts[1] = i
      BY <1>1, <1>4 DEF PostsOf, PostsAndThreadsAgree, PostIsInItsThread
    <2>2. threads[t].user = u
      BY <1>1, <2>1 DEF PostsOf, PostsAndThreadsAgree, ThreadHasItsPosts
    <2> QED
      BY <2>1, <2>2 DEF ThreadsOf
  <1> QED
    BY <1>3, <1>4

LEMMA SearchIsComplete ==
  ASSUME ListInv
  PROVE  SearchFindsEveryPost
  <1> SUFFICES ASSUME NEW u \in Users
               PROVE  LET found == SearchUser(u) IN
                      /\ SeqRange(found.first) \cup found.replies = PostsOf(u)
                      /\ SeqRange(found.first) \cap found.replies = {}
                      /\ Cardinality(SeqRange(found.first)) = Len(found.first)
                      /\ Cardinality(SeqRange(userPosts[u])) = Len(userPosts[u])
    BY DEF SearchFindsEveryPost, PostsOf
  <1> DEFINE list  == userThreads[u]
             first == [j \in DOMAIN list |-> threads[list[j]].posts[1]]
             rest  == {i \in SeqRange(userPosts[u]) : posts[i].index # 1}
  <1>1. SearchUser(u).first = first /\ SearchUser(u).replies = rest
    BY DEF SearchUser
  <1>2. /\ list \in Seq(Nat) /\ SeqRange(list) = ThreadsOf(u) /\ Rising(list)
        /\ userPosts[u] \in Seq(Nat) /\ SeqRange(userPosts[u]) = PostsOf(u) /\ Rising(userPosts[u])
    BY DEF ListInv, UserLists, IndInv, TypeOK, BucketTypes
  <1>3. PostsOf(u) \subseteq Nat
    BY BucketElements DEF ListInv, IndInv, TypeOK, PostsOf
  <1>4. \A j \in DOMAIN list : list[j] \in ThreadsOf(u)
    BY <1>2 DEF SeqRange
  <1>5. \A t \in ThreadsOf(u) : \E j \in DOMAIN list : list[j] = t
    BY <1>2 DEF SeqRange
  <1>6. DOMAIN list = 1 .. Len(list) /\ Len(list) \in Nat
    BY <1>2
  <1>7. first \in Seq(Nat) /\ DOMAIN first = DOMAIN list
    <2>1. \A j \in 1 .. Len(list) : threads[list[j]].posts[1] \in Nat
      BY <1>3, <1>4, <1>6, FirstPosts
    <2>2. first = [j \in 1 .. Len(list) |-> threads[list[j]].posts[1]]
      BY <1>6
    <2> QED
      BY <1>6, <2>1, <2>2
  <1>8. \A j \in DOMAIN list : first[j] = threads[list[j]].posts[1]
    OBVIOUS
  <1>9. SeqRange(first) = {i \in PostsOf(u) : posts[i].index = 1}
    <2> HIDE DEF first, list
    <2>1. SeqRange(first) \subseteq {i \in PostsOf(u) : posts[i].index = 1}
      BY <1>4, <1>7, <1>8, FirstPosts DEF SeqRange
    <2>2. ASSUME NEW i \in PostsOf(u), posts[i].index = 1 PROVE i \in SeqRange(first)
      <3>1. PICK t \in ThreadsOf(u) : threads[t].posts[1] = i
        BY <2>2, FirstPosts
      <3>2. PICK j \in DOMAIN list : list[j] = t
        BY <1>5
      <3> QED
        BY <1>7, <1>8, <3>1, <3>2 DEF SeqRange
    <2> QED
      BY <2>1, <2>2
  <1>10. \A j, k \in DOMAIN first : first[j] = first[k] => j = k
    <2> HIDE DEF first, list
    <2>1. ASSUME NEW j \in DOMAIN list, NEW k \in DOMAIN list, first[j] = first[k] PROVE j = k
      <3>1. posts[first[j]].thread = list[j] /\ posts[first[k]].thread = list[k]
        BY <1>4, <1>8, FirstPosts
      <3>2. list[j] = list[k]
        BY <2>1, <3>1
      <3> QED
        BY <1>2, <3>2, RisingDistinct
    <2> QED
      BY <1>7, <2>1
  <1> HIDE DEF first, list
  <1>11. Cardinality(SeqRange(first)) = Len(first)
    BY <1>7, <1>10, DistinctElements
  <1>12. Cardinality(SeqRange(userPosts[u])) = Len(userPosts[u])
    BY <1>2, RisingDistinct
  <1> QED
    BY <1>1, <1>2, <1>9, <1>11, <1>12

\* A search by user shows the user's posts, each once, openings apart from replies,
\* whatever was committed, rolled back or cut off in between.
THEOREM SearchComplete == Spec => []SearchFindsEveryPost
  BY SearchIsComplete, ListInductive, PTL
-----------------------------------------------------------------------------
(***************************************************************************)
(* What a search by keyword finds once the index is quiet.                 *)
(***************************************************************************)
InQueue(i) == \E k \in DOMAIN queue : queue[k].id = i
LastInQueue(i, x) ==
  \E k \in DOMAIN queue :
    /\ queue[k].id = i /\ queue[k].text = x
    /\ \A j \in DOMAIN queue : k < j => queue[j].id # i
InHands(i) == \E l \in Loops : hand[l] # <<>> /\ hand[l][1].id = i

\* What the index will have under i when what is underway has been put there:
\* the last message about i in the channel, or else the one in hand, or else
\* what is there already, or index.Index has returned an error for it.
Settles(i, x) ==
  \/ LastInQueue(i, x)
  \/ ~InQueue(i) /\ \E l \in Loops : hand[l] # <<>> /\ hand[l][1].id = i /\ hand[l][1].text = x
  \/ ~InQueue(i) /\ ~InHands(i) /\ (i \in missed \/ (i \in DOMAIN index /\ index[i] = x))

\* A send settles its own ID and no other.
LEMMA SettlesSend ==
  ASSUME TypeOK, CallInv, NEW r \in Requests, SendPostToKeywordDB(r)
  PROVE  /\ Settles(Len(posts) + 1, req[r].text)'
         /\ \A i \in DOMAIN posts : \A x : Settles(i, x) => Settles(i, x)'
  <1> DEFINE n == Len(posts) + 1
             m == [id |-> n, text |-> req[r].text]
  <1>1. queue \in Seq(Message) /\ queue' = Append(queue, m) /\ n \notin DOMAIN posts
        /\ UNCHANGED <<db, hand, index, missed, req>>
    BY BucketElements DEF SendPostToKeywordDB, TypeOK, KeyTypes
  <1>2. m \in Message
    BY BucketElements
    DEF SendPostToKeywordDB, TypeOK, CallTypes, Call, Message, CallInv, CallsChecked, CallChecked, ReadyToStore
  <1>3. m.id = n /\ m.text = req[r].text
    OBVIOUS
  <1> HIDE DEF m, n
  <1>4. /\ DOMAIN queue' = DOMAIN queue \cup {Len(queue) + 1} /\ queue'[Len(queue) + 1] = m
        /\ \A k \in DOMAIN queue : queue'[k] = queue[k] /\ k \in Nat /\ k < Len(queue) + 1
        /\ Len(queue) \in Nat
    BY <1>1, <1>2
  <1>5. LastInQueue(n, req[r].text)'
    <2>1. \A j \in DOMAIN queue' : ~ (Len(queue) + 1 < j)
      BY <1>4
    <2>2. queue'[Len(queue) + 1].id = n /\ queue'[Len(queue) + 1].text = req'[r].text
      BY <1>1, <1>3, <1>4
    <2>3. n' = n
      BY <1>1 DEF n, db
    <2> QED
      BY <1>4, <2>1, <2>2, <2>3 DEF LastInQueue
  <1>6. ASSUME NEW i \in DOMAIN posts, NEW x, Settles(i, x) PROVE Settles(i, x)'
    <2>1. i # n
      BY <1>1
    <2>2. InQueue(i)' <=> InQueue(i)
      BY <1>3, <1>4, <2>1 DEF InQueue
    <2>3. CASE LastInQueue(i, x)
      <3>1. PICK k \in DOMAIN queue : /\ queue[k].id = i /\ queue[k].text = x
                                      /\ \A j \in DOMAIN queue : k < j => queue[j].id # i
        BY <2>3 DEF LastInQueue
      <3>2. k \in DOMAIN queue' /\ queue'[k] = queue[k]
        BY <1>4
      <3>3. \A j \in DOMAIN queue' : k < j => queue'[j].id # i
        BY <1>3, <1>4, <2>1, <3>1
      <3>4. LastInQueue(i, x)'
        BY <3>1, <3>2, <3>3 DEF LastInQueue
      <3> QED
        BY <3>4 DEF Settles
    <2>4. CASE ~LastInQueue(i, x)
      BY <1>1, <1>6, <2>2, <2>4 DEF Settles, InHands
    <2> QED
      BY <2>3, <2>4
  <1>7. Settles(n, req[r].text)'
    BY <1>5 DEF Settles
  <1> QED
    BY <1>6, <1>7 DEF n

\* The only loop moves messages along and changes nothing about where they end.
LEMMA SettlesLoop ==
  ASSUME TypeOK, NEW l, Loops = {l}, KeywordDBLoop(l), NEW i, NEW x, Settles(i, x)
  PROVE  Settles(i, x)'
  <1>0. queue \in Seq(Message) /\ hand \in [Loops -> Seq(Message)] /\ l \in Loops
        /\ Len(hand[l]) <= 1
    BY DEF TypeOK, KeyTypes
  <1>1. CASE KeywordReceive(l)
    <2> DEFINE h == Head(queue)
    <2>1. /\ hand[l] = <<>> /\ queue # <<>> /\ queue' = Tail(queue)
          /\ hand' = [hand EXCEPT ![l] = <<h>>] /\ index' = index /\ missed' = missed
      BY <1>1 DEF KeywordReceive
    <2>2. hand'[l] = <<h>> /\ hand'[l] # <<>> /\ hand'[l][1] = h
      BY <1>0, <2>1
    <2>3. /\ h = queue[1] /\ 1 \in DOMAIN queue
          /\ \A k \in DOMAIN queue : k \in Nat /\ (k = 1 \/ (k - 1 \in DOMAIN queue' /\ queue'[k - 1] = queue[k]))
          /\ \A k \in DOMAIN queue' : k \in Nat /\ 0 < k /\ k + 1 \in DOMAIN queue /\ queue'[k] = queue[k + 1]
      BY <1>0, <2>1
    <2> HIDE DEF h
    <2>4. CASE LastInQueue(i, x)
      <3>1. PICK k \in DOMAIN queue : /\ queue[k].id = i /\ queue[k].text = x
                                      /\ \A j \in DOMAIN queue : k < j => queue[j].id # i
        BY <2>4 DEF LastInQueue
      <3>2. CASE k = 1
        <4>1. ~InQueue(i)'
          <5>1. ASSUME NEW j \in DOMAIN queue' PROVE queue'[j].id # i
            <6>1. j + 1 \in DOMAIN queue /\ 1 < j + 1
              BY <2>3
            <6> QED
              BY <2>3, <3>1, <3>2, <6>1
          <5> QED
            BY <5>1 DEF InQueue
        <4> QED
          BY <1>0, <2>2, <2>3, <3>1, <3>2, <4>1 DEF Settles
      <3>3. CASE k # 1
        <4>1. k - 1 \in DOMAIN queue' /\ queue'[k - 1] = queue[k] /\ k \in Nat
          BY <2>3, <3>3
        <4>2. ASSUME NEW j \in DOMAIN queue', k - 1 < j PROVE queue'[j].id # i
          <5>1. j + 1 \in DOMAIN queue /\ k < j + 1
            BY <2>3, <4>1, <4>2
          <5> QED
            BY <2>3, <3>1, <5>1
        <4>3. LastInQueue(i, x)'
          BY <3>1, <4>1, <4>2 DEF LastInQueue
        <4> QED
          BY <4>3 DEF Settles
      <3> QED
        BY <3>2, <3>3
    <2>5. CASE ~LastInQueue(i, x)
      <3>1. ~InQueue(i) /\ (i \in missed \/ (i \in DOMAIN index /\ index[i] = x))
        BY <2>1, <2>5 DEF Settles
      <3>2. ~InQueue(i)' /\ ~InHands(i)'
        BY <2>2, <2>3, <3>1 DEF InQueue, InHands
      <3> QED
        BY <2>1, <3>1, <3>2 DEF Settles
    <2> QED
      BY <2>4, <2>5
  <1>2. CASE KeywordIndex(l)
    <2> DEFINE k == hand[l][1].id
               v == hand[l][1].text
    <2>1. hand[l] # <<>> /\ IndexPost(k, v) /\ hand' = [hand EXCEPT ![l] = <<>>] /\ queue' = queue
      BY <1>2 DEF KeywordIndex
    <2>2. hand'[l] = <<>>
      BY <1>0, <2>1
    <2>3. (InQueue(i)' <=> InQueue(i)) /\ (LastInQueue(i, x) => LastInQueue(i, x)') /\ ~InHands(i)'
      BY <2>1, <2>2 DEF InQueue, LastInQueue, InHands
    <2>4. CASE LastInQueue(i, x)
      BY <2>3, <2>4 DEF Settles
    <2>5. CASE ~InQueue(i) /\ k = i /\ v = x
      <3>1. i \in missed' \/ (i \in DOMAIN index' /\ index'[i] = x)
        <4> HIDE DEF k, v
        <4> QED
          BY <2>1, <2>5, IndexPostFacts
      <3> QED
        BY <2>3, <2>5, <3>1 DEF Settles
    <2>6. CASE ~InQueue(i) /\ k # i /\ (i \in missed \/ (i \in DOMAIN index /\ index[i] = x))
      <3>1. i \in missed' \/ (i \in DOMAIN index' /\ index'[i] = x)
        <4> HIDE DEF k, v
        <4>1. (i \in missed' <=> i \in missed) /\ DOMAIN index \subseteq DOMAIN index'
          BY <2>1, <2>6, IndexPostFacts
        <4>2. \A j \in DOMAIN index' :
                (j \in DOMAIN index /\ index'[j] = index[j]) \/ (j = k /\ index'[j] = v)
          BY <2>1, IndexPostFacts
        <4> QED
          BY <2>6, <4>1, <4>2
      <3> QED
        BY <2>3, <2>6, <3>1 DEF Settles
    <2> QED
      BY <2>1, <2>4, <2>5, <2>6 DEF Settles, InHands
  <1> QED
    BY <1>1, <1>2 DEF KeywordDBLoop

\* With one loop, and unless the process stops, every stored post will be in the
\* index with its own text, and so will the one that is about to be committed,
\* unless index.Index returns an error for it.
QuietInv ==
  (RunsOn /\ Cardinality(Loops) = 1) =>
    /\ \A i \in DOMAIN posts : Settles(i, posts[i].text)
    /\ \A r \in Requests : pc[r] = "commit" => Settles(Len(posts) + 1, req[r].text)

\* The text of a post is that of the request.
LEMMA CommittedText ==
  ASSUME TypeOK, CallInv, NEW r \in Requests, CommitPost(r) \/ CommitThread(r)
  PROVE  posts'[Len(posts) + 1].text = req[r].text
  <1> DEFINE e(t, k) == [text |-> req[r].text, user |-> req[r].user, thread |-> t, index |-> k]
  <1>1. \E t, k : posts' = Append(posts, e(t, k))
    BY DEF CommitPost, CommitThread, OnNewPost, OnNewThread, AddNewPostToDatabase
  <1>2. PICK t, k : posts' = Append(posts, e(t, k))
    BY <1>1
  <1>3. posts'[Len(posts) + 1] = e(t, k)
    <2> HIDE DEF e
    <2> QED
      BY <1>2 DEF TypeOK, BucketTypes
  <1> QED
    BY <1>3

LEMMA QuietStep ==
  ASSUME TypeOK, CallInv, KeyInv, QuietInv, [Next]_vars
  PROVE  QuietInv'
  <1> SUFFICES ASSUME RunsOn, Cardinality(Loops) = 1
               PROVE  /\ \A i \in DOMAIN posts' : Settles(i, posts[i].text)'
                      /\ \A r \in Requests : pc'[r] = "commit" => Settles(Len(posts) + 1, req[r].text)'
    BY DEF QuietInv, RunsOn
  <1> DEFINE Goal == /\ \A i \in DOMAIN posts' : Settles(i, posts[i].text)'
                     /\ \A r \in Requests : pc'[r] = "commit" => Settles(Len(posts) + 1, req[r].text)'
  <1>0. /\ \A i \in DOMAIN posts : Settles(i, posts[i].text)
        /\ \A r \in Requests : pc[r] = "commit" => Settles(Len(posts) + 1, req[r].text)
    BY DEF QuietInv
  <1>1. PICK l : Loops = {l}
    BY ConstantsAssumption, FS_Singleton
  <1>2. ASSUME NEW r \in Requests, SendPostToKeywordDB(r) PROVE Goal
    <2>1. posts' = posts /\ req' = req /\ pc' = [pc EXCEPT ![r] = "commit"]
      BY <1>2 DEF SendPostToKeywordDB, db, Goto
    <2>2. \A p \in Requests : pc'[p] = "commit" => p = r
      BY <1>2, <2>1, ConstantsAssumption
      DEF SendPostToKeywordDB, CallInv, CallsChecked, CallChecked, TypeOK, CallTypes
    <2>3. Settles(Len(posts) + 1, req[r].text)'
      BY <1>2, SettlesSend
    <2>4. \A i \in DOMAIN posts' : Settles(i, posts[i].text)'
      <3> SUFFICES ASSUME NEW i \in DOMAIN posts PROVE Settles(i, posts[i].text)'
        BY <2>1
      <3>1. PICK x : x = posts[i].text
        OBVIOUS
      <3>2. Settles(i, x)'
        BY <1>0, <1>2, <3>1, SettlesSend
      <3> QED
        BY <2>1, <3>1, <3>2
    <2> QED
      BY <2>2, <2>3, <2>4
  <1>3. ASSUME KeywordDBLoop(l) PROVE Goal
    <2>1. posts' = posts /\ req' = req /\ pc' = pc
      BY <1>3 DEF KeywordDBLoop, KeywordReceive, KeywordIndex, db, calls
    <2>2. \A i, x : Settles(i, x) => Settles(i, x)'
      BY <1>1, <1>3, SettlesLoop
    <2> HIDE DEF Settles
    <2> QED
      BY <1>0, <2>1, <2>2
  <1>4. ASSUME NEW i, NEW x, UNCHANGED keys, Settles(i, x) PROVE Settles(i, x)'
    BY <1>4 DEF keys, Settles, LastInQueue, InQueue, InHands
  <1>5. ASSUME NEW r \in Requests, EndUpdate(r), UNCHANGED keys,
               CommitPost(r) \/ CommitThread(r) \/ UNCHANGED posts
        PROVE  Goal
    <2>1. \A p \in Requests : pc'[p] # "commit"
      BY <1>5 DEF EndUpdate, Answer, Goto, CallInv, CallsChecked, CallChecked, TypeOK, CallTypes
    <2>2. ASSUME NEW i \in DOMAIN posts' PROVE Settles(i, posts'[i].text)
      <3>1. CASE UNCHANGED posts
        BY <1>0, <2>2, <3>1
      <3>2. CASE CommitPost(r) \/ CommitThread(r)
        <4>1. CASE i \in DOMAIN posts
          BY <1>0, <3>2, <4>1, CommitFacts
        <4>2. CASE i = Len(posts) + 1
          BY <1>0, <1>5, <3>2, <4>2, CommittedText DEF EndUpdate
        <4> QED
          BY <2>2, <3>2, <4>1, <4>2, CommitFacts
      <3> QED
        BY <1>5, <3>1, <3>2
    <2>3. \A i \in DOMAIN posts' : Settles(i, posts[i].text)'
      <3> SUFFICES ASSUME NEW i \in DOMAIN posts' PROVE Settles(i, posts[i].text)'
        OBVIOUS
      <3>1. PICK x : x = posts'[i].text
        OBVIOUS
      <3>2. Settles(i, x)'
        BY <1>4, <1>5, <2>2, <3>1
      <3> QED
        BY <3>1, <3>2
    <2> QED
      BY <2>1, <2>3
  <1>6. ASSUME UNCHANGED <<posts, keys>>,
               \A p \in Requests : pc'[p] = "commit" => pc[p] = "commit" /\ req'[p] = req[p]
        PROVE  Goal
    <2>1. \A i \in DOMAIN posts' : Settles(i, posts[i].text)'
      <3> SUFFICES ASSUME NEW i \in DOMAIN posts PROVE Settles(i, posts[i].text)'
        BY <1>6
      <3>1. PICK x : x = posts[i].text
        OBVIOUS
      <3>2. Settles(i, x)'
        BY <1>0, <1>4, <1>6, <3>1
      <3> QED
        BY <1>6, <3>1, <3>2
    <2>2. ASSUME NEW p \in Requests, pc'[p] = "commit" PROVE Settles(Len(posts) + 1, req[p].text)'
      <3>1. PICK n, x : n = Len(posts) + 1 /\ x = req[p].text
        OBVIOUS
      <3>2. Settles(n, x)'
        BY <1>0, <1>4, <1>6, <2>2, <3>1
      <3> QED
        BY <1>6, <2>2, <3>1, <3>2
    <2> QED
      BY <2>1, <2>2
  <1>7. ASSUME NEW r \in Requests,
               Arrive(r) \/ LookupSubforum(r) \/ CheckForPostNudge(r) \/ UpdateForPostNudge(r) \/ BeginUpdate(r)
        PROVE  /\ UNCHANGED <<posts, keys>>
               /\ \A p \in Requests : pc'[p] = "commit" => pc[p] = "commit" /\ req'[p] = req[p]
    BY <1>7
    DEF Arrive, NewPostHandler, CreateThreadHandler, LookupSubforum, CheckForPostNudge, UpdateForPostNudge,
        BeginUpdate, Goto, Answer, TypeOK, CallTypes, db
  <1>8. ASSUME Moderate \/ UNCHANGED vars
        PROVE  /\ UNCHANGED <<posts, keys>>
               /\ \A p \in Requests : pc'[p] = "commit" => pc[p] = "commit" /\ req'[p] = req[p]
    BY <1>8 DEF Moderate, MuteOrUnmuteThread, Mute, Unmute, db, calls, keys, vars
  <1>9. ASSUME NEW r \in Requests, Arrive(r) \/ Handle(r) PROVE Goal
    <2>1. ~ShortPath(r)
      BY DEF ShortPath, RunsOn, CallInv, CallsChecked, CallChecked
    <2>2. CASE Arrive(r) \/ LookupSubforum(r) \/ CheckForPostNudge(r) \/ UpdateForPostNudge(r) \/ BeginUpdate(r)
      BY <1>6, <1>7, <2>2
    <2>3. CASE CommitPost(r) \/ CommitThread(r)
      BY <1>5, <2>3 DEF CommitPost, CommitThread
    <2>4. CASE CommitFails(r)
      BY <1>5, <2>4 DEF CommitFails, db
    <2> HIDE DEF Goal
    <2> QED
      BY <1>2, <1>9, <2>1, <2>2, <2>3, <2>4 DEF Handle
  <1>10. ~Process
    BY DEF Process, Crash, Restart, Repopulate, PopulateNext, RunsOn, KeyInv, SentBeforeCommit
  <1> HIDE DEF Goal
  <1>11. Goal
    BY <1>1, <1>3, <1>6, <1>8, <1>9, <1>10 DEF Next
  <1> QED
    BY <1>11 DEF Goal

\* A quiet channel has settled everything.
LEMMA QuietMeansRight ==
  ASSUME IndInv, QuietInv
  PROVE  QuietIndexIsRight
  <1> SUFFICES ASSUME RunsOn, Cardinality(Loops) = 1, Underway = {}, NEW x \in Texts
               PROVE  SearchKeyword(x) \ missed = {i \in DOMAIN posts \ missed : posts[i].text = x}
    BY DEF QuietIndexIsRight
  <1>1. \A i : ~InQueue(i)
    BY DEF InQueue, Underway, SeqRange
  <1>2. \A l \in Loops : hand[l] = <<>>
    <2> SUFFICES ASSUME NEW l \in Loops PROVE hand[l] = <<>>
      OBVIOUS
    <2>1. hand[l] \in Seq(Message)
      BY DEF IndInv, TypeOK, KeyTypes
    <2>2. hand[l] # <<>> => hand[l][1] \in SeqRange(hand[l])
      BY <2>1, SeqElements DEF SeqRange
    <2> QED
      BY <2>2 DEF Underway, InHand
  <1>3. \A i \in DOMAIN posts \ missed : i \in DOMAIN index /\ index[i] = posts[i].text
    <2>1. \A i, y : ~LastInQueue(i, y)
      BY <1>1 DEF LastInQueue, InQueue
    <2> QED
      BY <1>1, <1>2, <2>1 DEF QuietInv, Settles
  <1>4. \A i \in DOMAIN posts : posts[i].thread \in DOMAIN threads
    BY DEF IndInv, PostsAndThreadsAgree, PostIsInItsThread
  <1> QED
    BY <1>3, <1>4 DEF SearchKeyword

\* With one loop, and unless the process stops, a search of a quiet index finds the
\* posts with the text and no others, whatever messages of failed commits went
\* before, but for those whose last index.Index returned an error.
THEOREM QuietIndex == Spec => []QuietIndexIsRight
  <1>1. Init => QuietInv
    BY DEF Init, QuietInv
  <1>2. IndInv /\ QuietInv /\ [Next]_vars => QuietInv'
    <2>1. IndInv => TypeOK /\ CallInv /\ KeyInv
      BY DEF IndInv, CallInv, KeyInv
    <2> QED
      BY <2>1, QuietStep
  <1>3. IndInv /\ QuietInv => QuietIndexIsRight
    BY QuietMeansRight
  <1> QED
    BY <1>1, <1>2, <1>3, Inductive, PTL DEF Spec
-----------------------------------------------------------------------------
(***************************************************************************)
(* What initKeyword leaves when the server goes up.                        *)
(***************************************************************************)
\* While the server is not up nothing runs, and nothing is underway; what has
\* been put into the new index so far are posts that were not refused.
PopulateInv ==
  /\ server # "up" => /\ \A r \in Requests : pc[r] = "idle"
                      /\ queue = <<>> /\ \A l \in Loops : hand[l] = <<>>
  /\ server = "populating" => \A i \in DOMAIN index : Searchable(i) /\ i \notin missed

LEMMA PopulateStep ==
  ASSUME TypeOK, PopulateInv, [Next]_vars
  PROVE  PopulateInv'
  <1> USE DEF PopulateInv
  <1>1. CASE server # "up" /\ (UNCHANGED <<calls, keys, server, posts>>)
    BY <1>1 DEF calls, keys, Searchable
  <1>2. ASSUME NEW state \in {"down", "panicked"}, Stop(state) PROVE PopulateInv'
    BY <1>2 DEF Stop
  <1>3. CASE Process
    <2>1. CASE Crash
      BY <1>2, <2>1 DEF Crash
    <2>2. CASE Restart
      BY <2>2 DEF Restart
    <2>3. CASE Repopulate
      BY <2>3 DEF Repopulate, calls, db
    <2>4. CASE PopulateNext
      <3>1. /\ server = "populating" /\ UNCHANGED <<calls, queue, hand>> /\ posts' = posts
        BY <2>4 DEF PopulateNext, db
      <3>2. CASE server' = "up"
        BY <3>2
      <3>3. ASSUME NEW i \in DOMAIN posts \ (DOMAIN index \cup missed), IndexPost(i, posts[i].text), UNCHANGED server
            PROVE  PopulateInv'
        <4>1. \A j \in DOMAIN index : Searchable(j) /\ j \notin missed
          BY <3>1
        <4>2. ASSUME NEW j \in DOMAIN index' PROVE Searchable(j)' /\ j \notin missed'
          <5>1. CASE index' = Put(index, i, posts[i].text) /\ missed' = missed \ {i}
            BY <3>1, <4>1, <4>2, <5>1 DEF Put, Searchable
          <5>2. CASE index' = index /\ missed' = missed \cup {i}
            BY <3>1, <3>3, <4>1, <4>2, <5>2 DEF Searchable
          <5> QED
            BY <3>3, <5>1, <5>2 DEF IndexPost
        <4> QED
          BY <3>1, <3>3, <4>2 DEF calls
      <3> QED
        BY <2>4, <3>2, <3>3 DEF PopulateNext
    <2> QED
      BY <1>3, <2>1, <2>2, <2>3, <2>4 DEF Process
  <1>4. ASSUME NEW r \in Requests, Handle(r), ~ShortPath(r) PROVE server = "up" /\ server' = "up"
    BY <1>4 DEF Handle, LookupSubforum, CheckForPostNudge, UpdateForPostNudge, BeginUpdate,
                SendPostToKeywordDB, CommitPost, CommitThread, CommitFails, EndUpdate
  <1>5. ASSUME NEW r \in Requests, Arrive(r) PROVE server = "up" /\ server' = "up"
    BY <1>5 DEF Arrive, NewPostHandler, CreateThreadHandler
  <1>6. ASSUME NEW l \in Loops, KeywordDBLoop(l) PROVE server = "up" /\ server' = "up"
    BY <1>6 DEF KeywordDBLoop, KeywordReceive, KeywordIndex
  <1>7. CASE Moderate \/ UNCHANGED vars
    BY <1>7 DEF Moderate, MuteOrUnmuteThread, Mute, Unmute, vars, db, calls, keys, Searchable
  <1>8. CASE server' = "up"
    BY <1>8
  <1> HIDE DEF PopulateInv
  <1>9. ASSUME NEW r \in Requests, Arrive(r) \/ Handle(r) PROVE PopulateInv'
    BY <1>2, <1>4, <1>5, <1>8, <1>9 DEF ShortPath
  <1> QED
    BY <1>3, <1>6, <1>7, <1>8, <1>9 DEF Next

\* Before the server listens, a new index has exactly the posts that index.Index did
\* not return an error for, each with its text, whatever was stored, left behind by
\* failed commits or lost before.
THEOREM Populated == Spec => PopulatedIsComplete
  <1>1. Init => PopulateInv
    BY DEF Init, PopulateInv
  <1>2. TypeOK /\ PopulateInv /\ [Next]_vars => PopulateInv'
    BY PopulateStep
  <1>3. ASSUME PopulateInv, [Next]_vars, server = "populating", server' = "up"
        PROVE  /\ \A i \in DOMAIN posts \ missed : Searchable(i)
               /\ DOMAIN index \subseteq DOMAIN posts \ missed
    <2>1. ~Restart /\ ~Repopulate /\ ~Crash /\ ~UNCHANGED vars
      BY <1>3 DEF Restart, Repopulate, Crash, Stop, vars
    <2>2. ASSUME NEW r \in Requests PROVE ~Arrive(r) /\ ~Handle(r)
      BY <1>3
      DEF PopulateInv, Arrive, NewPostHandler, CreateThreadHandler, Handle, LookupSubforum, CheckForPostNudge,
          UpdateForPostNudge, BeginUpdate, SendPostToKeywordDB, CommitPost, CommitThread, CommitFails, EndUpdate,
          ShortPath
    <2>3. ASSUME NEW l \in Loops PROVE ~KeywordDBLoop(l)
      BY <1>3 DEF PopulateInv, KeywordDBLoop, KeywordReceive, KeywordIndex
    <2>4. ~Moderate
      BY <1>3 DEF Moderate, MuteOrUnmuteThread, Mute, Unmute
    <2>5. PopulateNext
      BY <1>3, <2>1, <2>2, <2>3, <2>4 DEF Next, Process
    <2>6. DOMAIN posts \ (DOMAIN index \cup missed) = {}
      BY <1>3, <2>5 DEF PopulateNext
    <2> QED
      BY <1>3, <2>6 DEF PopulateInv, Searchable
  <1>4. PopulateInv /\ [Next]_vars =>
          [server = "populating" /\ server' = "up" =>
             /\ \A i \in DOMAIN posts \ missed : Searchable(i)
             /\ DOMAIN index \subseteq DOMAIN posts \ missed]_vars
    BY <1>3
  <1> QED
    BY <1>1, <1>2, <1>4, TypeCorrect, PTL DEF Spec, PopulatedIsComplete
=============================================================================
