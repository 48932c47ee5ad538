-------------------------------- MODULE Board --------------------------------
(***************************************************************************)
(* What the forum promises, with no requests, transactions or buckets: a   *)
(* list of threads, each in one subforum, each a list of posts that only   *)
(* grows.  A thread is opened with its first post in one step, a reply is  *)
(* added in one step, and only those entitled to it do so.  Threads.tla    *)
(* is shown to implement this specification under the mapping that         *)
(* ThreadViewHandler computes when it renders a thread.                    *)
(***************************************************************************)
EXTENDS UserPriviledge, Sequences

CONSTANTS Users, Subforums, Texts,
          Privilege,         \* Configuration.Priviledges, 0 where it has no entry
          ThreadPrivilege,   \* Subforum.ThreadPriviledge
          ReplyPrivilege     \* Subforum.ReplyPriviledge

VARIABLE board   \* the threads, oldest first

Post == [user: Users, text: Texts]
Thread == [subforum: Subforums, locked: BOOLEAN, posts: Seq(Post)]

Init == board = <<>>

\* CreateThreadHandler and OnNewThread: a thread appears with its first post.
OpenThread(u, sf, text) ==
  /\ Is(Privilege[u], ThreadPrivilege[sf])
  /\ board' = Append(board, [subforum |-> sf, locked |-> FALSE,
                             posts |-> <<[user |-> u, text |-> text]>>])

\* NewPostHandler and OnNewPost: a locked thread takes moderators' posts only.
Reply(u, t, text) ==
  /\ t \in DOMAIN board
  /\ Is(Privilege[u], ReplyPrivilege[board[t].subforum])
  /\ board[t].locked => Is(Privilege[u], Mod)
  /\ board' = [board EXCEPT ![t].posts = Append(@, [user |-> u, text |-> text])]

\* The console's lock and unlock commands.
SetLocked(t, b) ==
  /\ t \in DOMAIN board
  /\ board' = [board EXCEPT ![t].locked = b]

Next ==
  \/ \E u \in Users, sf \in Subforums, x \in Texts : OpenThread(u, sf, x)
  \/ \E u \in Users, t \in DOMAIN board, x \in Texts : Reply(u, t, x)
  \/ \E t \in DOMAIN board, b \in BOOLEAN : SetLocked(t, b)

Spec == Init /\ [][Next]_board
=============================================================================
