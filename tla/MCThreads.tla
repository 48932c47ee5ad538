------------------------------ MODULE MCThreads ------------------------------
(***************************************************************************)
(* Small instances of Threads.  ann is a plain user and mod a moderator;   *)
(* subforum news takes threads from moderators only and replies from all,  *)
(* as a board for announcements does, and chat takes everything from all.  *)
(***************************************************************************)
EXTENDS Threads, TLC

CONSTANTS mod, news   \* a user and a subforum, when Users and Subforums have them

MCPrivilege       == [u \in Users |-> IF u = mod THEN Mod ELSE User]
MCThreadPrivilege == [s \in Subforums |-> IF s = news THEN Mod ELSE User]
MCReplyPrivilege  == [s \in Subforums |-> User]

\* Requests are interchangeable; for the safety runs only.
RequestSymmetry == Permutations(Requests)
=============================================================================
