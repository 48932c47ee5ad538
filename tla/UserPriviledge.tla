---------------------------- MODULE UserPriviledge ----------------------------
(***************************************************************************)
(* The levels of userPriviledge.go.  A level is held per user name in      *)
(* Configuration.Priviledges and asked for by subforums and by the console.*)
(***************************************************************************)
EXTENDS Naturals

User  == 0   \* no elevated permissions; also what a missing map entry reads as
Mod   == 1   \* may use the console and post in locked threads
Admin == 2

Level == {User, Mod, Admin}

\* UserPriviledge.Is: level p suffices where level q is asked for.
Is(p, q) == p >= q
=============================================================================
