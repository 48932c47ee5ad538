----------------------------- MODULE MCConsole -----------------------------
(***************************************************************************)
(* A small instance of Console: fractions of two binary digits, a duration *)
(* of four bits, a day of one second.                                      *)
(***************************************************************************)
EXTENDS Console, TLC

ConsoleSymmetry == Permutations(Requests)
=============================================================================
