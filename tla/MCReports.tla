------------------------------ MODULE MCReports ------------------------------
(***************************************************************************)
(* Small instances of Reports: two users, and as many posts as it takes to *)
(* go over the limit of one mail per window.                               *)
(***************************************************************************)
EXTENDS Reports, TLC

ReportSymmetry == Permutations(Keys) \cup Permutations(Posts) \cup Permutations(Requests)
=============================================================================
