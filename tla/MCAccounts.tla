------------------------------ MODULE MCAccounts ------------------------------
(***************************************************************************)
(* Small instances of Accounts.  johnny and JOHNNY differ in case only; a  *)
(* padded password is long enough with its blanks and short without them.  *)
(***************************************************************************)
EXTENDS Accounts, TLC

CONSTANTS johnny, JOHNNY, long, padded, short

MCFold       == [n \in Names |-> IF n = JOHNNY THEN johnny ELSE n]
MCTrim       == [p \in Passwords |-> IF p = padded THEN short ELSE p]
MCLongEnough == Passwords \ {short}

RequestSymmetry == Permutations(Requests)
=============================================================================
