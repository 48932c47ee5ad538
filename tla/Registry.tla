------------------------------- MODULE Registry -------------------------------
(***************************************************************************)
(* What the account system promises: accounts are only added, each with a  *)
(* name of its own and a password that stays; where mail is on, an account *)
(* is verified once, later than it is made; and a certificate is tied to a *)
(* verified account only.                                                  *)
(***************************************************************************)
CONSTANTS Names, Passwords, Certs, SmtpEnabled

VARIABLES
  accounts,   \* name -> [verified, password], for the names registered
  sessions    \* certificate fingerprint -> name, for those logged in

registry == <<accounts, sessions>>

Extend(f, k, v) == [x \in DOMAIN f \cup {k} |-> IF x = k THEN v ELSE f[x]]
Without(f, k)   == [x \in DOMAIN f \ {k} |-> f[x]]

Init == accounts = <<>> /\ sessions = <<>>

Register(n, p) ==
  /\ n \notin DOMAIN accounts
  /\ accounts' = Extend(accounts, n, [verified |-> ~SmtpEnabled, password |-> p])
  /\ UNCHANGED sessions

Verify(n) ==
  /\ SmtpEnabled /\ n \in DOMAIN accounts /\ ~accounts[n].verified
  /\ accounts' = [accounts EXCEPT ![n].verified = TRUE]
  /\ UNCHANGED sessions

Login(f, n) ==
  /\ n \in DOMAIN accounts /\ accounts[n].verified
  /\ sessions' = Extend(sessions, f, n)
  /\ UNCHANGED accounts

Logout(f) == sessions' = Without(sessions, f) /\ UNCHANGED accounts

Next ==
  \/ \E n \in Names : (\E p \in Passwords : Register(n, p)) \/ Verify(n)
  \/ \E f \in Certs : Logout(f) \/ \E n \in Names : Login(f, n)

Spec == Init /\ [][Next]_registry
=============================================================================
