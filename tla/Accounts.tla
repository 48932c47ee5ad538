------------------------------- MODULE Accounts -------------------------------
(***************************************************************************)
(* Accounts and sessions: users.go, SendEmailOnRegistration of email.go    *)
(* and the lookup of GetUsernameFromFP in certfp.go.  A transaction is a   *)
(* step; what a handler does between two transactions (a bcrypt hash takes *)
(* a quarter of a second) is where other handlers get in.                  *)
(*                                                                         *)
(* OnRegister also stores the flags postnudge and muted: a new user of the  *)
(* module Threads, in the state that module starts from.                   *)
(*                                                                         *)
(* Names are the names as stored: trimmed, of the length and the letters   *)
(* that validateUsername wants.  A password hash is the password it is of. *)
(***************************************************************************)
EXTENDS Naturals

CONSTANTS
  Names,
  Fold,          \* strings.EqualFold: the class of a name
  Passwords,     \* passwords as they come in a request
  Trim,          \* strings.TrimSpace on them
  LongEnough,    \* those with MinimumPasswordLength bytes or more
  Certs,         \* fingerprints of client certificates
  Requests,      \* goroutines of the server, one per open connection
  SmtpEnabled,   \* Configuration.Smtp.Enabled
  MayFail,       \* a commit may return an error
  MailMayFail,   \* sending a mail may return an error
  MayCrash,      \* the process may be stopped and started again at any point
  MaxCodes,      \* bound: validation codes drawn
  Nil

ASSUME AccountsAssumption ==
  /\ Trim \in [Passwords -> Passwords] /\ LongEnough \subseteq Passwords
  /\ MaxCodes \in Nat /\ SmtpEnabled \in BOOLEAN
  /\ MayFail \in BOOLEAN /\ MailMayFail \in BOOLEAN /\ MayCrash \in BOOLEAN
  /\ Nil \notin Names \cup Passwords \cup Certs

VARIABLES
  users,        \* bucket users: name -> keys verified and password
  validation,   \* bucket validation: code -> name
  certfp,       \* bucket certfp: fingerprint -> name
  drawn,        \* validation codes drawn so far
  mailed,       \* codes that have reached a mailbox
  lost,         \* history: codes whose mail failed, or was cut off by a stop
  pc,           \* where each request's handler is
  req           \* what each request asks for and has read

buckets == <<users, validation, certfp>>
vars    == <<buckets, drawn, mailed, lost, pc, req>>

Account == [verified: BOOLEAN, password: Passwords]
Call    == [name: Names \cup {Nil}, password: Passwords \cup {Nil}, cert: Certs \cup {Nil},
            hash: Passwords \cup {Nil}, code: Nat]
NoCall  == [name |-> Nil, password |-> Nil, cert |-> Nil, hash |-> Nil, code |-> 0]

TypeOK ==
  /\ DOMAIN users \subseteq Names /\ users \in [DOMAIN users -> Account]
  /\ drawn \in Nat /\ mailed \subseteq 1 .. drawn /\ lost \subseteq 1 .. drawn
  /\ DOMAIN validation \subseteq 1 .. drawn /\ validation \in [DOMAIN validation -> Names]
  /\ DOMAIN certfp \subseteq Certs /\ certfp \in [DOMAIN certfp -> Names]
  /\ pc \in [Requests -> {"idle", "register", "mail", "compare", "assign"}]
  /\ req \in [Requests -> Call]

Put(f, k, v) == [x \in DOMAIN f \cup {k} |-> IF x = k THEN v ELSE f[x]]
Delete(f, k) == [x \in DOMAIN f \ {k} |-> f[x]]

Init ==
  /\ users = <<>> /\ validation = <<>> /\ certfp = <<>>
  /\ drawn = 0 /\ mailed = {} /\ lost = {}
  /\ pc = [r \in Requests |-> "idle"] /\ req = [r \in Requests |-> NoCall]

Answer(r) == pc' = [pc EXCEPT ![r] = "idle"] /\ req' = [req EXCEPT ![r] = NoCall]
Begin(r, label, call) ==
  pc[r] = "idle" /\ pc' = [pc EXCEPT ![r] = label] /\ req' = [req EXCEPT ![r] = call]
-----------------------------------------------------------------------------
(***************************************************************************)
(* Registration.  The steps that only ask for the next input keep nothing  *)
(* on the server: the last URL carries the name, the address and, as its   *)
(* query, the password, and is checked from the start.                     *)
(***************************************************************************)
\* validatePassword, then validateUsername with its read of bucket users.
RegisterUserHandler(r, n, p) ==
  /\ p \in LongEnough /\ \A m \in DOMAIN users : Fold[m] # Fold[n]
  /\ Begin(r, "register", [NoCall EXCEPT !.name = n, !.password = p])
  /\ UNCHANGED <<buckets, drawn, mailed, lost>>

\* Slips: the write transaction relies on the earlier check; the mail is left out.
OnRegister_Unchecked(r) ==
  /\ pc[r] = "register" /\ drawn < MaxCodes /\ drawn' = drawn + 1
  /\ users' = Put(users, req[r].name, [verified |-> ~SmtpEnabled, password |-> Trim[req[r].password]])
  /\ validation' = Put(validation, drawn', req[r].name)
  /\ pc' = [pc EXCEPT ![r] = "mail"] /\ req' = [req EXCEPT ![r].code = drawn']
  /\ UNCHANGED <<certfp, mailed, lost>>
OnRegister_NoMail(r) ==
  /\ pc[r] = "register" /\ drawn < MaxCodes /\ drawn' = drawn + 1
  /\ req[r].name \notin DOMAIN users
  /\ users' = Put(users, req[r].name, [verified |-> ~SmtpEnabled, password |-> Trim[req[r].password]])
  /\ validation' = Put(validation, drawn', req[r].name)
  /\ Answer(r) /\ UNCHANGED <<certfp, mailed, lost>>

\* The hash and the code come first, then the write transaction, which looks the
\* name up again, as it is written.  A code is 64 random bits: codes are taken
\* not to repeat, though nothing looks.
OnRegister(r) ==
  /\ pc[r] = "register" /\ drawn < MaxCodes /\ drawn' = drawn + 1
  /\ \/ /\ req[r].name \notin DOMAIN users
        /\ users' = Put(users, req[r].name, [verified |-> ~SmtpEnabled, password |-> Trim[req[r].password]])
        /\ validation' = Put(validation, drawn', req[r].name)
        /\ pc' = [pc EXCEPT ![r] = "mail"] /\ req' = [req EXCEPT ![r].code = drawn']
     \/ (req[r].name \in DOMAIN users \/ MayFail) /\ Answer(r) /\ UNCHANGED <<users, validation>>
  /\ UNCHANGED <<certfp, mailed, lost>>

\* After the commit.  On an error the account stays, and whether the mail has
\* left is not known.
SendEmailOnRegistration(r) ==
  /\ pc[r] = "mail" /\ Answer(r)
  /\ \/ SmtpEnabled /\ mailed' = mailed \cup {req[r].code} /\ UNCHANGED lost
     \/ SmtpEnabled /\ MailMayFail /\ lost' = lost \cup {req[r].code} /\ UNCHANGED mailed
     \/ ~SmtpEnabled /\ UNCHANGED <<mailed, lost>>
  /\ UNCHANGED <<buckets, drawn>>

\* A slip: the code is kept.
VerifyUserHandler_KeepCode(c) ==
  /\ c \in mailed /\ c \in DOMAIN validation /\ validation[c] \in DOMAIN users
  /\ users' = [users EXCEPT ![validation[c]].verified = TRUE]
  /\ UNCHANGED <<validation, certfp, drawn, mailed, lost, pc, req>>

\* One write transaction.  Only codes that were mailed are tried; a code that is
\* not in the bucket changes nothing.
VerifyUserHandler(c) ==
  /\ c \in mailed /\ c \in DOMAIN validation /\ validation[c] \in DOMAIN users
  /\ users' = [users EXCEPT ![validation[c]].verified = TRUE]
  /\ validation' = Delete(validation, c)
  /\ UNCHANGED <<certfp, drawn, mailed, lost, pc, req>>
-----------------------------------------------------------------------------
(***************************************************************************)
(* Login and logout.  The login that only asks whether the name exists, to *)
(* ask for the password next, changes no state.                            *)
(***************************************************************************)
\* A slip: the account need not be verified.
LoginUserHandler_Unverified(r, f, n, p) ==
  /\ n \in DOMAIN users
  /\ Begin(r, "compare", [NoCall EXCEPT !.name = n, !.password = p, !.cert = f, !.hash = users[n].password])
  /\ UNCHANGED <<buckets, drawn, mailed, lost>>

\* The read transaction: the account is verified, and its hash is kept.
LoginUserHandler(r, f, n, p) ==
  /\ n \in DOMAIN users /\ users[n].verified
  /\ Begin(r, "compare", [NoCall EXCEPT !.name = n, !.password = p, !.cert = f, !.hash = users[n].password])
  /\ UNCHANGED <<buckets, drawn, mailed, lost>>

\* A slip: the error of the comparison is not looked at.
CompareHashAndPassword_Anything(r) ==
  /\ pc[r] = "compare" /\ pc' = [pc EXCEPT ![r] = "assign"]
  /\ UNCHANGED <<buckets, drawn, mailed, lost, req>>

CompareHashAndPassword(r) ==
  /\ pc[r] = "compare"
  /\ IF req[r].password = req[r].hash
       THEN pc' = [pc EXCEPT ![r] = "assign"] /\ UNCHANGED req
       ELSE Answer(r)
  /\ UNCHANGED <<buckets, drawn, mailed, lost>>

AssignFingerprint(r) ==
  /\ pc[r] = "assign" /\ Answer(r)
  /\ \/ certfp' = Put(certfp, req[r].cert, req[r].name)
     \/ MayFail /\ UNCHANGED certfp
  /\ UNCHANGED <<users, validation, drawn, mailed, lost>>

\* A slip: the entry is emptied instead of deleted.
LogoutUserHandler_EmptyName(f) ==
  /\ certfp' = Put(certfp, f, Nil)
  /\ UNCHANGED <<users, validation, drawn, mailed, lost, pc, req>>

LogoutUserHandler(f) ==
  /\ certfp' = Delete(certfp, f)
  /\ UNCHANGED <<users, validation, drawn, mailed, lost, pc, req>>
-----------------------------------------------------------------------------
\* The process is stopped and started again: the requests are gone, the buckets
\* are as they were committed, the mail that has left has left.
Crash ==
  /\ MayCrash
  /\ pc' = [r \in Requests |-> "idle"] /\ req' = [r \in Requests |-> NoCall]
  /\ lost' = lost \cup {req[r].code : r \in {s \in Requests : pc[s] = "mail"}}
  /\ UNCHANGED <<buckets, drawn, mailed>>

Arrive(r) ==
  \E n \in Names, p \in Passwords :
    RegisterUserHandler(r, n, p) \/ \E f \in Certs : LoginUserHandler(r, f, n, p)

Handle(r) ==
  OnRegister(r) \/ SendEmailOnRegistration(r) \/ CompareHashAndPassword(r) \/ AssignFingerprint(r)

Next ==
  \/ \E r \in Requests : Arrive(r) \/ Handle(r)
  \/ \E c \in mailed : VerifyUserHandler(c)
  \/ \E f \in Certs : LogoutUserHandler(f)
  \/ Crash

Spec == Init /\ [][Next]_vars
-----------------------------------------------------------------------------
\* GetUsernameFromFP finds the account that a fingerprint is tied to, and its
\* "programming error" (certfp.go:65) is never logged; the account is verified,
\* though it was last looked at before the password was hashed.
SessionsAreVerified ==
  \A f \in DOMAIN certfp : certfp[f] \in DOMAIN users /\ users[certfp[f]].verified

\* An unverified account has one code that verifies it, a verified one none, and
\* no code is for anyone else, however many requests register the same name.
CodesMatchUnverified ==
  SmtpEnabled =>
    /\ \A n \in DOMAIN users : ~users[n].verified <=> \E c \in DOMAIN validation : validation[c] = n
    /\ \A c \in DOMAIN validation : validation[c] \in DOMAIN users
    /\ \A c, d \in DOMAIN validation : validation[c] = validation[d] => c = d

\* The code of every account still to be verified is in a mailbox, or about to be
\* sent there, or was lost to a mail that failed or a stop: whatever else goes wrong,
\* and in whatever order, no code is drawn, stored and then forgotten.  (Of a lost
\* one the account can neither be verified nor be registered again.)
CodeIsOnItsWay ==
  SmtpEnabled =>
    \A c \in DOMAIN validation :
      c \in mailed \cup lost \/ \E r \in Requests : pc[r] = "mail" /\ req[r].code = c

\* A fingerprint is tied to an account only by a request that brought the
\* account's password, as it is stored when the tie is made.
LoginNeedsPassword ==
  [][\A f \in DOMAIN certfp' :
       f \notin DOMAIN certfp \/ certfp'[f] # certfp[f] =>
         \E r \in Requests : /\ req[r].cert = f /\ req[r].name = certfp'[f]
                             /\ req[r].password = users[certfp'[f]].password]_vars

R == INSTANCE Registry WITH accounts <- users, sessions <- certfp

\* The handlers, failures and crashes add up to the Registry: two requests for
\* one name make one account, whose password is never written over.
ImplementsRegistry == R!Spec
-----------------------------------------------------------------------------
(***************************************************************************)
(* The invariant that carries the proofs (AccountsProofs.tla).             *)
(***************************************************************************)
\* What a login has read still holds when it is used, as no handler takes a
\* verification back or changes a password.
LoginsChecked ==
  \A r \in Requests :
    /\ pc[r] # "idle" => req[r].name \in Names /\ req[r].password \in Passwords
    /\ pc[r] \in {"compare", "assign"} =>
         /\ req[r].name \in DOMAIN users /\ users[req[r].name].verified
         /\ req[r].hash = users[req[r].name].password /\ req[r].cert \in Certs
    /\ pc[r] = "assign" => req[r].password = req[r].hash
    /\ pc[r] = "mail" => req[r].code \in 1 .. drawn

\* With mail off nobody has to be verified.
VerifiedAtOnce == ~SmtpEnabled => \A n \in DOMAIN users : users[n].verified

IndInv ==
  /\ TypeOK /\ LoginsChecked /\ VerifiedAtOnce
  /\ SessionsAreVerified /\ CodesMatchUnverified /\ CodeIsOnItsWay
-----------------------------------------------------------------------------
(***************************************************************************)
(* What the repository says of these handlers and the code does not do.    *)
(***************************************************************************)
\* users_test.go:281-283: with a user "johnny", "JOHNNY" and "JoHnNy" are refused
\* with ErrUserAlreadyExists.
CaseInsensitiveUnique == \A m, n \in DOMAIN users : Fold[m] = Fold[n] => m = n
=============================================================================
