---------------------------- MODULE AccountsProofs ----------------------------
(***************************************************************************)
(* For any names, passwords, certificates and number of requests, and with *)
(* every failure allowed: the invariant of Accounts, and that Accounts     *)
(* implements Registry.                                                    *)
(***************************************************************************)
EXTENDS Accounts, TLAPS

\* Whatever is there after storing was stored now or was there.
LEMMA PutOrigin ==
  ASSUME NEW f, NEW k, NEW v, NEW g, g = Put(f, k, v)
  PROVE  /\ DOMAIN g \subseteq DOMAIN f \cup {k}
         /\ \A x \in DOMAIN g : g[x] = v \/ (x \in DOMAIN f /\ g[x] = f[x])
  <1>1. /\ DOMAIN g = DOMAIN f \cup {k} /\ g[k] = v
        /\ \A x \in DOMAIN f : x # k => g[x] = f[x]
    BY DEF Put
  <1> QED
    BY <1>1

\* Storing and deleting keep the type of the entries.
LEMMA EntryTypes ==
  ASSUME NEW S, NEW f, f \in [DOMAIN f -> S], NEW k
  PROVE  /\ Delete(f, k) \in [DOMAIN Delete(f, k) -> S]
         /\ \A v \in S : Put(f, k, v) \in [DOMAIN Put(f, k, v) -> S]
         /\ \A v \in S : k \in DOMAIN f => [f EXCEPT ![k] = v] \in [DOMAIN f -> S]
  <1>1. Delete(f, k) \in [DOMAIN f \ {k} -> S] /\ DOMAIN Delete(f, k) = DOMAIN f \ {k}
    BY DEF Delete
  <1>2. ASSUME NEW v \in S
        PROVE  Put(f, k, v) \in [DOMAIN f \cup {k} -> S] /\ DOMAIN Put(f, k, v) = DOMAIN f \cup {k}
    BY DEF Put
  <1> QED
    BY <1>1, <1>2

\* Deleting leaves the other entries as they were.
LEMMA DeleteFacts ==
  ASSUME NEW f, NEW k
  PROVE  /\ DOMAIN Delete(f, k) = DOMAIN f \ {k}
         /\ \A x \in DOMAIN Delete(f, k) : Delete(f, k)[x] = f[x]
  BY DEF Delete

\* A request record stays one under the updates the handlers make.
LEMMA CallFacts ==
  /\ NoCall \in Call
  /\ \A n \in Names, p \in Passwords : [NoCall EXCEPT !.name = n, !.password = p] \in Call
  /\ \A n \in Names, p, h \in Passwords, f \in Certs :
       [NoCall EXCEPT !.name = n, !.password = p, !.cert = f, !.hash = h] \in Call
  /\ \A q \in Call, c \in Nat : [q EXCEPT !.code = c] \in Call
  BY DEF Call, NoCall

\* The account that OnRegister stores.
LEMMA NewAccount ==
  ASSUME NEW p \in Passwords
  PROVE  [verified |-> ~SmtpEnabled, password |-> Trim[p]] \in Account
  BY AccountsAssumption DEF Account

\* An account after its verification.
LEMMA VerifiedAccount ==
  ASSUME NEW a \in Account
  PROVE  LET b == [a EXCEPT !.verified = TRUE] IN b \in Account /\ b.verified /\ b.password = a.password
  BY DEF Account

LEMMA InitIndInv == Init => IndInv
  <1> SUFFICES ASSUME Init PROVE IndInv
    OBVIOUS
  <1>1. DOMAIN users = {} /\ DOMAIN validation = {} /\ DOMAIN certfp = {}
    BY DEF Init
  <1>2. TypeOK
    <2>1. /\ users \in [DOMAIN users -> Account] /\ validation \in [DOMAIN validation -> Names]
          /\ certfp \in [DOMAIN certfp -> Names]
      BY DEF Init
    <2> QED
      BY <1>1, <2>1, CallFacts DEF Init, TypeOK
  <1>3. LoginsChecked
    BY DEF Init, LoginsChecked
  <1> QED
    BY <1>1, <1>2, <1>3 DEF IndInv, SessionsAreVerified, CodesMatchUnverified, VerifiedAtOnce, CodeIsOnItsWay
-----------------------------------------------------------------------------
(***************************************************************************)
(* Steps that leave the buckets alone.                                     *)
(***************************************************************************)
\* While the buckets stay, it is enough that the types hold, the logins have
\* made their checks, and a code not yet mailed stays with its request or is lost.
LEMMA BucketsStay ==
  ASSUME IndInv, UNCHANGED <<buckets, drawn>>, mailed \subseteq mailed', mailed' \subseteq 1 .. drawn,
         lost \subseteq lost', lost' \subseteq 1 .. drawn,
         pc' \in [Requests -> {"idle", "register", "mail", "compare", "assign"}],
         req' \in [Requests -> Call], LoginsChecked',
         SmtpEnabled =>
           \A r \in Requests : pc[r] = "mail" =>
             req[r].code \in mailed' \cup lost' \/ (pc'[r] = "mail" /\ req'[r].code = req[r].code)
  PROVE  IndInv'
  <1> USE DEF IndInv, buckets
  <1>1. TypeOK'
    BY DEF TypeOK
  <1>2. SessionsAreVerified' /\ CodesMatchUnverified' /\ VerifiedAtOnce'
    BY DEF SessionsAreVerified, CodesMatchUnverified, VerifiedAtOnce
  <1>3. CodeIsOnItsWay'
    <2>1. CodeIsOnItsWay /\ validation' = validation
      OBVIOUS
    <2> HIDE DEF IndInv
    <2> QED
      BY <2>1 DEF CodeIsOnItsWay
  <1> QED
    BY <1>1, <1>2, <1>3

\* A request that arrives.
LEMMA ArriveStep ==
  ASSUME IndInv, NEW r \in Requests, Arrive(r)
  PROVE  IndInv'
  <1> PICK n \in Names, p \in Passwords :
        RegisterUserHandler(r, n, p) \/ \E f \in Certs : LoginUserHandler(r, f, n, p)
    BY DEF Arrive
  <1>1. CASE RegisterUserHandler(r, n, p)
    <2> DEFINE q == [NoCall EXCEPT !.name = n, !.password = p]
    <2>1. q \in Call /\ q.name = n /\ q.password = p
      BY CallFacts DEF NoCall
    <2>2. /\ UNCHANGED <<buckets, drawn, mailed, lost>> /\ pc[r] = "idle"
          /\ pc' = [pc EXCEPT ![r] = "register"] /\ req' = [req EXCEPT ![r] = q]
      BY <1>1 DEF RegisterUserHandler, Begin
    <2> HIDE DEF q
    <2> QED
      BY <2>1, <2>2, BucketsStay DEF IndInv, TypeOK, LoginsChecked, buckets
  <1>2. ASSUME NEW f \in Certs, LoginUserHandler(r, f, n, p)
        PROVE  IndInv'
    <2> DEFINE h == users[n].password
               q == [NoCall EXCEPT !.name = n, !.password = p, !.cert = f, !.hash = h]
    <2>1. n \in DOMAIN users /\ users[n].verified /\ h \in Passwords
      BY <1>2 DEF LoginUserHandler, IndInv, TypeOK, Account
    <2>2. q \in Call /\ q.name = n /\ q.password = p /\ q.cert = f /\ q.hash = h
      BY <2>1, CallFacts DEF NoCall
    <2>3. /\ UNCHANGED <<buckets, drawn, mailed, lost>> /\ pc[r] = "idle"
          /\ pc' = [pc EXCEPT ![r] = "compare"] /\ req' = [req EXCEPT ![r] = q]
      BY <1>2 DEF LoginUserHandler, Begin
    <2>4. LoginsChecked'
      <3> HIDE DEF q
      <3> QED
        BY <2>1, <2>2, <2>3 DEF IndInv, TypeOK, LoginsChecked, buckets
    <2> HIDE DEF q
    <2> QED
      BY <2>2, <2>3, <2>4, BucketsStay DEF IndInv, TypeOK
  <1> QED
    BY <1>1, <1>2

\* A request that is answered without a write, and one whose password is right.
LEMMA CompareStep ==
  ASSUME IndInv, NEW r \in Requests, CompareHashAndPassword(r)
  PROVE  IndInv'
  <1> USE DEF IndInv, TypeOK
  <1>1. UNCHANGED <<buckets, drawn, mailed, lost>> /\ pc[r] = "compare"
    BY DEF CompareHashAndPassword
  <1>2. CASE req[r].password = req[r].hash
    <2>1. pc' = [pc EXCEPT ![r] = "assign"] /\ req' = req
      BY <1>2 DEF CompareHashAndPassword
    <2>2. LoginsChecked'
      BY <1>1, <1>2, <2>1 DEF LoginsChecked, buckets
    <2> QED
      BY <1>1, <2>1, <2>2, BucketsStay
  <1>3. CASE req[r].password # req[r].hash
    <2>1. pc' = [pc EXCEPT ![r] = "idle"] /\ req' = [req EXCEPT ![r] = NoCall]
      BY <1>3 DEF CompareHashAndPassword, Answer
    <2>2. LoginsChecked'
      BY <1>1, <2>1 DEF LoginsChecked, buckets
    <2> QED
      BY <1>1, <2>1, <2>2, BucketsStay, CallFacts
  <1> QED
    BY <1>2, <1>3

\* The mail of a registration.
LEMMA MailStep ==
  ASSUME IndInv, NEW r \in Requests, SendEmailOnRegistration(r)
  PROVE  IndInv'
  <1> USE DEF IndInv, TypeOK
  <1>1. /\ UNCHANGED <<buckets, drawn>> /\ pc[r] = "mail"
        /\ pc' = [pc EXCEPT ![r] = "idle"] /\ req' = [req EXCEPT ![r] = NoCall]
    BY DEF SendEmailOnRegistration, Answer
  <1>2. req[r].code \in 1 .. drawn
    BY <1>1 DEF LoginsChecked
  <1>3. /\ mailed \subseteq mailed' /\ mailed' \subseteq 1 .. drawn
        /\ lost \subseteq lost' /\ lost' \subseteq 1 .. drawn
        /\ SmtpEnabled => req[r].code \in mailed' \cup lost'
    BY <1>2 DEF SendEmailOnRegistration
  <1>4. LoginsChecked'
    BY <1>1 DEF LoginsChecked, buckets
  <1> QED
    BY <1>1, <1>3, <1>4, BucketsStay, CallFacts

\* A stop and a start.
LEMMA CrashStep ==
  ASSUME IndInv, Crash
  PROVE  IndInv'
  <1> USE DEF IndInv, TypeOK
  <1>1. /\ UNCHANGED <<buckets, drawn, mailed>>
        /\ lost' = lost \cup {req[s].code : s \in {t \in Requests : pc[t] = "mail"}}
        /\ pc' = [r \in Requests |-> "idle"] /\ req' = [r \in Requests |-> NoCall]
    BY DEF Crash
  <1>2. LoginsChecked'
    BY <1>1 DEF LoginsChecked
  <1>3. /\ lost \subseteq lost' /\ lost' \subseteq 1 .. drawn
        /\ \A r \in Requests : pc[r] = "mail" => req[r].code \in lost'
    BY <1>1 DEF LoginsChecked
  <1> QED
    BY <1>1, <1>2, <1>3, BucketsStay, CallFacts

LEMMA StutterStep ==
  ASSUME IndInv, UNCHANGED vars
  PROVE  IndInv'
  <1>1. LoginsChecked'
    BY DEF IndInv, LoginsChecked, vars, buckets
  <1> QED
    BY <1>1, BucketsStay DEF IndInv, TypeOK, vars
-----------------------------------------------------------------------------
(***************************************************************************)
(* Steps that write.                                                       *)
(***************************************************************************)
\* OnRegister either stores an account with a new code or answers.
LEMMA RegisterStep ==
  ASSUME IndInv, NEW r \in Requests, OnRegister(r)
  PROVE  IndInv'
  <1> DEFINE n == req[r].name
             p == req[r].password
             a == [verified |-> ~SmtpEnabled, password |-> Trim[p]]
             c == drawn + 1
  <1> USE DEF IndInv
  <1>1. /\ pc[r] = "register" /\ drawn' = c /\ certfp' = certfp /\ mailed' = mailed /\ lost' = lost
        /\ n \in Names /\ p \in Passwords /\ drawn \in Nat /\ c \in 1 .. c /\ 1 .. drawn \subseteq 1 .. c
        /\ a \in Account /\ c \notin DOMAIN validation
    BY NewAccount DEF OnRegister, LoginsChecked, TypeOK
  <1>2. CASE Answer(r) /\ UNCHANGED <<users, validation>>
    <2>1. pc' = [pc EXCEPT ![r] = "idle"] /\ req' = [req EXCEPT ![r] = NoCall]
      BY <1>2 DEF Answer
    <2>2. TypeOK'
      <3>1. pc' \in [Requests -> {"idle", "register", "mail", "compare", "assign"}] /\ req' \in [Requests -> Call]
        BY <2>1, CallFacts DEF TypeOK
      <3> HIDE DEF a, n, p
      <3> QED
        BY <1>1, <1>2, <3>1 DEF TypeOK
    <2>3. LoginsChecked'
      BY <1>1, <1>2, <2>1 DEF LoginsChecked, TypeOK
    <2>4. SessionsAreVerified' /\ CodesMatchUnverified' /\ VerifiedAtOnce'
      BY <1>1, <1>2 DEF SessionsAreVerified, CodesMatchUnverified, VerifiedAtOnce
    <2>5. CodeIsOnItsWay'
      BY <1>1, <1>2, <2>1 DEF CodeIsOnItsWay, TypeOK
    <2> QED
      BY <2>2, <2>3, <2>4, <2>5
  <1>3. CASE /\ n \notin DOMAIN users
             /\ users' = Put(users, n, a) /\ validation' = Put(validation, c, n)
             /\ pc' = [pc EXCEPT ![r] = "mail"] /\ req' = [req EXCEPT ![r].code = c]
    <2> DEFINE q == [req[r] EXCEPT !.code = c]
    <2>1. /\ DOMAIN users' = DOMAIN users \cup {n} /\ users'[n] = a
          /\ \A m \in DOMAIN users : users'[m] = users[m]
      <3> HIDE DEF a, n
      <3> QED
        BY <1>3 DEF Put
    <2>2. /\ DOMAIN validation' = DOMAIN validation \cup {c} /\ validation'[c] = n
          /\ \A d \in DOMAIN validation : validation'[d] = validation[d]
      <3> HIDE DEF n, c
      <3> QED
        BY <1>1, <1>3 DEF Put
    <2>3. /\ req' = [req EXCEPT ![r] = q] /\ q \in Call
          /\ q.code = c /\ q.name = n /\ q.password = p
      <3>1. req[r] \in Call
        BY DEF TypeOK
      <3>2. q \in Call /\ q.code = c /\ q.name = n /\ q.password = p
        <4>1. c \in Nat
          BY <1>1
        <4> HIDE DEF c
        <4> QED
          BY <3>1, <4>1, CallFacts DEF Call
      <3> QED
        BY <1>3, <3>2
    <2> HIDE DEF q, a
    <2>4. TypeOK'
      <3>1. users' \in [DOMAIN users' -> Account] /\ validation' \in [DOMAIN validation' -> Names]
        BY <1>1, <1>3, EntryTypes DEF TypeOK
      <3> QED
        BY <1>1, <1>3, <2>1, <2>2, <2>3, <3>1 DEF TypeOK
    <2>5. LoginsChecked'
      BY <1>1, <1>3, <2>1, <2>3 DEF LoginsChecked, TypeOK
    <2>6. SessionsAreVerified' /\ VerifiedAtOnce'
      <3>1. ~SmtpEnabled => a.verified
        BY DEF a
      <3> QED
        BY <1>1, <1>3, <2>1, <3>1 DEF SessionsAreVerified, VerifiedAtOnce
    <2>7. CodesMatchUnverified'
      <3>1. SmtpEnabled => ~a.verified
        BY DEF a
      <3> QED
        BY <1>1, <1>3, <2>1, <2>2, <3>1 DEF CodesMatchUnverified
    <2>8. CodeIsOnItsWay'
      BY <1>1, <1>3, <2>2, <2>3 DEF CodeIsOnItsWay, TypeOK
    <2> QED
      BY <2>4, <2>5, <2>6, <2>7, <2>8
  <1> QED
    BY <1>2, <1>3 DEF OnRegister

LEMMA VerifyStep ==
  ASSUME IndInv, NEW c, VerifyUserHandler(c)
  PROVE  IndInv'
  <1> DEFINE n == validation[c]
  <1> USE DEF IndInv
  <1>1. /\ c \in DOMAIN validation /\ n \in DOMAIN users
        /\ UNCHANGED <<certfp, drawn, mailed, lost, pc, req>>
    BY DEF VerifyUserHandler
  <1>2. /\ DOMAIN users' = DOMAIN users /\ users'[n] = [users[n] EXCEPT !.verified = TRUE]
        /\ \A m \in DOMAIN users : m # n => users'[m] = users[m]
    BY <1>1 DEF VerifyUserHandler
  <1>3. /\ users'[n] \in Account /\ users'[n].verified
        /\ \A m \in DOMAIN users : users'[m].password = users[m].password
        /\ \A m \in DOMAIN users : users[m].verified => users'[m].verified
    <2> HIDE DEF IndInv, n
    <2>1. users[n] \in Account
      BY <1>1 DEF IndInv, TypeOK
    <2>2. users'[n] \in Account /\ users'[n].verified /\ users'[n].password = users[n].password
      BY <1>2, <2>1, VerifiedAccount
    <2> QED
      BY <1>2, <2>2
  <1>4. /\ DOMAIN validation' = DOMAIN validation \ {c}
        /\ \A d \in DOMAIN validation' : validation'[d] = validation[d]
    BY DeleteFacts DEF VerifyUserHandler
  <1>5. TypeOK'
    <2>1. users' \in [DOMAIN users' -> Account] /\ validation' \in [DOMAIN validation' -> Names]
      <3>1. [users[n] EXCEPT !.verified = TRUE] \in Account
        BY <1>2, <1>3
      <3> QED
        BY <1>1, <1>2, <3>1, EntryTypes DEF VerifyUserHandler, TypeOK
    <2> QED
      BY <1>1, <1>2, <1>3, <1>4, <2>1 DEF TypeOK
  <1>6. LoginsChecked'
    BY <1>1, <1>2, <1>3 DEF LoginsChecked
  <1>7. SessionsAreVerified' /\ VerifiedAtOnce'
    BY <1>1, <1>2, <1>3 DEF SessionsAreVerified, VerifiedAtOnce
  <1>8. CodesMatchUnverified'
    <2> SUFFICES ASSUME SmtpEnabled
                 PROVE  CodesMatchUnverified'
      BY DEF CodesMatchUnverified
    <2>1. /\ \A m \in DOMAIN users : ~users[m].verified <=> \E d \in DOMAIN validation : validation[d] = m
          /\ \A d \in DOMAIN validation : validation[d] \in DOMAIN users
          /\ \A d, e \in DOMAIN validation : validation[d] = validation[e] => d = e
      BY DEF CodesMatchUnverified
    <2> HIDE DEF IndInv, n
    <2>2. \A d \in DOMAIN validation' : validation'[d] # n
      BY <1>1, <1>4, <2>1 DEF n
    <2>3. \A m \in DOMAIN users \ {n} : users'[m].verified = users[m].verified
      BY <1>2
    <2>4. \A m \in DOMAIN users' : ~users'[m].verified <=> \E d \in DOMAIN validation' : validation'[d] = m
      <3> TAKE m \in DOMAIN users'
      <3>1. CASE m = n
        BY <1>3, <2>2, <3>1
      <3>2. CASE m # n
        BY <1>2, <1>4, <2>1, <2>3, <3>2 DEF n
      <3> QED
        BY <3>1, <3>2
    <2>5. /\ \A d \in DOMAIN validation' : validation'[d] \in DOMAIN users'
          /\ \A d, e \in DOMAIN validation' : validation'[d] = validation'[e] => d = e
      BY <1>2, <1>4, <2>1
    <2> QED
      BY <2>4, <2>5 DEF CodesMatchUnverified
  <1>9. CodeIsOnItsWay'
    BY <1>1, <1>4 DEF CodeIsOnItsWay
  <1> QED
    BY <1>5, <1>6, <1>7, <1>8, <1>9

LEMMA AssignStep ==
  ASSUME IndInv, NEW r \in Requests, AssignFingerprint(r)
  PROVE  IndInv'
  <1> USE DEF IndInv
  <1>1. /\ pc[r] = "assign" /\ UNCHANGED <<users, validation, drawn, mailed, lost>>
        /\ pc' = [pc EXCEPT ![r] = "idle"] /\ req' = [req EXCEPT ![r] = NoCall]
        /\ certfp' = Put(certfp, req[r].cert, req[r].name) \/ certfp' = certfp
    BY DEF AssignFingerprint, Answer
  <1>2. /\ req[r].cert \in Certs /\ req[r].name \in DOMAIN users /\ users[req[r].name].verified
    BY <1>1 DEF LoginsChecked
  <1>3. /\ DOMAIN certfp' \subseteq DOMAIN certfp \cup {req[r].cert}
        /\ \A f \in DOMAIN certfp' : certfp'[f] = req[r].name \/ (f \in DOMAIN certfp /\ certfp'[f] = certfp[f])
    <2> DEFINE k == req[r].cert
               v == req[r].name
    <2>1. certfp' = Put(certfp, k, v) \/ certfp' = certfp
      BY <1>1
    <2> HIDE DEF k, v
    <2>2. /\ DOMAIN certfp' \subseteq DOMAIN certfp \cup {k}
          /\ \A f \in DOMAIN certfp' : certfp'[f] = v \/ (f \in DOMAIN certfp /\ certfp'[f] = certfp[f])
      <3>1. CASE certfp' = Put(certfp, k, v)
        BY <3>1, PutOrigin
      <3>2. CASE certfp' = certfp
        BY <3>2
      <3> QED
        BY <2>1, <3>1, <3>2
    <2> QED
      BY <2>2 DEF k, v
  <1>4. TypeOK'
    <2>1. certfp' \in [DOMAIN certfp' -> Names]
      <3> DEFINE k == req[r].cert
                 v == req[r].name
      <3>1. certfp \in [DOMAIN certfp -> Names] /\ v \in Names
        BY <1>2 DEF TypeOK
      <3>2. certfp' = Put(certfp, k, v) \/ certfp' = certfp
        BY <1>1
      <3> HIDE DEF k, v, IndInv
      <3>3. Put(certfp, k, v) \in [DOMAIN Put(certfp, k, v) -> Names]
        BY <3>1, EntryTypes
      <3> QED
        BY <3>1, <3>2, <3>3
    <2> QED
      BY <1>1, <1>2, <1>3, <2>1, CallFacts DEF TypeOK
  <1>5. LoginsChecked'
    BY <1>1 DEF LoginsChecked, TypeOK
  <1>6. SessionsAreVerified' /\ CodesMatchUnverified' /\ VerifiedAtOnce'
    BY <1>1, <1>2, <1>3 DEF SessionsAreVerified, CodesMatchUnverified, VerifiedAtOnce
  <1>7. CodeIsOnItsWay'
    BY <1>1 DEF CodeIsOnItsWay, TypeOK
  <1> QED
    BY <1>4, <1>5, <1>6, <1>7

LEMMA LogoutStep ==
  ASSUME IndInv, NEW f, LogoutUserHandler(f)
  PROVE  IndInv'
  <1> USE DEF IndInv
  <1>1. /\ UNCHANGED <<users, validation, drawn, mailed, lost, pc, req>>
        /\ DOMAIN certfp' \subseteq DOMAIN certfp
        /\ \A g \in DOMAIN certfp' : certfp'[g] = certfp[g]
    BY DeleteFacts DEF LogoutUserHandler
  <1>2. TypeOK' /\ LoginsChecked'
    <2>1. certfp' \in [DOMAIN certfp' -> Names]
      BY EntryTypes DEF LogoutUserHandler, TypeOK
    <2> QED
      BY <1>1, <2>1 DEF TypeOK, LoginsChecked
  <1>3. SessionsAreVerified' /\ VerifiedAtOnce' /\ CodesMatchUnverified' /\ CodeIsOnItsWay'
    BY <1>1 DEF SessionsAreVerified, CodesMatchUnverified, VerifiedAtOnce, CodeIsOnItsWay
  <1> QED
    BY <1>2, <1>3

LEMMA IndStep == IndInv /\ [Next]_vars => IndInv'
  <1> SUFFICES ASSUME IndInv, [Next]_vars PROVE IndInv'
    OBVIOUS
  <1>1. ASSUME NEW r \in Requests, Arrive(r) \/ Handle(r) PROVE IndInv'
    BY <1>1, ArriveStep, RegisterStep, MailStep, CompareStep, AssignStep DEF Handle
  <1>2. ASSUME NEW c \in mailed, VerifyUserHandler(c) PROVE IndInv'
    BY <1>2, VerifyStep
  <1>3. ASSUME NEW f \in Certs, LogoutUserHandler(f) PROVE IndInv'
    BY <1>3, LogoutStep
  <1> QED
    BY <1>1, <1>2, <1>3, CrashStep, StutterStep DEF Next
-----------------------------------------------------------------------------
(***************************************************************************)
(* The theorems.                                                           *)
(***************************************************************************)
\* The inductive invariant of the specification.
THEOREM Inductive == Spec => []IndInv
  BY InitIndInv, IndStep, PTL DEF Spec

\* Buckets, codes and requests keep their types.
THEOREM TypeCorrect == Spec => []TypeOK
  <1>1. IndInv => TypeOK
    BY DEF IndInv
  <1> QED
    BY <1>1, Inductive, PTL

\* A fingerprint is always tied to a verified account that exists, so that the
\* "programming error" of GetUsernameFromFP cannot be reached.
THEOREM Sessions == Spec => []SessionsAreVerified
  <1>1. IndInv => SessionsAreVerified
    BY DEF IndInv
  <1> QED
    BY <1>1, Inductive, PTL

\* With mail on, accounts to be verified and stored codes are one to one, for
\* any number of concurrent registrations, failed commits and restarts.
THEOREM Codes == Spec => []CodesMatchUnverified
  <1>1. IndInv => CodesMatchUnverified
    BY DEF IndInv
  <1> QED
    BY <1>1, Inductive, PTL

\* No account is left without its code but by a mail that failed or a stop.
THEOREM CodesAreSent == Spec => []CodeIsOnItsWay
  <1>1. IndInv => CodeIsOnItsWay
    BY DEF IndInv
  <1> QED
    BY <1>1, Inductive, PTL
-----------------------------------------------------------------------------
(***************************************************************************)
(* Accounts implements Registry: an OnRegister that commits is a Register, *)
(* a verification a Verify, an AssignFingerprint a Login, a logout a       *)
(* Logout, and every other step changes nothing the Registry shows.        *)
(***************************************************************************)
LEMMA RefineRegister ==
  ASSUME IndInv, NEW r \in Requests, OnRegister(r)
  PROVE  [R!Next]_<<users, certfp>>
  <1> DEFINE n == req[r].name
             p == Trim[req[r].password]
  <1>1. certfp' = certfp /\ n \in Names /\ p \in Passwords
    BY AccountsAssumption DEF OnRegister, IndInv, LoginsChecked
  <1>2. CASE UNCHANGED users
    BY <1>1, <1>2
  <1>3. CASE n \notin DOMAIN users /\ users' = Put(users, n, [verified |-> ~SmtpEnabled, password |-> p])
    <2> HIDE DEF n, p
    <2>1. R!Register(n, p)
      BY <1>1, <1>3 DEF R!Register, R!Extend, Put
    <2> QED
      BY <1>1, <2>1 DEF R!Next
  <1> QED
    BY <1>2, <1>3 DEF OnRegister

LEMMA RefineVerify ==
  ASSUME IndInv, NEW c, VerifyUserHandler(c)
  PROVE  [R!Next]_<<users, certfp>>
  <1> DEFINE n == validation[c]
  <1>1. /\ c \in DOMAIN validation /\ n \in Names /\ n \in DOMAIN users
        /\ users' = [users EXCEPT ![n].verified = TRUE] /\ certfp' = certfp
    BY DEF VerifyUserHandler, IndInv, TypeOK
  <1>2. CASE SmtpEnabled /\ ~users[n].verified
    <2> HIDE DEF n
    <2>1. R!Verify(n)
      BY <1>1, <1>2 DEF R!Verify
    <2> QED
      BY <1>1, <2>1 DEF R!Next
  <1>3. CASE users[n].verified
    <2>1. users[n] \in Account /\ users[n].verified = TRUE
      BY <1>1, <1>3 DEF IndInv, TypeOK, Account
    <2> HIDE DEF n
    <2>2. [users[n] EXCEPT !.verified = TRUE] = users[n]
      BY <2>1 DEF Account
    <2>3. users' = users
      BY <1>1, <2>2 DEF IndInv, TypeOK
    <2> QED
      BY <1>1, <2>3
  <1> QED
    BY <1>1, <1>2, <1>3 DEF IndInv, VerifiedAtOnce

\* Every step of Accounts is a step of Registry or changes nothing it shows.
LEMMA RefineStep ==
  ASSUME IndInv, [Next]_vars
  PROVE  [R!Next]_<<users, certfp>>
  <1>1. ASSUME NEW r \in Requests, Arrive(r) PROVE UNCHANGED <<users, certfp>>
    BY <1>1 DEF Arrive, RegisterUserHandler, LoginUserHandler, buckets
  <1>2. ASSUME NEW r \in Requests, SendEmailOnRegistration(r) \/ CompareHashAndPassword(r)
        PROVE  UNCHANGED <<users, certfp>>
    BY <1>2 DEF SendEmailOnRegistration, CompareHashAndPassword, buckets
  <1>3. ASSUME NEW r \in Requests, AssignFingerprint(r) PROVE [R!Next]_<<users, certfp>>
    <2> DEFINE n == req[r].name
               f == req[r].cert
    <2>1. /\ n \in Names /\ f \in Certs /\ n \in DOMAIN users /\ users[n].verified /\ users' = users
          /\ certfp' = Put(certfp, f, n) \/ certfp' = certfp
      BY <1>3 DEF AssignFingerprint, IndInv, LoginsChecked
    <2> HIDE DEF n, f
    <2>2. certfp' = Put(certfp, f, n) => R!Login(f, n)
      BY <2>1 DEF R!Login, R!Extend, Put
    <2> QED
      BY <2>1, <2>2 DEF R!Next
  <1>4. ASSUME NEW f \in Certs, LogoutUserHandler(f) PROVE [R!Next]_<<users, certfp>>
    <2>1. R!Logout(f)
      BY <1>4 DEF LogoutUserHandler, R!Logout, R!Without, Delete
    <2> QED
      BY <2>1 DEF R!Next
  <1>5. CASE Crash \/ UNCHANGED vars
    BY <1>5 DEF Crash, vars, buckets
  <1> QED
    BY <1>1, <1>2, <1>3, <1>4, <1>5, RefineRegister, RefineVerify DEF Next, Handle

\* Everything the account handlers do, with commits and mails that fail and
\* restarts, is an execution of the Registry.
THEOREM Refinement == Spec => ImplementsRegistry
  <1>1. Init => R!Init
    BY DEF Init, R!Init
  <1>2. IndInv /\ [Next]_vars => [R!Next]_(R!registry)
    BY RefineStep DEF R!registry
  <1> QED
    BY <1>1, <1>2, Inductive, PTL DEF Spec, ImplementsRegistry, R!Spec

\* Every tie of a fingerprint to an account was made by a request that brought
\* the account's password.
LEMMA TieNeedsPassword ==
  ASSUME IndInv, [Next]_vars, NEW f \in DOMAIN certfp', f \notin DOMAIN certfp \/ certfp'[f] # certfp[f]
  PROVE  \E r \in Requests : /\ req[r].cert = f /\ req[r].name = certfp'[f]
                             /\ req[r].password = users[certfp'[f]].password
  <1>1. ASSUME NEW r \in Requests, Arrive(r) \/ OnRegister(r) \/ SendEmailOnRegistration(r) \/ CompareHashAndPassword(r)
        PROVE  certfp' = certfp
    <2>1. CASE Arrive(r)
      BY <2>1 DEF Arrive, RegisterUserHandler, LoginUserHandler, buckets
    <2>2. CASE OnRegister(r)
      BY <2>2 DEF OnRegister
    <2>3. CASE SendEmailOnRegistration(r) \/ CompareHashAndPassword(r)
      BY <2>3 DEF SendEmailOnRegistration, CompareHashAndPassword, buckets
    <2> QED
      BY <1>1, <2>1, <2>2, <2>3
  <1>2. ASSUME NEW c, VerifyUserHandler(c) PROVE certfp' = certfp
    BY <1>2 DEF VerifyUserHandler
  <1>3. CASE Crash \/ UNCHANGED vars
    BY <1>3 DEF Crash, vars, buckets
  <1>4. ASSUME NEW g, LogoutUserHandler(g) PROVE f \in DOMAIN certfp /\ certfp'[f] = certfp[f]
    <2>1. certfp' = Delete(certfp, g)
      BY <1>4 DEF LogoutUserHandler
    <2>2. \A x \in DOMAIN certfp' : x \in DOMAIN certfp /\ certfp'[x] = certfp[x]
      BY <2>1 DEF Delete
    <2> QED
      BY <2>2
  <1>5. ASSUME NEW r \in Requests, AssignFingerprint(r)
        PROVE  /\ req[r].cert = f /\ req[r].name = certfp'[f]
               /\ req[r].password = users[certfp'[f]].password
    <2> DEFINE n == req[r].name
               k == req[r].cert
    <2>1. /\ certfp' = Put(certfp, k, n) \/ certfp' = certfp
          /\ req[r].password = users[n].password
      BY <1>5 DEF AssignFingerprint, IndInv, LoginsChecked
    <2>2. k = f /\ n = certfp'[f]
      <3> HIDE DEF n, k
      <3>1. certfp' = Put(certfp, k, n)
        BY <2>1
      <3>2. /\ DOMAIN certfp' = DOMAIN certfp \cup {k} /\ certfp'[k] = n
            /\ \A x \in DOMAIN certfp : x # k => certfp'[x] = certfp[x]
        <4> DEFINE g == Put(certfp, k, n)
        <4>1. /\ DOMAIN g = DOMAIN certfp \cup {k} /\ g[k] = n
              /\ \A x \in DOMAIN certfp : x # k => g[x] = certfp[x]
          BY DEF Put
        <4> HIDE DEF g
        <4>2. certfp' = g
          BY <3>1, Zenon DEF g
        <4> QED
          BY <4>1, <4>2, Zenon
      <3> QED
        BY <3>2
    <2> QED
      BY <2>1, <2>2
  <1> QED
    BY <1>1, <1>2, <1>3, <1>4, <1>5 DEF Next, Handle

\* The same, of the specification.
THEOREM PasswordNeeded == Spec => LoginNeedsPassword
  <1>1. IndInv /\ [Next]_vars =>
          [\A f \in DOMAIN certfp' :
             f \notin DOMAIN certfp \/ certfp'[f] # certfp[f] =>
               \E r \in Requests : /\ req[r].cert = f /\ req[r].name = certfp'[f]
                                   /\ req[r].password = users[certfp'[f]].password]_vars
    BY TieNeedsPassword
  <1> QED
    BY <1>1, Inductive, PTL DEF Spec, LoginNeedsPassword
=============================================================================
