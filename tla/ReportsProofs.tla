---------------------------- MODULE ReportsProofs ----------------------------
(***************************************************************************)
(* For any users, posts and number of requests, with failing mail and      *)
(* restarts: the administrators get one mail about a post at most, and a   *)
(* bounded number of mails per user and minute.                            *)
(***************************************************************************)
EXTENDS Reports, FiniteSetTheorems, TLAPS

IndInv == TypeOK /\ OneMailPerPost

LEMMA IndInit == Init => IndInv
  <1> SUFFICES ASSUME Init PROVE IndInv
    OBVIOUS
  <1>1. TypeOK
    BY LimiterAssumption DEF Init, NoHits, TypeOK, CountersOK, NoReport, Users
  <1>2. ASSUME NEW p \in Posts PROVE mails[p] + Cardinality(Underway(p)) <= IF reported[p] THEN 1 ELSE 0
    <2>1. mails[p] = 0 /\ Underway(p) = {}
      BY DEF Init, Underway
    <2> QED
      BY <2>1, FS_EmptySet
  <1> QED
    BY <1>1, <1>2 DEF IndInv, OneMailPerPost

\* The requests that report a post are finitely many.
LEMMA UnderwayFacts ==
  ASSUME TypeOK, NEW p \in Posts
  PROVE  /\ IsFiniteSet(Underway(p)) /\ Cardinality(Underway(p)) \in Nat
         /\ mails[p] \in Nat /\ reported[p] \in BOOLEAN
  <1>1. Underway(p) \subseteq Requests /\ IsFiniteSet(Requests)
    BY ReportsAssumption DEF Underway
  <1> QED
    BY <1>1, FS_Subset, FS_CardinalityType DEF TypeOK

\* Counting one more keeps counts natural numbers.
LEMMA CountsStayCounts ==
  ASSUME NEW S, NEW f \in [S -> Nat], NEW k
  PROVE  [f EXCEPT ![k] = @ + 1] \in [S -> Nat]
  <1>1. CASE k \in S
    <2>1. f[k] + 1 \in Nat
      BY <1>1
    <2> QED
      BY <1>1, <2>1
  <1>2. CASE k \notin S
    <2>1. [f EXCEPT ![k] = @ + 1] = f
      BY <1>2
    <2> QED
      BY <2>1
  <1> QED
    BY <1>1, <1>2

\* A step that marks nothing and mails nothing takes no report on.
LEMMA FewerUnderway ==
  ASSUME IndInv, TypeOK', UNCHANGED <<reported, mails>>,
         \A p \in Posts : Underway(p)' \subseteq Underway(p)
  PROVE  IndInv'
  <1>1. ASSUME NEW p \in Posts
        PROVE  mails'[p] + Cardinality(Underway(p)') <= IF reported'[p] THEN 1 ELSE 0
    <2>1. IsFiniteSet(Underway(p)) /\ Underway(p)' \subseteq Underway(p) /\ Cardinality(Underway(p)) \in Nat
          /\ mails[p] \in Nat
      BY UnderwayFacts DEF IndInv
    <2>2. Cardinality(Underway(p)') <= Cardinality(Underway(p)) /\ Cardinality(Underway(p)') \in Nat
      BY <2>1, FS_Subset, FS_CardinalityType
    <2> QED
      BY <2>1, <2>2 DEF IndInv, OneMailPerPost
  <1> QED
    BY <1>1 DEF IndInv, OneMailPerPost

\* The mark is tested and set in one transaction: whoever sets it is the first.
LEMMA MarkStep ==
  ASSUME IndInv, NEW r \in Requests, NEW u \in Users, NEW p \in Posts, ReportHandler(r, u, p)
  PROVE  IndInv'
  <1> USE DEF IndInv
  <1>1. /\ pc[r] = "idle" /\ ~reported[p] /\ reported' = [reported EXCEPT ![p] = TRUE]
        /\ pc' = [pc EXCEPT ![r] = "check"] /\ req' = [req EXCEPT ![r] = [user |-> u, post |-> p]]
        /\ mails' = mails /\ UNCHANGED <<prev, cur, tick>>
    BY DEF ReportHandler, counters
  <1>2. TypeOK'
    BY <1>1 DEF TypeOK, CountersOK
  <1>3. ASSUME NEW q \in Posts
        PROVE  mails'[q] + Cardinality(Underway(q)') <= IF reported'[q] THEN 1 ELSE 0
    <2>1. CASE q = p
      <3>1. mails[p] = 0 /\ Cardinality(Underway(p)) = 0 /\ IsFiniteSet(Underway(p))
        BY <1>1, UnderwayFacts DEF OneMailPerPost
      <3>2. Underway(p) = {}
        BY <3>1, FS_EmptySet
      <3>3. Underway(p)' = {r}
        BY <1>1, <3>2 DEF Underway, TypeOK
      <3>4. Cardinality(Underway(p)') = 1
        BY <3>3, FS_Singleton
      <3> QED
        BY <1>1, <2>1, <3>1, <3>4 DEF TypeOK
    <2>2. CASE q # p
      <3>1. Underway(q)' = Underway(q) /\ reported'[q] = reported[q]
        BY <1>1, <2>2 DEF Underway, TypeOK
      <3> QED
        BY <1>1, <3>1 DEF OneMailPerPost
    <2> QED
      BY <2>1, <2>2
  <1> QED
    BY <1>2, <1>3 DEF OneMailPerPost

\* A mail that is sent is no longer to be sent.
LEMMA MailStep ==
  ASSUME IndInv, NEW r \in Requests, SendEmail(r)
  PROVE  IndInv'
  <1> USE DEF IndInv
  <1> DEFINE p == req[r].post
  <1>1. /\ pc[r] = "send" /\ pc' = [pc EXCEPT ![r] = "idle"] /\ req' = [req EXCEPT ![r] = NoReport]
        /\ reported' = reported /\ UNCHANGED <<prev, cur, tick>>
        /\ mails' = [mails EXCEPT ![p] = @ + 1] \/ mails' = mails
    BY DEF SendEmail, Answer, counters
  <1>2. /\ pc' \in [Requests -> {"idle", "check", "count", "send"}]
        /\ req' \in [Requests -> [user: Users, post: Posts] \cup {NoReport}]
    BY <1>1 DEF TypeOK
  <1>3. \A q \in Posts : Underway(q)' \subseteq Underway(q)
    BY <1>1 DEF Underway, TypeOK
  <1>4. CASE mails' = mails
    <2>1. TypeOK'
      BY <1>1, <1>2, <1>4 DEF TypeOK, CountersOK
    <2> QED
      BY <1>1, <1>3, <1>4, <2>1, FewerUnderway
  <1>5. CASE mails' = [mails EXCEPT ![p] = @ + 1]
    <2>1. TypeOK'
      <3>1. mails' \in [Posts -> Nat]
        BY <1>5, CountsStayCounts DEF TypeOK
      <3> QED
        BY <1>1, <1>2, <3>1 DEF TypeOK, CountersOK
    <2>2. ASSUME NEW q \in Posts
          PROVE  mails'[q] + Cardinality(Underway(q)') <= IF reported'[q] THEN 1 ELSE 0
      <3>1. CASE q = p
        <4>1. Underway(q)' = Underway(q) \ {r} /\ r \in Underway(q)
          BY <1>1, <3>1 DEF Underway, TypeOK
        <4>2. Cardinality(Underway(q)') = Cardinality(Underway(q)) - 1
          BY <4>1, UnderwayFacts, FS_RemoveElement
        <4>3. mails'[q] = mails[q] + 1
          BY <1>5, <3>1 DEF TypeOK
        <4> QED
          BY <1>1, <4>2, <4>3, UnderwayFacts DEF OneMailPerPost
      <3>2. CASE q # p
        <4>1. Underway(q)' = Underway(q) /\ mails'[q] = mails[q]
          BY <1>1, <1>5, <3>2 DEF Underway, TypeOK
        <4> QED
          BY <1>1, <4>1 DEF OneMailPerPost
      <3> QED
        BY <3>1, <3>2
    <2> QED
      BY <2>1, <2>2 DEF OneMailPerPost
  <1> QED
    BY <1>1, <1>4, <1>5

\* The limiter lets a report go on or turns it away.
LEMMA LimitStep ==
  ASSUME IndInv, NEW r \in Requests, CheckReportLimit(r) \/ CountReport(r)
  PROVE  IndInv'
  <1> USE DEF IndInv
  <1>1. CASE CheckReportLimit(r)
    <2>1. /\ pc[r] = "check" /\ UNCHANGED <<reported, mails, prev, cur, tick>>
          /\ \/ pc' = [pc EXCEPT ![r] = "count"] /\ req' = req
             \/ pc' = [pc EXCEPT ![r] = "idle"] /\ req' = [req EXCEPT ![r] = NoReport]
      BY <1>1 DEF CheckReportLimit, Goto, Answer, counters
    <2>2. TypeOK' /\ \A q \in Posts : Underway(q)' \subseteq Underway(q)
      BY <2>1 DEF Underway, TypeOK, CountersOK
    <2> QED
      BY <2>1, <2>2, FewerUnderway
  <1>2. CASE CountReport(r)
    <2>1. /\ pc[r] = "count" /\ UNCHANGED <<reported, mails, prev, tick, req>>
          /\ pc' = [pc EXCEPT ![r] = "send"] /\ cur' = [cur EXCEPT ![req[r].user] = @ + 1]
      BY <1>2 DEF CountReport, Goto, Inc
    <2>2. TypeOK' /\ \A q \in Posts : Underway(q)' \subseteq Underway(q)
      <3>1. cur' \in [Keys -> Nat]
        BY <2>1, CountsStayCounts DEF TypeOK, CountersOK
      <3>2. pc' \in [Requests -> {"idle", "check", "count", "send"}]
        BY <2>1 DEF TypeOK
      <3>3. \A q \in Posts : Underway(q)' \subseteq Underway(q)
        BY <2>1 DEF Underway, TypeOK
      <3> QED
        BY <2>1, <3>1, <3>2, <3>3 DEF TypeOK, CountersOK
    <2> QED
      BY <2>1, <2>2, FewerUnderway
  <1> QED
    BY <1>1, <1>2

\* Neither time nor a restart brings a mail back.
LEMMA ProcessStep ==
  ASSUME IndInv, TimePasses \/ Crash \/ UNCHANGED vars
  PROVE  IndInv'
  <1> USE DEF IndInv
  <1>1. CASE TimePasses
    <2>1. UNCHANGED <<reported, mails, pc, req>>
      BY <1>1 DEF TimePasses
    <2>2. CountersOK'
      BY <1>1, LimiterAssumption DEF TimePasses, Tick, TypeOK, CountersOK
    <2>3. TypeOK' /\ \A q \in Posts : Underway(q)' \subseteq Underway(q)
      BY <2>1, <2>2 DEF Underway, TypeOK
    <2> QED
      BY <2>1, <2>3, FewerUnderway
  <1>2. CASE Crash
    <2>1. TypeOK' /\ \A q \in Posts : Underway(q)' \subseteq Underway(q)
      BY <1>2 DEF Crash, Underway, TypeOK, CountersOK, Users
    <2> QED
      BY <1>2, <2>1, FewerUnderway DEF Crash
  <1>3. CASE UNCHANGED vars
    <2>1. TypeOK' /\ \A q \in Posts : Underway(q)' \subseteq Underway(q)
      BY <1>3 DEF vars, counters, Underway, TypeOK, CountersOK
    <2> QED
      BY <1>3, <2>1, FewerUnderway DEF vars
  <1> QED
    BY <1>1, <1>2, <1>3

LEMMA IndStep == IndInv /\ [Next]_vars => IndInv'
  BY MarkStep, MailStep, LimitStep, ProcessStep DEF Next

\* Marks, mails, counters and requests have their types, whatever fails.
THEOREM TypeCorrect == Spec => []TypeOK
  <1>1. IndInv => TypeOK
    BY DEF IndInv
  <1> QED
    BY <1>1, IndInit, IndStep, PTL DEF Spec

\* No post is mailed twice, for any number of simultaneous reports and restarts.
THEOREM AtMostOneMail == Spec => []OneMailPerPost
  <1>1. IndInv => OneMailPerPost
    BY DEF IndInv
  <1> QED
    BY <1>1, IndInit, IndStep, PTL DEF Spec
-----------------------------------------------------------------------------
(***************************************************************************)
(* How many mails of a user a window counts.                               *)
(***************************************************************************)
\* The reports of u that the limiter let through and has not yet counted.
Counting(u) == {r \in Requests : pc[r] = "count" /\ req[r].user = u}

\* Counted or about to be.
CountsBounded == \A u \in Users : cur[u] + Cardinality(Counting(u)) < Limit + Cardinality(Requests)

MailsInv == TypeOK /\ CountsBounded

LEMMA CountingFacts ==
  ASSUME NEW S, S \subseteq Requests
  PROVE  /\ IsFiniteSet(S) /\ Cardinality(S) \in Nat
         /\ Cardinality(Requests) \in Nat /\ Cardinality(S) <= Cardinality(Requests)
  <1>1. IsFiniteSet(Requests) /\ IsFiniteSet(S)
    BY ReportsAssumption, FS_Subset
  <1> QED
    BY <1>1, FS_Subset, FS_CardinalityType

\* Whoever is not limited has fewer hits than the limit: the weights add to the
\* hits of the window, they do not take from them.
LEMMA NotLimited ==
  ASSUME CountersOK, NEW k \in Keys, ~ IsLimited(k)
  PROVE  cur[k] < Limit
  <1>1. /\ prev[k] \in Nat /\ cur[k] \in Nat /\ Window \in Nat \ {0} /\ tick \in 0 .. Window - 1
        /\ Limit \in Nat
    BY LimiterAssumption DEF CountersOK
  <1>2. ~ (prev[k] * (Window - tick) + cur[k] * Window >= Limit * Window)
    BY DEF IsLimited
  <1>3. ASSUME NEW a \in Nat, NEW b \in Nat, NEW c \in Nat, NEW l \in Nat, NEW w \in Nat \ {0},
               ~ (a * b + c * w >= l * w)
        PROVE  c < l
    <2>1. a * b \in Nat
      OBVIOUS
    <2>2. c >= l => c * w >= l * w
      OBVIOUS
    <2> QED
      BY <1>3, <2>1, <2>2
  <1>4. Window - tick \in Nat
    BY <1>1
  <1> QED
    BY <1>1, <1>2, <1>3, <1>4

\* Where neither hits nor reports to be counted become more, or all hits are gone.
LEMMA FewerCounted ==
  ASSUME CountsBounded, CountersOK, CountersOK',
         \A u \in Users : cur'[u] = 0 \/ (cur'[u] = cur[u] /\ Counting(u)' \subseteq Counting(u))
  PROVE  CountsBounded'
  <1>1. ASSUME NEW u \in Users PROVE cur'[u] + Cardinality(Counting(u)') < Limit + Cardinality(Requests)
    <2>1. Counting(u) \subseteq Requests /\ Counting(u)' \subseteq Requests
      BY DEF Counting
    <2>2. Limit \in Nat \ {0} /\ cur[u] \in Nat
      BY LimiterAssumption DEF CountersOK, Users
    <2>3. CASE cur'[u] = 0
      BY <2>1, <2>2, <2>3, CountingFacts
    <2>4. CASE cur'[u] = cur[u] /\ Counting(u)' \subseteq Counting(u)
      <3>1. /\ Cardinality(Counting(u)') <= Cardinality(Counting(u))
            /\ Cardinality(Counting(u)') \in Nat /\ Cardinality(Counting(u)) \in Nat
            /\ Cardinality(Requests) \in Nat
        BY <2>1, <2>4, CountingFacts, FS_Subset
      <3> QED
        BY <2>2, <2>4, <3>1 DEF CountsBounded
    <2> QED
      BY <1>1, <2>3, <2>4
  <1> QED
    BY <1>1 DEF CountsBounded

\* A report goes on to be counted while its user is below the limit.
LEMMA CheckCounts ==
  ASSUME MailsInv, TypeOK', NEW r \in Requests, CheckReportLimit(r)
  PROVE  CountsBounded'
  <1> USE DEF MailsInv
  <1>1. pc[r] = "check" /\ UNCHANGED <<prev, cur, tick>> /\ pc \in [Requests -> {"idle", "check", "count", "send"}]
    BY DEF CheckReportLimit, counters, TypeOK
  <1>2. CASE Answer(r)
    <2>1. \A u \in Users : Counting(u)' \subseteq Counting(u)
      BY <1>1, <1>2 DEF Answer, Counting
    <2> QED
      BY <1>1, <2>1, FewerCounted DEF TypeOK
  <1>3. CASE ~ IsLimited(req[r].user) /\ Goto(r, "count")
    <2> DEFINE u == req[r].user
    <2>1. pc' = [pc EXCEPT ![r] = "count"] /\ req' = req
      BY <1>3 DEF Goto
    <2>2. ASSUME NEW v \in Users PROVE cur'[v] + Cardinality(Counting(v)') < Limit + Cardinality(Requests)
      <3>1. CASE v = u
        <4>1. cur[v] < Limit
          BY <1>3, <3>1, NotLimited DEF TypeOK, Users
        <4>2. Counting(v)' \subseteq Requests
          BY DEF Counting
        <4>3. Limit \in Nat /\ cur[v] \in Nat
          BY LimiterAssumption DEF TypeOK, CountersOK, Users
        <4> QED
          BY <1>1, <4>1, <4>2, <4>3, CountingFacts
      <3>2. CASE v # u
        <4>1. Counting(v)' = Counting(v)
          BY <1>1, <2>1, <3>2 DEF Counting
        <4> QED
          BY <1>1, <4>1 DEF CountsBounded
      <3> QED
        BY <3>1, <3>2
    <2> QED
      BY <2>2 DEF CountsBounded
  <1> QED
    BY <1>2, <1>3 DEF CheckReportLimit

\* Once counted, it is no longer to be counted.
LEMMA CountCounts ==
  ASSUME MailsInv, NEW r \in Requests, CountReport(r)
  PROVE  CountsBounded'
  <1> USE DEF MailsInv
  <1> DEFINE u == req[r].user
  <1>1. /\ pc[r] = "count" /\ req' = req /\ pc' = [pc EXCEPT ![r] = "send"]
        /\ cur' = [cur EXCEPT ![u] = @ + 1] /\ pc \in [Requests -> {"idle", "check", "count", "send"}]
    BY DEF CountReport, Goto, Inc, TypeOK
  <1>2. ASSUME NEW v \in Users PROVE cur'[v] + Cardinality(Counting(v)') < Limit + Cardinality(Requests)
    <2>0. cur[v] \in Nat /\ cur \in [Users -> Nat] /\ Limit \in Nat
          /\ Cardinality(Requests) \in Nat /\ Cardinality(Counting(v)) \in Nat /\ IsFiniteSet(Counting(v))
      <3>1. Counting(v) \subseteq Requests
        BY DEF Counting
      <3> QED
        BY <3>1, CountingFacts, LimiterAssumption DEF TypeOK, CountersOK, Users
    <2>1. CASE v = u
      <3>1. Counting(v)' = Counting(v) \ {r} /\ r \in Counting(v)
        BY <1>1, <2>1 DEF Counting
      <3>2. Cardinality(Counting(v)') = Cardinality(Counting(v)) - 1
        BY <2>0, <3>1, FS_RemoveElement
      <3>3. cur'[v] = cur[v] + 1
        BY <1>1, <2>0, <2>1
      <3> QED
        BY <2>0, <3>2, <3>3 DEF CountsBounded
    <2>2. CASE v # u
      <3>1. Counting(v)' = Counting(v) /\ cur'[v] = cur[v]
        BY <1>1, <2>0, <2>2 DEF Counting
      <3> QED
        BY <3>1 DEF CountsBounded
    <2> QED
      BY <2>1, <2>2
  <1> QED
    BY <1>2 DEF CountsBounded

LEMMA MailsInit == Init => MailsInv
  <1> SUFFICES ASSUME Init PROVE MailsInv
    OBVIOUS
  <1>1. TypeOK
    BY IndInit DEF IndInv
  <1>2. ASSUME NEW u \in Users PROVE cur[u] + Cardinality(Counting(u)) < Limit + Cardinality(Requests)
    <2>1. cur[u] = 0 /\ Counting(u) \subseteq Requests
      BY DEF Init, NoHits, Counting, Users
    <2> QED
      BY <2>1, CountingFacts, LimiterAssumption
  <1> QED
    BY <1>1, <1>2 DEF MailsInv, CountsBounded

LEMMA MailsStep == IndInv /\ MailsInv /\ [Next]_vars => MailsInv'
  <1> SUFFICES ASSUME IndInv, MailsInv, [Next]_vars PROVE MailsInv'
    OBVIOUS
  <1>1. TypeOK'
    BY IndStep DEF IndInv
  <1> USE DEF MailsInv
  <1>2. CASE \E r \in Requests : \E u \in Users, p \in Posts : ReportHandler(r, u, p)
    <2>1. PICK r \in Requests, u \in Users, p \in Posts : ReportHandler(r, u, p)
      BY <1>2
    <2>2. \A v \in Users : cur' = cur /\ Counting(v)' \subseteq Counting(v)
      BY <2>1 DEF ReportHandler, counters, Counting, TypeOK
    <2> QED
      BY <1>1, <2>2, FewerCounted DEF TypeOK
  <1>3. CASE \E r \in Requests : CheckReportLimit(r)
    BY <1>1, <1>3, CheckCounts
  <1>4. CASE \E r \in Requests : CountReport(r)
    BY <1>1, <1>4, CountCounts
  <1>5. CASE \E r \in Requests : SendEmail(r)
    <2>1. PICK r \in Requests : SendEmail(r)
      BY <1>5
    <2>2. \A v \in Users : cur' = cur /\ Counting(v)' \subseteq Counting(v)
      BY <2>1 DEF SendEmail, Answer, counters, Counting, TypeOK
    <2> QED
      BY <1>1, <2>2, FewerCounted DEF TypeOK
  <1>6. CASE TimePasses
    <2>1. \A v \in Users : cur'[v] = 0 \/ (cur'[v] = cur[v] /\ Counting(v)' \subseteq Counting(v))
      BY <1>6 DEF TimePasses, Tick, Counting, Users
    <2> QED
      BY <1>1, <2>1, FewerCounted DEF TypeOK
  <1>7. CASE Crash
    <2>1. \A v \in Users : cur'[v] = 0
      BY <1>7 DEF Crash
    <2> QED
      BY <1>1, <2>1, FewerCounted DEF TypeOK
  <1>8. CASE UNCHANGED vars
    <2>1. \A v \in Users : cur' = cur /\ Counting(v)' \subseteq Counting(v)
      BY <1>8 DEF vars, counters, Counting
    <2> QED
      BY <1>1, <2>1, FewerCounted DEF TypeOK
  <1> QED
    BY <1>2, <1>3, <1>4, <1>5, <1>6, <1>7, <1>8 DEF Next

\* In a minute the administrators get fewer mails about a user's reports than the limit
\* and the number of requests in flight together.
THEOREM MailsPerWindow == Spec => []MailsBounded
  <1>1. MailsInv => MailsBounded
    <2> SUFFICES ASSUME MailsInv, NEW u \in Users PROVE cur[u] < Limit + Cardinality(Requests)
      BY DEF MailsBounded
    <2>1. Counting(u) \subseteq Requests /\ cur[u] \in Nat
      BY DEF Counting, MailsInv, TypeOK, CountersOK, Users
    <2> QED
      BY <2>1, CountingFacts, LimiterAssumption DEF MailsInv, CountsBounded
  <1>2. Spec => []IndInv
    BY IndInit, IndStep, PTL DEF Spec
  <1>3. IndInv /\ IndInv' /\ MailsInv /\ [Next]_vars => MailsInv'
    BY MailsStep
  <1> QED
    BY <1>1, <1>2, <1>3, MailsInit, PTL DEF Spec
=============================================================================
