------------------------------- MODULE Reports -------------------------------
(***************************************************************************)
(* Reporting a post to the administrators: report.go, and                  *)
(* SendEmailOnReport of email.go with its own rate limiter, one mail per   *)
(* user and minute.  Posts are those that bucket posts holds; none is ever *)
(* deleted, and a report of any other changes nothing.                     *)
(***************************************************************************)
EXTENDS Limiter, FiniteSets

CONSTANTS
  Posts,
  Requests,      \* goroutines of the server, one per open connection
  SmtpEnabled,   \* Configuration.Smtp.Enabled
  MailMayFail,   \* the lookup of the host name or the mail may return an error
  MayCrash,      \* the process may be stopped and started again at any point
  Nil

\* emailReportLimiter counts by username; its Limit is 1, its Window a minute.
Users == Keys

ASSUME ReportsAssumption ==
  /\ SmtpEnabled \in BOOLEAN /\ MailMayFail \in BOOLEAN /\ MayCrash \in BOOLEAN
  /\ IsFiniteSet(Requests) /\ Nil \notin Users \cup Posts

VARIABLES
  reported,   \* key reports of each post: "0" is FALSE
  mails,      \* mails to the administrators, by post
  pc,         \* where each request's handler is
  req         \* who reports what

vars == <<reported, mails, counters, pc, req>>

NoReport == [user |-> Nil, post |-> Nil]

TypeOK ==
  /\ reported \in [Posts -> BOOLEAN] /\ mails \in [Posts -> Nat] /\ CountersOK
  /\ pc \in [Requests -> {"idle", "check", "count", "send"}]
  /\ req \in [Requests -> [user: Users, post: Posts] \cup {NoReport}]

Init ==
  /\ reported = [p \in Posts |-> FALSE] /\ mails = [p \in Posts |-> 0]
  /\ NoHits /\ tick = 0
  /\ pc = [r \in Requests |-> "idle"] /\ req = [r \in Requests |-> NoReport]

Goto(r, label) == pc' = [pc EXCEPT ![r] = label] /\ UNCHANGED req
Answer(r) == pc' = [pc EXCEPT ![r] = "idle"] /\ req' = [req EXCEPT ![r] = NoReport]

\* A slip: the mark is read in a transaction of its own, before the one that sets it.
ReportHandler_MarkUnchecked(r, u, p) ==
  /\ pc[r] = "idle"
  /\ reported' = [reported EXCEPT ![p] = TRUE]
  /\ pc' = [pc EXCEPT ![r] = "check"] /\ req' = [req EXCEPT ![r] = [user |-> u, post |-> p]]
  /\ UNCHANGED <<mails, counters>>

\* The write transaction: the post is marked and copied.  If it is marked already
\* the answer is "Post has already been reported", and nothing changes.
ReportHandler(r, u, p) ==
  /\ pc[r] = "idle" /\ ~reported[p]
  /\ reported' = [reported EXCEPT ![p] = TRUE]
  /\ pc' = [pc EXCEPT ![r] = "check"] /\ req' = [req EXCEPT ![r] = [user |-> u, post |-> p]]
  /\ UNCHANGED <<mails, counters>>

\* A slip: the limiter is not asked.
CheckReportLimit_Never(r) ==
  /\ pc[r] = "check"
  /\ IF SmtpEnabled THEN Goto(r, "count") ELSE Answer(r)
  /\ UNCHANGED <<reported, mails, counters>>

\* Without mail, or over the limit, the answer is an error; the mark stays.
CheckReportLimit(r) ==
  /\ pc[r] = "check"
  /\ IF SmtpEnabled /\ ~IsLimited(req[r].user) THEN Goto(r, "count") ELSE Answer(r)
  /\ UNCHANGED <<reported, mails, counters>>

CountReport(r) ==
  /\ pc[r] = "count" /\ Inc(req[r].user) /\ Goto(r, "send")
  /\ UNCHANGED <<reported, mails>>

\* On an error the mark stays, and whether the mail has left is not known.
SendEmail(r) ==
  /\ pc[r] = "send" /\ Answer(r)
  /\ \/ mails' = [mails EXCEPT ![req[r].post] = @ + 1]
     \/ MailMayFail /\ UNCHANGED mails
  /\ UNCHANGED <<reported, counters>>

TimePasses == Tick /\ UNCHANGED <<reported, mails, pc, req>>

\* Requests and the limiter are memory, the marks are not.
Crash ==
  /\ MayCrash
  /\ pc' = [r \in Requests |-> "idle"] /\ req' = [r \in Requests |-> NoReport]
  /\ prev' = [u \in Users |-> 0] /\ cur' = [u \in Users |-> 0]
  /\ UNCHANGED <<reported, mails, tick>>

Next ==
  \/ \E r \in Requests :
       \/ \E u \in Users, p \in Posts : ReportHandler(r, u, p)
       \/ CheckReportLimit(r) \/ CountReport(r) \/ SendEmail(r)
  \/ TimePasses \/ Crash

Spec == Init /\ [][Next]_vars
-----------------------------------------------------------------------------
\* Whose mail about a post is still to be sent.
Underway(p) == {r \in Requests : pc[r] # "idle" /\ req[r].post = p}

\* The administrators get one mail about a post at most, counting those still to
\* be sent, whoever reports it at the same time and whenever the process stops;
\* and none about a post that is not marked.
OneMailPerPost ==
  \A p \in Posts : mails[p] + Cardinality(Underway(p)) <= IF reported[p] THEN 1 ELSE 0

\* Per user and minute the mails counted go over the limit by fewer than there
\* are requests in flight.
MailsBounded == \A u \in Users : cur[u] < Limit + Cardinality(Requests)
=============================================================================
