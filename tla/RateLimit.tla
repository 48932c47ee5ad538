------------------------------ MODULE RateLimit ------------------------------
(***************************************************************************)
(* The rate limiting at the head of handler.go: every request is checked   *)
(* by the address it comes from, and counted if it is let through.  The    *)
(* server runs a goroutine per connection, so the two calls of one request *)
(* may be apart.                                                           *)
(***************************************************************************)
EXTENDS Limiter, FiniteSets

CONSTANTS Requests, Nil

ASSUME RequestsAssumption == IsFiniteSet(Requests) /\ Nil \notin Keys

VARIABLE checked   \* the address of a request let through and not counted yet, or Nil

vars == <<counters, checked>>

TypeOK == CountersOK /\ checked \in [Requests -> Keys \cup {Nil}]

Init == NoHits /\ tick = 0 /\ checked = [r \in Requests |-> Nil]

\* A slip: a request that is refused is counted as well (up to a bound).
Check_CountsRefused(r, ip) ==
  /\ checked[r] = Nil
  /\ IF IsLimited(ip)
       THEN cur[ip] < 2 * Limit /\ Inc(ip) /\ UNCHANGED checked
       ELSE checked' = [checked EXCEPT ![r] = ip] /\ UNCHANGED counters

\* A slip: the limit is exceeded before it is met.
Check_OffByOne(r, ip) ==
  /\ checked[r] = Nil /\ prev[ip] * (Window - tick) + cur[ip] * Window <= Limit * Window
  /\ checked' = [checked EXCEPT ![r] = ip]
  /\ UNCHANGED counters

\* A request that is limited is refused, which changes nothing.
Check(r, ip) ==
  /\ checked[r] = Nil /\ ~IsLimited(ip)
  /\ checked' = [checked EXCEPT ![r] = ip]
  /\ UNCHANGED counters

\* The hit counts in the window that is current now, and the request is served.
Count(r) ==
  /\ checked[r] # Nil /\ Inc(checked[r])
  /\ checked' = [checked EXCEPT ![r] = Nil]

TimePasses == Tick /\ UNCHANGED checked

Next ==
  \/ \E r \in Requests : Count(r) \/ \E ip \in Keys : Check(r, ip)
  \/ TimePasses

Spec == Init /\ [][Next]_vars

\* Time passes, the goroutines run, and the clients keep trying.
FairSpec ==
  /\ Spec /\ WF_vars(TimePasses)
  /\ \A r \in Requests : WF_vars(Count(r))
  /\ \A ip \in Keys : WF_vars(\E r \in Requests : Check(r, ip))
-----------------------------------------------------------------------------
Pending(k) == {r \in Requests : checked[r] = k}

\* Requests in flight may go over the limit, by no more than there are of them
\* besides the one that is let in last.
OverrunBounded ==
  \A k \in Keys : cur[k] + Cardinality(Pending(k)) < Limit + Cardinality(Requests)

\* An address that keeps trying keeps being served, however many of its requests
\* are refused in between: refusals do not count.
KeepsBeingServed == \A ip \in Keys : []<>(\E r \in Requests : checked[r] = ip)
=============================================================================
