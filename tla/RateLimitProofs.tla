--------------------------- MODULE RateLimitProofs ---------------------------
(***************************************************************************)
(* For any number of addresses and requests, any limit and any window: by  *)
(* how much requests in flight can go over the limit.                      *)
(***************************************************************************)
EXTENDS RateLimit, FiniteSetTheorems, TLAPS

IndInv == TypeOK /\ OverrunBounded

\* The requests in flight are among the requests.
LEMMA PendingFacts ==
  ASSUME NEW S, S \subseteq Requests
  PROVE  /\ IsFiniteSet(S) /\ Cardinality(S) \in Nat
         /\ Cardinality(Requests) \in Nat /\ Cardinality(S) <= Cardinality(Requests)
         /\ S # Requests => Cardinality(S) < Cardinality(Requests)
  <1>1. IsFiniteSet(Requests) /\ IsFiniteSet(S)
    BY RequestsAssumption, FS_Subset
  <1> QED
    BY <1>1, FS_Subset, FS_CardinalityType

LEMMA IndInit == Init => IndInv
  <1> SUFFICES ASSUME Init PROVE IndInv
    OBVIOUS
  <1>1. TypeOK
    BY LimiterAssumption DEF Init, NoHits, TypeOK, CountersOK
  <1>2. ASSUME NEW k \in Keys PROVE cur[k] + Cardinality(Pending(k)) < Limit + Cardinality(Requests)
    <2>1. cur[k] = 0 /\ Pending(k) = {}
      BY RequestsAssumption DEF Init, NoHits, Pending
    <2>2. Cardinality({}) = 0 /\ Cardinality(Requests) \in Nat
      BY RequestsAssumption, FS_EmptySet, FS_CardinalityType
    <2> QED
      BY <2>1, <2>2, LimiterAssumption
  <1> QED
    BY <1>1, <1>2 DEF IndInv, OverrunBounded

\* A request is let through while the address has fewer hits than the limit, and
\* the request itself is not among those in flight.
LEMMA CheckStep ==
  ASSUME IndInv, NEW r \in Requests, NEW ip \in Keys, Check(r, ip)
  PROVE  IndInv'
  <1> USE DEF IndInv, TypeOK, CountersOK
  <1>1. /\ checked[r] = Nil /\ ip # Nil /\ checked' = [checked EXCEPT ![r] = ip]
        /\ prev' = prev /\ cur' = cur /\ tick' = tick
    BY RequestsAssumption DEF Check, counters
  <1>2. TypeOK'
    BY <1>1
  <1>3. cur[ip] < Limit
    <2>1. /\ prev[ip] \in Nat /\ cur[ip] \in Nat /\ Window \in Nat \ {0} /\ tick \in 0 .. Window - 1
          /\ Limit \in Nat
      BY LimiterAssumption
    <2>2. ~(prev[ip] * (Window - tick) + cur[ip] * Window >= Limit * Window)
      BY DEF Check, IsLimited
    <2>3. ASSUME NEW a \in Nat, NEW b \in Nat, NEW c \in Nat, NEW l \in Nat, NEW w \in Nat \ {0},
                 ~(a * b + c * w >= l * w)
          PROVE  c < l
      <3>1. a * b \in Nat
        OBVIOUS
      <3>2. c >= l => c * w >= l * w
        OBVIOUS
      <3> QED
        BY <2>3, <3>1, <3>2
    <2>4. Window - tick \in Nat
      BY <2>1
    <2> QED
      BY <2>1, <2>2, <2>3, <2>4
  <1>4. ASSUME NEW k \in Keys
        PROVE  cur'[k] + Cardinality(Pending(k)') < Limit + Cardinality(Requests)
    <2>1. CASE k = ip
      <3>1. Pending(k)' \subseteq Requests /\ Cardinality(Pending(k)') <= Cardinality(Requests)
            /\ Cardinality(Pending(k)') \in Nat /\ Cardinality(Requests) \in Nat
        BY PendingFacts DEF Pending
      <3> QED
        BY <1>1, <1>3, <2>1, <3>1, LimiterAssumption
    <2>2. CASE k # ip
      <3>1. Pending(k)' = Pending(k)
        BY <1>1, <2>2, RequestsAssumption DEF Pending
      <3> QED
        BY <1>1, <3>1 DEF OverrunBounded
    <2> QED
      BY <2>1, <2>2
  <1> QED
    BY <1>2, <1>4 DEF OverrunBounded

\* A hit that is counted is no longer in flight.
LEMMA CountStep ==
  ASSUME IndInv, NEW r \in Requests, Count(r)
  PROVE  IndInv'
  <1> USE DEF IndInv, TypeOK, CountersOK
  <1> DEFINE ip == checked[r]
  <1>1. /\ ip \in Keys /\ ip # Nil /\ checked' = [checked EXCEPT ![r] = Nil]
        /\ cur' = [cur EXCEPT ![ip] = @ + 1] /\ prev' = prev /\ tick' = tick
    BY DEF Count, Inc
  <1>2. TypeOK'
    BY <1>1
  <1>3. ASSUME NEW k \in Keys
        PROVE  cur'[k] + Cardinality(Pending(k)') < Limit + Cardinality(Requests)
    <2>1. CASE k = ip
      <3>1. Pending(k)' = Pending(k) \ {r} /\ r \in Pending(k) /\ IsFiniteSet(Pending(k))
            /\ Cardinality(Pending(k)) \in Nat
        BY <1>1, <2>1, RequestsAssumption, PendingFacts DEF Pending
      <3>2. Cardinality(Pending(k)') = Cardinality(Pending(k)) - 1
        BY <3>1, FS_RemoveElement
      <3>3. cur'[k] = cur[k] + 1 /\ cur[k] \in Nat
        BY <1>1, <2>1
      <3> QED
        BY <3>1, <3>2, <3>3 DEF OverrunBounded
    <2>2. CASE k # ip
      <3>1. Pending(k)' = Pending(k) /\ cur'[k] = cur[k]
        BY <1>1, <2>2, RequestsAssumption DEF Pending
      <3> QED
        BY <3>1 DEF OverrunBounded
    <2> QED
      BY <2>1, <2>2
  <1> QED
    BY <1>2, <1>3 DEF OverrunBounded

\* A new window starts without hits; those in flight will count in it.
LEMMA TickStep ==
  ASSUME IndInv, TimePasses
  PROVE  IndInv'
  <1> USE DEF IndInv, TypeOK, CountersOK
  <1>1. checked' = checked
    BY DEF TimePasses
  <1>2. CASE tick < Window - 1 /\ tick' = tick + 1 /\ UNCHANGED <<prev, cur>>
    BY <1>1, <1>2, LimiterAssumption DEF OverrunBounded, Pending
  <1>3. CASE tick = Window - 1 /\ tick' = 0 /\ prev' = cur /\ cur' = [k \in Keys |-> 0]
    <2>1. TypeOK'
      BY <1>1, <1>3, LimiterAssumption
    <2>2. ASSUME NEW k \in Keys PROVE cur'[k] + Cardinality(Pending(k)') < Limit + Cardinality(Requests)
      <3>1. Cardinality(Pending(k)') <= Cardinality(Requests)
            /\ Cardinality(Pending(k)') \in Nat /\ Cardinality(Requests) \in Nat
        BY PendingFacts DEF Pending
      <3> QED
        BY <1>3, <3>1, LimiterAssumption
    <2> QED
      BY <2>1, <2>2 DEF OverrunBounded
  <1> QED
    BY <1>2, <1>3 DEF TimePasses, Tick

LEMMA IndStep == IndInv /\ [Next]_vars => IndInv'
  <1> SUFFICES ASSUME IndInv, [Next]_vars PROVE IndInv'
    OBVIOUS
  <1>1. CASE UNCHANGED vars
    BY <1>1 DEF IndInv, TypeOK, CountersOK, OverrunBounded, Pending, vars, counters
  <1> QED
    BY <1>1, CheckStep, CountStep, TickStep DEF Next

\* The counters are numbers, each request is checked for an address or for none.
THEOREM TypeCorrect == Spec => []TypeOK
  <1>1. IndInv => TypeOK
    BY DEF IndInv
  <1> QED
    BY <1>1, IndInit, IndStep, PTL DEF Spec

\* Addresses go over their limit by fewer hits than there are requests in flight.
THEOREM Overrun == Spec => []OverrunBounded
  <1>1. IndInv => OverrunBounded
    BY DEF IndInv
  <1> QED
    BY <1>1, IndInit, IndStep, PTL DEF Spec
=============================================================================
