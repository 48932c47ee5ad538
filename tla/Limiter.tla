------------------------------- MODULE Limiter -------------------------------
(***************************************************************************)
(* The vendored coinpaprika/ratelimiter as handler.go and email.go use it: *)
(* hits per key in the current and in the previous window of fixed length, *)
(* the previous ones weighted by how much of their window a sliding window *)
(* would still see.  Check and Inc are each atomic (the store has a lock); *)
(* a caller makes them one after the other.  Time is in ticks.  Counters   *)
(* that the store flushes ten minutes after their last hit are not         *)
(* followed: no window that matters here is so long.                       *)
(***************************************************************************)
EXTENDS Naturals

CONSTANTS
  Keys,
  Limit,    \* hits allowed in a window
  Window    \* ticks in a window

ASSUME LimiterAssumption == Limit \in Nat \ {0} /\ Window \in Nat \ {0}

VARIABLES
  prev,   \* hits of each key in the previous window
  cur,    \* and in the current one
  tick    \* ticks since the current window began

counters == <<prev, cur, tick>>

CountersOK == prev \in [Keys -> Nat] /\ cur \in [Keys -> Nat] /\ tick \in 0 .. Window - 1

NoHits == prev = [k \in Keys |-> 0] /\ cur = [k \in Keys |-> 0]

\* Check: the weighted rate, times Window to stay in the integers.
IsLimited(k) == prev[k] * (Window - tick) + cur[k] * Window >= Limit * Window

Inc(k) == cur' = [cur EXCEPT ![k] = @ + 1] /\ UNCHANGED <<prev, tick>>

\* A slip: a window is one tick longer than its length.
Tick_LateShift ==
  \/ tick <= Window - 1 /\ tick' = tick + 1 /\ UNCHANGED <<prev, cur>>
  \/ tick = Window /\ tick' = 0 /\ prev' = cur /\ cur' = [k \in Keys |-> 0]

\* Truncate(windowSize) of the time moves on to the next window.
Tick ==
  \/ tick < Window - 1 /\ tick' = tick + 1 /\ UNCHANGED <<prev, cur>>
  \/ tick = Window - 1 /\ tick' = 0 /\ prev' = cur /\ cur' = [k \in Keys |-> 0]
=============================================================================
