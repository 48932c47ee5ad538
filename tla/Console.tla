------------------------------ MODULE Console ------------------------------
(***************************************************************************)
(* The moderator console and its log: console.go, and IsUserCurrentlyMuted *)
(* of certfp.go, which reads what mute writes.                             *)
(*                                                                         *)
(* A command's effect is one write transaction.  Its log entry is another, *)
(* made when ConsoleCommand returns, whatever the command came to.  The    *)
(* key of an entry is the time as a text, and reading the log walks the    *)
(* bucket from its last key backwards.                                     *)
(*                                                                         *)
(* A clock reading is a number of ticks, TickPerSecond to the second; they *)
(* stand for the fraction that RFC3339Nano writes.  A text is the sequence *)
(* of its bytes, except for what stands before the fraction, whose order   *)
(* as a text is its order as a time: that is one number.                   *)
(***************************************************************************)
EXTENDS Integers, Sequences, FiniteSets

CONSTANTS
  Threads, Users,   \* what the commands are about
  Requests,         \* goroutines with a command: ConsoleHandler, and ScanlnLoop
  Days,             \* numbers of days given to mute
  DayTicks,         \* time.Hour * 24
  DurationBits,     \* width of time.Duration (64 in the code)
  Base, Digits,     \* of the fraction of a second (10 and 9 in the code)
  ChangeAt,         \* in a zone with summer time, when that ends
  MayFail,          \* a transaction may return an error
  MaxEntries,       \* bound: commands logged and under way
  MaxNow,           \* bound: the clock
  Permanent, Nil

TickPerSecond == Base ^ Digits
Targets == Threads \cup Users

ASSUME ConsoleAssumption ==
  /\ Threads \cap Users = {} /\ Nil \notin Targets /\ Permanent # Nil
  /\ Permanent \notin Int /\ Nil \notin Int
  /\ Days \subseteq Int /\ DayTicks \in Nat \ {0} /\ DurationBits \in Nat \ {0}
  /\ Base \in 2 .. 10 /\ Digits \in Nat \ {0} /\ ChangeAt \in Nat
  /\ MayFail \in BOOLEAN /\ MaxEntries \in Nat /\ MaxNow \in Nat

\* What ^ gives, of which the provers know nothing; it says nothing of the constants.
ASSUME PowersAssumption ==
  /\ Base ^ 0 = 1 /\ \A n \in 0 .. Digits - 1 : Base ^ (n + 1) = Base * Base ^ n
  /\ 2 ^ (DurationBits - 1) \in Nat \ {0}

VARIABLES
  locked,   \* bucket allthreads, key locked
  muted,    \* bucket users, key muted: Nil, Permanent, or a second
  log,      \* bucket console
  pc, cmd,  \* where each request's handler is, and its command
  now,      \* the clock
  zone,     \* time.Local: "utc", or "summer" with a change of offset at ChangeAt
  told,     \* history: the last effect on the target is, or will be, the last entry
  asked     \* history: when each user was last muted for days, and for how many

vars == <<locked, muted, log, pc, cmd, now, zone, told, asked>>

Command ==
  [kind: {"lock", "unlock"}, target: Threads, days: {0}]
    \cup [kind: {"permanent", "unmute"}, target: Users, days: {0}]
    \cup [kind: {"mute"}, target: Users, days: Days]
    \cup [kind: {"other"}, target: {Nil}, days: {0}]   \* read, help, log, unknown, none
NoCommand == [kind |-> "other", target |-> Nil, days |-> 0]
NotAsked  == [at |-> 0, days |-> 0]

TypeOK ==
  /\ locked \in [Threads -> BOOLEAN]
  /\ \A u \in Users : muted[u] \in {Nil, Permanent} \/ (muted[u] \in Int /\ asked[u].days > 0)
  /\ \A k \in DOMAIN log : log[k].cmd \in Command /\ log[k].at \in 0 .. now
  /\ pc \in [Requests -> {"idle", "effect", "log"}] /\ cmd \in [Requests -> Command]
  /\ now \in 0 .. MaxNow /\ zone \in {"utc", "summer"}
  /\ told \in [Targets -> BOOLEAN]
  /\ asked \in [Users -> [at: 0 .. MaxNow, days: Days \cup {0}]]
-----------------------------------------------------------------------------
(***************************************************************************)
(* Times as texts.                                                         *)
(***************************************************************************)
Offset(t) == IF zone = "utc" THEN 0 ELSE IF t < ChangeAt THEN 2 ELSE 1
Wall(t) == t + Offset(t) * TickPerSecond
Second(t) == Wall(t) \div TickPerSecond

\* Bytes of ASCII.
Dot  == 46
Plus == 43
Zed  == 90
Digit(d) == 48 + d

\* The digits of the fraction, without the zeros at its end.
FractionDigits(t) ==
  LET f == Wall(t) % TickPerSecond
      d == [i \in 1 .. Digits |-> (f \div Base ^ (Digits - i)) % Base]
      last == CHOOSE n \in 0 .. Digits : /\ n > 0 => d[n] # 0
                                         /\ \A i \in n + 1 .. Digits : d[i] = 0
  IN  [i \in 1 .. last |-> Digit(d[i])]

Fraction(t) == IF FractionDigits(t) = <<>> THEN <<>> ELSE <<Dot>> \o FractionDigits(t)

\* "Z" where the offset is zero, or the offset.
Zone(t) == IF Offset(t) = 0 THEN <<Zed>> ELSE <<Plus, Digit(Offset(t))>>

\* A slip: the layout without the fraction.
RFC3339Nano_Seconds(t) == <<Second(t)>> \o Zone(t)

RFC3339Nano(t) == <<Second(t)>> \o Fraction(t) \o Zone(t)

\* The order of keys in a bucket: bytes.Compare.
Before(a, b) ==
  \E i \in 1 .. Len(b) :
    /\ \A j \in 1 .. i - 1 : j \in DOMAIN a /\ a[j] = b[j]
    /\ i \in DOMAIN a => a[i] < b[i]

\* An integer of DurationBits bits, as a product that is too large becomes one.
Wrap(x) == LET half == 2 ^ (DurationBits - 1) IN ((x + half) % (2 * half)) - half

\* time.Now().Add(time.Hour * 24 * time.Duration(days)) in RFC3339: whole seconds.
WhenToUnban(days) == (now + Wrap(DayTicks * days)) \div TickPerSecond

\* A slip: still muted when nothing remains.
IsUserCurrentlyMuted_AtEnd(value) ==
  \/ value = Permanent
  \/ value \in Int /\ value * TickPerSecond >= now

IsUserCurrentlyMuted(value) ==
  \/ value = Permanent
  \/ value \in Int /\ value * TickPerSecond > now
-----------------------------------------------------------------------------
(***************************************************************************)
(* The handlers.                                                           *)
(***************************************************************************)
Init ==
  /\ locked = [t \in Threads |-> FALSE] /\ muted = [u \in Users |-> Nil] /\ log = <<>>
  /\ pc = [r \in Requests |-> "idle"] /\ cmd = [r \in Requests |-> NoCommand]
  /\ now = 0 /\ zone \in {"utc", "summer"}
  /\ told = [x \in Targets |-> FALSE] /\ asked = [u \in Users |-> NotAsked]

Underway == {r \in Requests : pc[r] # "idle"}

\* A command of someone ConsoleHandler has found to be at least Mod, or of the
\* terminal; others are turned away with no effect and no entry.
ConsoleCommand(r, c) ==
  /\ pc[r] = "idle" /\ Cardinality(DOMAIN log) + Cardinality(Underway) < MaxEntries
  /\ pc' = [pc EXCEPT ![r] = "effect"] /\ cmd' = [cmd EXCEPT ![r] = c]
  /\ UNCHANGED <<locked, muted, log, now, zone, told, asked>>

\* Commands whose effect has been tried and whose entry is not made yet.
Unlogged(x) == {r \in Requests : pc[r] = "log" /\ cmd[r].target = x}

\* A slip: zero days are accepted.
Accepted_Zero(c) == c.kind = "mute" => c.days >= 0

Accepted(c) == c.kind = "mute" => c.days > 0

\* A slip: the statuses of lock and unlock are mixed up.
Effect_Swapped(c) ==
  /\ locked' = IF c.target \in Threads THEN [locked EXCEPT ![c.target] = (c.kind = "unlock")] ELSE locked
  /\ muted' = IF c.target \in Users
                THEN [muted EXCEPT ![c.target] = CASE c.kind = "mute" -> WhenToUnban(c.days)
                                                   [] c.kind = "permanent" -> Permanent
                                                   [] c.kind = "unmute" -> Nil]
                ELSE muted

\* MuteOrUnmuteThread, and the transactions of mute and unmute.
Effect(c) ==
  /\ locked' = IF c.target \in Threads THEN [locked EXCEPT ![c.target] = (c.kind = "lock")] ELSE locked
  /\ muted' = IF c.target \in Users
                THEN [muted EXCEPT ![c.target] = CASE c.kind = "mute" -> WhenToUnban(c.days)
                                                   [] c.kind = "permanent" -> Permanent
                                                   [] c.kind = "unmute" -> Nil]
                ELSE muted

ToLog(r) == pc[r] = "effect" /\ pc' = [pc EXCEPT ![r] = "log"] /\ UNCHANGED <<log, cmd, now, zone>>

CommandDone(r) ==
  LET c == cmd[r] IN
  /\ ToLog(r) /\ Accepted(c) /\ Effect(c)
  /\ told' = [x \in Targets |-> IF x = c.target THEN Unlogged(x) = {} ELSE told[x]]
  /\ asked' = [u \in Users |-> IF u = c.target THEN [at |-> now, days |-> c.days] ELSE asked[u]]

\* A number of days that is refused, a thread or user that is not there, or an
\* error of the transaction; it is logged all the same.
CommandRefused(r) ==
  /\ ToLog(r) /\ (MayFail \/ ~Accepted(cmd[r]))
  /\ told' = [x \in Targets |-> told[x] /\ x # cmd[r].target]
  /\ UNCHANGED <<locked, muted, asked>>

Put(f, k, v) == [x \in DOMAIN f \cup {k} |-> IF x = k THEN v ELSE f[x]]

\* Two commands of one instant have one key, and the second entry takes the place
\* of the first.
SameInstant(x) == \E k \in DOMAIN log : log[k].at = now /\ log[k].cmd.target = x

LogConsoleCommand(r) ==
  /\ pc[r] = "log" /\ pc' = [pc EXCEPT ![r] = "idle"] /\ cmd' = [cmd EXCEPT ![r] = NoCommand]
  /\ log' = Put(log, RFC3339Nano(now), [cmd |-> cmd[r], at |-> now])
  /\ told' = [x \in Targets |-> told[x] /\ (x = cmd[r].target \/ ~SameInstant(x))]
  /\ UNCHANGED <<locked, muted, now, zone, asked>>

\* The error is printed, and the command has its effect without an entry.
LogFails(r) ==
  /\ MayFail /\ pc[r] = "log" /\ pc' = [pc EXCEPT ![r] = "idle"] /\ cmd' = [cmd EXCEPT ![r] = NoCommand]
  /\ told' = [x \in Targets |-> told[x] /\ x # cmd[r].target]
  /\ UNCHANGED <<locked, muted, log, now, zone, asked>>

\* The process stops, and starts again.
Crash ==
  /\ pc' = [r \in Requests |-> "idle"] /\ cmd' = [r \in Requests |-> NoCommand]
  /\ told' = [x \in Targets |-> told[x] /\ Unlogged(x) = {}]
  /\ UNCHANGED <<locked, muted, log, now, zone, asked>>

TimePasses == now < MaxNow /\ now' = now + 1 /\ UNCHANGED <<locked, muted, log, pc, cmd, zone, told, asked>>

Next ==
  \/ \E r \in Requests : \/ \E c \in Command : ConsoleCommand(r, c)
                         \/ CommandDone(r) \/ CommandRefused(r) \/ LogConsoleCommand(r) \/ LogFails(r)
  \/ Crash \/ TimePasses

Spec == Init /\ [][Next]_vars
-----------------------------------------------------------------------------
(***************************************************************************)
(* Reading the log, and properties.                                        *)
(***************************************************************************)
\* A slip: the cursor goes from the first key on.
Read_Forward(n) ==
  LET ks == DOMAIN log
      order == CHOOSE s \in [1 .. Cardinality(ks) -> ks] : \A i, j \in DOMAIN s : i < j => Before(s[i], s[j])
  IN  [i \in 1 .. IF n < Cardinality(ks) THEN n ELSE Cardinality(ks) |-> log[order[i]]]

\* The command read n: from the last key backwards, n entries or as many as there are.
Read(n) ==
  LET ks == DOMAIN log
      order == CHOOSE s \in [1 .. Cardinality(ks) -> ks] : \A i, j \in DOMAIN s : i < j => Before(s[j], s[i])
  IN  [i \in 1 .. IF n < Cardinality(ks) THEN n ELSE Cardinality(ks) |-> log[order[i]]]

\* Where the texts can be out of order: within a second where the zone is written
\* "Z", which is greater than the dot of a fraction and than its digits, and
\* across the end of summer time, when the wall clock is put back.
Unclear(a, b) == (zone = "utc" /\ Second(a) = Second(b)) \/ Offset(a) # Offset(b)

\* Elsewhere the log is read from the newest entry to the oldest, the trimmed
\* fractions of one second included.
ReadInOrder ==
  LET es == Read(MaxEntries) IN
  \A i, j \in DOMAIN es : i < j => es[i].at > es[j].at \/ Unclear(es[i].at, es[j].at)

\* What the target is like after the command.
Shows(c) ==
  CASE c.kind = "lock" -> locked[c.target]
    [] c.kind = "unlock" -> ~locked[c.target]
    [] c.kind = "permanent" -> muted[c.target] = Permanent
    [] c.kind = "unmute" -> muted[c.target] = Nil
    [] c.kind = "mute" -> muted[c.target] \in Int

\* Who reads the log finds first, about a thread or a user, the command that made
\* it what it is.  This leaves out exactly: a command that failed and is logged,
\* an entry that failed or that a crash cut off, two commands on one target at a
\* time, two of one instant, and times whose texts are out of order.
LogExplainsState ==
  LET es == Read(MaxEntries) IN
  \A x \in Targets :
    LET about == {i \in DOMAIN es : es[i].cmd.target = x} IN
    (told[x] /\ Unlogged(x) = {}) =>
      \E i \in about : /\ \A j \in about : i <= j
                       /\ \/ Shows(es[i].cmd)
                          \/ \E j \in about \ {i} : Unclear(es[i].at, es[j].at)

\* A mute for a number of days that a duration can hold is in force for that long,
\* less the second that its text cuts off, and not longer; whatever the zone.
MuteLastsAsAsked ==
  \A u \in Users :
    LET length == DayTicks * asked[u].days
        past == now - asked[u].at
    IN  (asked[u].days > 0 /\ length < 2 ^ (DurationBits - 1)) =>
          /\ past <= length - TickPerSecond => IsUserCurrentlyMuted(muted[u])
          /\ past >= length => ~IsUserCurrentlyMuted(muted[u])
=============================================================================
