----------------------------- MODULE ConsoleProofs -----------------------------
(***************************************************************************)
(* Proofs about Console, for every set of users and requests, every width  *)
(* of a duration and every resolution of the clock.                        *)
(***************************************************************************)
EXTENDS Console, FiniteSetTheorems, WellFoundedInduction, TLAPS

\* The types, but for muted.
Typed ==
  /\ locked \in [Threads -> BOOLEAN] /\ DOMAIN muted = Users
  /\ \A k \in DOMAIN log : log[k].cmd \in Command /\ log[k].at \in 0 .. now
  /\ pc \in [Requests -> {"idle", "effect", "log"}] /\ cmd \in [Requests -> Command]
  /\ now \in 0 .. MaxNow /\ zone \in {"utc", "summer"}
  /\ told \in [Targets -> BOOLEAN]
  /\ asked \in [Users -> [at: 0 .. MaxNow, days: Days \cup {0}]]

\* What muted holds comes from the last command on the user: the second in which a
\* mute for days ends, counted from when the command was carried out.
MutedAsAsked(u) ==
  /\ asked[u].at <= now /\ asked[u].days >= 0
  /\ asked[u].days = 0 => muted[u] \in {Nil, Permanent}
  /\ asked[u].days > 0 => muted[u] = (asked[u].at + Wrap(DayTicks * asked[u].days)) \div TickPerSecond

IndInv == Typed /\ \A u \in Users : MutedAsAsked(u)
-----------------------------------------------------------------------------
(***************************************************************************)
(* Arithmetic.                                                             *)
(***************************************************************************)
\* What a division leaves is less than the divisor.
LEMMA Division ==
  ASSUME NEW a \in Int, NEW m \in Nat \ {0}
  PROVE  /\ a \div m \in Int /\ a % m \in 0 .. m - 1
         /\ m * (a \div m) <= a /\ a < m * (a \div m) + m
  OBVIOUS

\* A set of naturals has a smallest one.
LEMMA Smallest ==
  ASSUME NEW S \in SUBSET Nat, S # {}
  PROVE  \E m \in S : \A k \in S : m <= k
  <1>1. PICK m \in S : \A k \in S : ~ (<<k, m>> \in OpToRel(<, Nat))
    BY NatLessThanWellFounded, WFMin
  <1>2. ASSUME NEW k \in S PROVE m <= k
    <2>1. ~ (<<k, m>> \in OpToRel(<, Nat))
      BY <1>1
    <2>2. OpToRel(<, Nat) = {x \in Nat \X Nat : x[1] < x[2]}
      BY DEF OpToRel
    <2>3. ~ (k < m)
      BY <2>1, <2>2
    <2> QED
      BY <2>3
  <1> QED
    BY <1>2

\* Powers of the base are positive: were one not, take the smallest exponent.
LEMMA Powers == \A n \in 0 .. Digits : Base ^ n \in Nat \ {0}
  <1> DEFINE Not == {n \in 0 .. Digits : Base ^ n \notin Nat \ {0}}
  <1>1. Digits \in Nat \ {0} /\ Base \in Nat \ {0}
    BY ConsoleAssumption
  <1>2. ASSUME Not # {} PROVE FALSE
    <2>1. Not \in SUBSET Nat
      BY <1>1
    <2>2. PICK n \in Not : \A m \in Not : n <= m
      <3> HIDE DEF Not
      <3> QED
        BY <1>2, <2>1, Smallest
    <2>3. n \in 0 .. Digits /\ n # 0
      BY PowersAssumption
    <2>4. n - 1 \in 0 .. Digits - 1 /\ n - 1 \in 0 .. Digits /\ (n - 1) + 1 = n /\ ~ (n <= n - 1)
      BY <1>1, <2>3
    <2>5. Base ^ (n - 1) \in Nat \ {0}
      BY <2>2, <2>4
    <2>6. Base ^ n = Base * Base ^ (n - 1)
      BY <2>4, PowersAssumption
    <2> DEFINE p == Base ^ (n - 1)
    <2>7. Base * p \in Nat \ {0}
      <3> HIDE DEF p
      <3>1. p \in Nat \ {0}
        BY <2>5 DEF p
      <3> QED
        BY <1>1, <3>1
    <2> QED
      BY <2>6, <2>7
  <1> QED
    BY <1>2

\* A second has a number of ticks.
LEMMA Ticks == TickPerSecond \in Nat \ {0}
  BY Powers, ConsoleAssumption DEF TickPerSecond

\* The first i digits of a fraction, as a number, and the digit at position i.
Quot(f, i) == f \div Base ^ (Digits - i)
DigitOf(f, i) == Quot(f, i) % Base

\* A quotient of a quotient is one quotient.
LEMMA DivideTwice ==
  ASSUME NEW x \in Nat, NEW m \in Nat \ {0}, NEW b \in Nat \ {0}
  PROVE  (x \div m) \div b = x \div (b * m)
  OBVIOUS

\* What remains of a division.
LEMMA Remainder ==
  ASSUME NEW x \in Nat, NEW b \in Nat \ {0}
  PROVE  x % b \in 0 .. b - 1 /\ x = b * (x \div b) + (x % b)
  OBVIOUS

\* Each digit continues the number that those before it make.
LEMMA Quotients ==
  ASSUME NEW f \in 0 .. TickPerSecond - 1
  PROVE  /\ Quot(f, 0) = 0 /\ Quot(f, Digits) = f
         /\ \A i \in 0 .. Digits : Quot(f, i) \in Nat
         /\ \A i \in 1 .. Digits : /\ DigitOf(f, i) \in 0 .. Base - 1
                                   /\ Quot(f, i) = Base * Quot(f, i - 1) + DigitOf(f, i)
  <1>1. Digits \in Nat \ {0} /\ Base \in Nat \ {0} /\ f \in Nat /\ TickPerSecond \in Nat \ {0} /\ f < TickPerSecond
    BY ConsoleAssumption, Ticks
  <1>2. Digits - 0 = Digits /\ Digits - Digits = 0
    BY <1>1
  <1>3. Quot(f, 0) = 0
    <2>1. Quot(f, 0) = f \div TickPerSecond
      BY <1>2 DEF Quot, TickPerSecond
    <2> QED
      BY <1>1, <2>1
  <1>4. Quot(f, Digits) = f
    <2>1. Quot(f, Digits) = f \div 1
      BY <1>2, PowersAssumption DEF Quot
    <2> QED
      BY <1>1, <2>1
  <1>5. ASSUME NEW i \in 0 .. Digits PROVE Quot(f, i) \in Nat
    <2>1. Digits - i \in 0 .. Digits
      BY <1>1
    <2> DEFINE m == Base ^ (Digits - i)
    <2>2. m \in Nat \ {0}
      BY <2>1, Powers
    <2> HIDE DEF m
    <2>3. f \div m \in Nat
      BY <1>1, <2>2
    <2> QED
      BY <2>3 DEF Quot, m
  <1>6. ASSUME NEW i \in 1 .. Digits
        PROVE  DigitOf(f, i) \in 0 .. Base - 1 /\ Quot(f, i) = Base * Quot(f, i - 1) + DigitOf(f, i)
    <2>1. /\ Digits - i \in 0 .. Digits - 1 /\ Digits - i \in 0 .. Digits
          /\ (Digits - i) + 1 = Digits - (i - 1) /\ i \in 0 .. Digits
      BY <1>1
    <2> DEFINE m == Base ^ (Digits - i)
               q == Quot(f, i)
    <2>2. m \in Nat \ {0} /\ q \in Nat
      BY <1>5, <2>1, Powers
    <2>3. Quot(f, i - 1) = f \div (Base * m)
      BY <2>1, PowersAssumption DEF Quot
    <2>4. q = f \div m
      BY DEF Quot
    <2> HIDE DEF m, q
    <2>5. Quot(f, i - 1) = q \div Base
      <3>1. (f \div m) \div Base = f \div (Base * m)
        BY <1>1, <2>2, DivideTwice
      <3> QED
        BY <2>3, <2>4, <3>1
    <2>6. q % Base \in 0 .. Base - 1 /\ q = Base * (q \div Base) + (q % Base)
      BY <1>1, <2>2, Remainder
    <2> QED
      BY <2>5, <2>6 DEF DigitOf, q
  <1> QED
    BY <1>3, <1>4, <1>5, <1>6

\* Of two fractions the less has the less digit where they first differ: there the
\* numbers that the digits make begin to differ.
LEMMA FirstDifference ==
  ASSUME NEW f \in 0 .. TickPerSecond - 1, NEW g \in 0 .. TickPerSecond - 1, f < g
  PROVE  \E i \in 1 .. Digits : /\ DigitOf(f, i) < DigitOf(g, i)
                                /\ \A j \in 1 .. i - 1 : DigitOf(f, j) = DigitOf(g, j)
  <1> DEFINE D == {i \in 0 .. Digits : Quot(f, i) # Quot(g, i)}
  <1>1. Digits \in Nat \ {0} /\ Base \in Nat \ {0} /\ f \in Nat /\ g \in Nat
    BY ConsoleAssumption, Ticks
  <1>2. D \in SUBSET Nat /\ D # {}
    <2>1. Digits \in 0 .. Digits /\ Quot(f, Digits) # Quot(g, Digits)
      BY <1>1, Quotients
    <2> QED
      BY <1>1, <2>1
  <1>3. PICK i \in D : \A j \in D : i <= j
    <2> HIDE DEF D
    <2> QED
      BY <1>2, Smallest
  <1>4. i \in 0 .. Digits /\ Quot(f, i) # Quot(g, i) /\ i # 0
    BY Quotients
  <1>5. i \in 1 .. Digits /\ \A j \in 0 .. i - 1 : j \in 0 .. Digits /\ ~ (i <= j)
    BY <1>1, <1>4
  <1>6. \A j \in 0 .. i - 1 : Quot(f, j) = Quot(g, j)
    BY <1>3, <1>5
  <1>7. ASSUME NEW j \in 1 .. i - 1 PROVE DigitOf(f, j) = DigitOf(g, j)
    <2>1. j \in 0 .. i - 1
      BY <1>5
    <2> QED
      BY <1>6, <2>1 DEF DigitOf
  <1>8. Quot(f, i) <= Quot(g, i)
    <2>1. Digits - i \in 0 .. Digits
      BY <1>1, <1>5
    <2> DEFINE m == Base ^ (Digits - i)
    <2>2. m \in Nat \ {0}
      BY <2>1, Powers
    <2> HIDE DEF m
    <2>3. f \div m <= g \div m
      BY <1>1, <2>2
    <2> QED
      BY <2>3 DEF Quot, m
  <1>9. DigitOf(f, i) < DigitOf(g, i)
    <2> DEFINE p == Base * Quot(f, i - 1)
    <2>1. i - 1 \in 0 .. i - 1 /\ i - 1 \in 0 .. Digits
      BY <1>1, <1>5
    <2>2. Quot(f, i - 1) = Quot(g, i - 1)
      BY <1>6, <2>1
    <2>3. p \in Nat
      BY <1>1, <2>1, Quotients
    <2>4. /\ Quot(f, i) = p + DigitOf(f, i) /\ Quot(g, i) = p + DigitOf(g, i)
          /\ DigitOf(f, i) \in 0 .. Base - 1 /\ DigitOf(g, i) \in 0 .. Base - 1
      BY <1>5, <2>2, Quotients
    <2> HIDE DEF p
    <2> QED
      BY <1>1, <1>4, <1>8, <2>3, <2>4
  <1> QED
    BY <1>5, <1>7, <1>9

\* A positive product of a day's length and a number of days.
LEMMA Lengths ==
  ASSUME NEW d \in Int
  PROVE  DayTicks * d \in Int /\ (d > 0 => DayTicks * d > 0)
  BY ConsoleAssumption

\* A duration that fits is not changed.
LEMMA Wrapped ==
  ASSUME NEW x \in Int
  PROVE  /\ Wrap(x) \in Int
         /\ x >= 0 /\ x < 2 ^ (DurationBits - 1) => Wrap(x) = x
  <1> DEFINE half == 2 ^ (DurationBits - 1)
  <1>1. half \in Nat \ {0} /\ Wrap(x) = ((x + half) % (2 * half)) - half
    BY PowersAssumption DEF Wrap
  <1> HIDE DEF half
  <1>2. (x + half) % (2 * half) \in Int
    BY <1>1, Division
  <1>3. ASSUME x >= 0, x < half PROVE (x + half) % (2 * half) = x + half
    BY <1>1, <1>3
  <1>4. Wrap(x) \in Int
    BY <1>1, <1>2
  <1>5. x >= 0 /\ x < half => Wrap(x) = x
    BY <1>1, <1>3
  <1> QED
    BY <1>4, <1>5 DEF half
-----------------------------------------------------------------------------
(***************************************************************************)
(* Times as texts.                                                         *)
(***************************************************************************)
\* What a clock reading shows on the wall: whole seconds and a fraction.
Fract(t) == Wall(t) % TickPerSecond

\* A clock reading is a number of seconds and a fraction, with the offset of the zone.
LEMMA Walls ==
  ASSUME Typed, NEW t \in Nat
  PROVE  /\ Offset(t) \in 0 .. 2 /\ (Offset(t) = 0 <=> zone = "utc")
         /\ Wall(t) \in Nat /\ Second(t) \in Nat /\ Fract(t) \in 0 .. TickPerSecond - 1
         /\ Wall(t) = TickPerSecond * Second(t) + Fract(t)
         /\ Wall(t) = t + Offset(t) * TickPerSecond
  <1>1. Offset(t) \in 0 .. 2 /\ (Offset(t) = 0 <=> zone = "utc")
    BY DEF Typed, Offset
  <1> DEFINE m == TickPerSecond
             o == Offset(t)
             w == Wall(t)
  <1>2. m \in Nat \ {0} /\ o \in 0 .. 2 /\ w = t + o * m
    BY <1>1, Ticks DEF Wall
  <1>3. Second(t) = w \div m /\ Fract(t) = w % m
    BY DEF Second, Fract
  <1> HIDE DEF m, o, w
  <1>4. w \in Nat
    BY <1>2
  <1>5. w \div m \in Nat
    BY <1>2, <1>4
  <1>6. w % m \in 0 .. m - 1 /\ w = m * (w \div m) + (w % m)
    BY <1>2, <1>4, Remainder
  <1> QED
    BY <1>1, <1>2, <1>3, <1>4, <1>5, <1>6 DEF m, o, w

\* n is the number of digits left when the zeros at the end are cut off.
Trimmed(f, n) ==
  /\ n \in 0 .. Digits /\ (n > 0 => DigitOf(f, n) # 0)
  /\ \A i \in n + 1 .. Digits : DigitOf(f, i) = 0

\* The digits of the text are those of the fraction, up to the last that is not zero.
LEMMA TrimmedFraction ==
  ASSUME NEW t
  PROVE  \E n : Trimmed(Fract(t), n) /\ FractionDigits(t) = [i \in 1 .. n |-> Digit(DigitOf(Fract(t), i))]
  <1> DEFINE f == Fract(t)
             d == [i \in 1 .. Digits |-> DigitOf(f, i)]
             last == CHOOSE n \in 0 .. Digits : /\ n > 0 => d[n] # 0
                                                /\ \A i \in n + 1 .. Digits : d[i] = 0
             C == {n \in 0 .. Digits : \A i \in n + 1 .. Digits : d[i] = 0}
  <1>1. FractionDigits(t) = [i \in 1 .. last |-> Digit(d[i])]
    BY DEF FractionDigits, Fract, DigitOf, Quot
  <1>2. Digits \in Nat
    BY ConsoleAssumption
  <1>3. \A i \in 1 .. Digits : d[i] = DigitOf(f, i)
    OBVIOUS
  <1> HIDE DEF d, f
  <1>4. \E n \in 0 .. Digits : /\ n > 0 => d[n] # 0
                               /\ \A i \in n + 1 .. Digits : d[i] = 0
    <2>1. C \in SUBSET Nat /\ C # {}
      <3>1. Digits \in 0 .. Digits /\ \A i \in Digits + 1 .. Digits : d[i] = 0
        BY <1>2
      <3>2. Digits \in C
        BY <3>1
      <3>3. C \in SUBSET Nat
        BY <1>2
      <3> QED
        BY <3>2, <3>3
    <2>2. PICK n \in C : \A k \in C : n <= k
      <3> HIDE DEF C
      <3> QED
        BY <2>1, Smallest
    <2>3. ASSUME n > 0, d[n] = 0 PROVE FALSE
      <3>1. n - 1 \in 0 .. Digits /\ ~ (n <= n - 1)
        BY <1>2, <2>3
      <3>2. \A i \in (n - 1) + 1 .. Digits : i = n \/ i \in n + 1 .. Digits
        BY <1>2
      <3>3. n - 1 \in C
        BY <2>3, <3>1, <3>2
      <3> QED
        BY <2>2, <3>1, <3>3
    <2> QED
      BY <2>3
  <1>5. /\ last \in 0 .. Digits /\ (last > 0 => d[last] # 0)
        /\ \A i \in last + 1 .. Digits : d[i] = 0
    BY <1>4
  <1> HIDE DEF last
  <1>6. /\ \A i \in 1 .. last : i \in 1 .. Digits
        /\ \A i \in last + 1 .. Digits : i \in 1 .. Digits
        /\ last > 0 => last \in 1 .. Digits
    BY <1>2, <1>5
  <1>7. Trimmed(f, last)
    BY <1>3, <1>5, <1>6 DEF Trimmed
  <1>8. FractionDigits(t) = [i \in 1 .. last |-> Digit(DigitOf(f, i))]
    BY <1>1, <1>3, <1>6
  <1> QED
    BY <1>7, <1>8 DEF f

\* The bytes of the text of t, whose fraction keeps n digits.
Shape(t, n) ==
  LET x == RFC3339Nano(t)
      z == Zone(t)
  IN
  /\ x \in Seq(Int) /\ x[1] = Second(t) /\ x[Len(x)] = z[Len(z)]
  /\ n = 0 => Len(x) = 1 + Len(z) /\ x[2] = z[1]
  /\ n > 0 => /\ Len(x) = 2 + n + Len(z) /\ x[2] = Dot /\ x[3 + n] = z[1]
              /\ \A k \in 1 .. n : x[2 + k] = Digit(DigitOf(Fract(t), k))

\* The zone is one byte, or a plus and the offset's digit.
LEMMA ZoneBytes ==
  ASSUME Typed, NEW t \in Nat
  PROVE  /\ Zone(t) \in Seq(Int)
         /\ Len(Zone(t)) \in Nat \ {0}
         /\ zone = "utc" => Len(Zone(t)) = 1 /\ Zone(t)[1] = Zed
         /\ zone # "utc" => Len(Zone(t)) = 2 /\ Zone(t)[1] = Plus /\ Zone(t)[2] = Digit(Offset(t))
  <1>1. CASE zone = "utc"
    BY <1>1, Walls DEF Zone, Zed
  <1>2. CASE zone # "utc"
    <2>1. Zone(t) = <<Plus, Digit(Offset(t))>> /\ Plus \in Int /\ Digit(Offset(t)) \in Int
      BY <1>2, Walls DEF Zone, Plus, Digit
    <2> QED
      BY <1>2, <2>1
  <1> QED
    BY <1>1, <1>2

\* One sequence after another.
LEMMA Concatenated ==
  ASSUME NEW y \in Seq(Int), NEW z \in Seq(Int)
  PROVE  /\ y \o z \in Seq(Int) /\ Len(y \o z) = Len(y) + Len(z)
         /\ \A k \in 1 .. Len(y) : (y \o z)[k] = y[k]
         /\ \A k \in 1 .. Len(z) : (y \o z)[Len(y) + k] = z[k]
  OBVIOUS

\* The bytes of a text of three parts: a number, those of d, and those of z.
Parts(x, s, d, z) ==
  /\ x \in Seq(Int) /\ Len(x) = 1 + Len(d) + Len(z) /\ x[1] = s
  /\ \A k \in 1 .. Len(d) : x[1 + k] = d[k]
  /\ x[2 + Len(d)] = z[1] /\ x[Len(x)] = z[Len(z)]

\* Three parts one after another are such a text.
LEMMA Joined ==
  ASSUME NEW s \in Int, NEW d \in Seq(Int), NEW z \in Seq(Int), Len(z) \in Nat \ {0}
  PROVE  Parts(<<s>> \o d \o z, s, d, z)
  <1> DEFINE o == <<s>>
             y == o \o d
             x == y \o z
  <1>1. o \in Seq(Int) /\ Len(o) = 1 /\ o[1] = s
    OBVIOUS
  <1> HIDE DEF o
  <1>2. /\ y \in Seq(Int) /\ Len(y) = Len(o) + Len(d)
        /\ \A k \in 1 .. Len(o) : y[k] = o[k]
        /\ \A k \in 1 .. Len(d) : y[Len(o) + k] = d[k]
    BY <1>1, Concatenated
  <1> HIDE DEF y
  <1>3. y \in Seq(Int)
    BY <1>2
  <1>4. /\ x \in Seq(Int) /\ Len(x) = Len(y) + Len(z)
        /\ \A k \in 1 .. Len(y) : x[k] = y[k]
        /\ \A k \in 1 .. Len(z) : x[Len(y) + k] = z[k]
    BY <1>3, Concatenated
  <1> HIDE DEF x
  <1>5. Len(d) \in Nat /\ Len(y) = 1 + Len(d) /\ y[1] = s /\ \A k \in 1 .. Len(d) : y[1 + k] = d[k]
    BY <1>1, <1>2
  <1>6. 1 \in 1 .. Len(y) /\ \A k \in 1 .. Len(d) : 1 + k \in 1 .. Len(y)
    BY <1>5
  <1>7. x[1] = s /\ \A k \in 1 .. Len(d) : x[1 + k] = d[k]
    BY <1>4, <1>5, <1>6
  <1>8. 1 \in 1 .. Len(z) /\ Len(z) \in 1 .. Len(z) /\ Len(y) + 1 = 2 + Len(d)
    BY <1>5
  <1>9. x[2 + Len(d)] = z[1] /\ x[Len(x)] = z[Len(z)]
    BY <1>4, <1>8
  <1>10. Len(x) = 1 + Len(d) + Len(z)
    BY <1>4, <1>5
  <1>11. Parts(x, s, d, z)
    BY <1>4, <1>7, <1>9, <1>10 DEF Parts
  <1> QED
    BY <1>11 DEF x, y, o

\* Every time's text has this shape, for the number of digits its fraction keeps.
LEMMA TextShape ==
  ASSUME Typed, NEW t \in Nat
  PROVE  \E n : Trimmed(Fract(t), n) /\ Shape(t, n)
  <1>1. PICK n : Trimmed(Fract(t), n) /\ FractionDigits(t) = [i \in 1 .. n |-> Digit(DigitOf(Fract(t), i))]
    BY TrimmedFraction
  <1> DEFINE ds == FractionDigits(t)
             d == Fraction(t)
             z == Zone(t)
             s == Second(t)
  <1>2. n \in Nat /\ n <= Digits /\ Digits \in Nat /\ \A k \in 1 .. n : k \in 1 .. Digits
    BY <1>1, ConsoleAssumption DEF Trimmed
  <1>3. \A i \in 1 .. n : Digit(DigitOf(Fract(t), i)) \in Int
    <2>1. Base \in Nat /\ \A i \in 1 .. n : DigitOf(Fract(t), i) \in 0 .. Base - 1
      BY <1>2, ConsoleAssumption, Quotients, Walls
    <2> QED
      BY <2>1 DEF Digit
  <1>4. ds \in Seq(Int) /\ Len(ds) = n /\ \A i \in 1 .. n : ds[i] = Digit(DigitOf(Fract(t), i))
    BY <1>1, <1>2, <1>3
  <1>5. RFC3339Nano(t) = <<s>> \o d \o z
    BY DEF RFC3339Nano
  <1>6. s \in Int /\ z \in Seq(Int) /\ Len(z) \in Nat \ {0}
    <2>1. s \in Nat
      BY Walls
    <2>2. z \in Seq(Int) /\ Len(z) \in Nat \ {0}
      BY ZoneBytes
    <2> QED
      BY <2>1, <2>2
  <1>10. s = Second(t) /\ z = Zone(t)
    OBVIOUS
  <1>7. d = IF ds = <<>> THEN <<>> ELSE <<Dot>> \o ds
    BY DEF Fraction
  <1> HIDE DEF ds, d, z, s
  <1> DEFINE x == <<s>> \o d \o z
  <1>11. RFC3339Nano(t) = x
    BY <1>5
  <1>12. ASSUME d \in Seq(Int) PROVE Parts(x, s, d, z)
    BY <1>6, <1>12, Joined
  <1>8. CASE n = 0
    <2>1. d = <<>> /\ d \in Seq(Int) /\ Len(d) = 0
      BY <1>4, <1>7, <1>8
    <2>2. x \in Seq(Int) /\ Len(x) = 1 + Len(z) /\ x[1] = s /\ x[2] = z[1] /\ x[Len(x)] = z[Len(z)]
      <3>1. 1 + 0 + Len(z) = 1 + Len(z) /\ 2 + 0 = 2
        BY <1>6
      <3> HIDE DEF x
      <3> QED
        BY <1>6, <1>12, <2>1, <3>1 DEF Parts
    <2> HIDE DEF x
    <2>3. Shape(t, n)
      BY <1>8, <1>10, <1>11, <2>2 DEF Shape
    <2> QED
      BY <1>1, <2>3
  <1>9. CASE n # 0
    <2>1. ds # <<>> /\ n > 0
      BY <1>2, <1>4, <1>9
    <2>2. d = <<Dot>> \o ds /\ Dot \in Int
      BY <1>7, <2>1 DEF Dot
    <2>3. d \in Seq(Int) /\ Len(d) = 1 + n /\ d[1] = Dot /\ \A k \in 1 .. n : d[1 + k] = ds[k]
      BY <1>4, <2>2
    <2>4. /\ x \in Seq(Int) /\ Len(x) = 1 + Len(d) + Len(z) /\ x[1] = s
          /\ \A k \in 1 .. Len(d) : x[1 + k] = d[k]
          /\ x[2 + Len(d)] = z[1] /\ x[Len(x)] = z[Len(z)]
      <3> HIDE DEF x
      <3> QED
        BY <1>12, <2>3 DEF Parts
    <2> HIDE DEF x
    <2>5. x[2] = Dot /\ \A k \in 1 .. n : x[2 + k] = ds[k]
      <3>1. 1 \in 1 .. Len(d) /\ 1 + 1 = 2 /\ \A k \in 1 .. n : 1 + k \in 1 .. Len(d) /\ 1 + (1 + k) = 2 + k
        BY <1>2, <2>3
      <3> QED
        BY <2>3, <2>4, <3>1
    <2>6. Len(x) = 2 + n + Len(z) /\ x[3 + n] = z[1]
      <3>1. 2 + Len(d) = 3 + n /\ 1 + Len(d) + Len(z) = 2 + n + Len(z)
        BY <1>2, <1>6, <2>3
      <3> QED
        BY <2>4, <3>1
    <2>7. Shape(t, n)
      BY <1>4, <1>9, <1>10, <1>11, <2>4, <2>5, <2>6 DEF Shape
    <2> QED
      BY <1>1, <2>7
  <1> QED
    BY <1>8, <1>9

\* The earlier of two times has the earlier text, unless texts are unclear: a lesser
\* second decides by itself; in one second the fractions decide where they first
\* differ, or, where the earlier one is trimmed before that, the plus of its zone,
\* which is less than a dot and than a digit.
LEMMA TextsInOrder ==
  ASSUME Typed, NEW a \in Nat, NEW b \in Nat, a < b, ~ Unclear(a, b)
  PROVE  Before(RFC3339Nano(a), RFC3339Nano(b))
  <1> DEFINE f == Fract(a)
             g == Fract(b)
             x == RFC3339Nano(a)
             y == RFC3339Nano(b)
  <1>1. /\ Second(a) \in Nat /\ Second(b) \in Nat
        /\ f \in 0 .. TickPerSecond - 1 /\ g \in 0 .. TickPerSecond - 1
        /\ TickPerSecond \in Nat \ {0}
    BY Walls, Ticks
  <1>2. TickPerSecond * Second(a) + f < TickPerSecond * Second(b) + g
    <2>1. Offset(a) = Offset(b) /\ Offset(a) \in Nat
      BY Walls DEF Unclear
    <2>2. Wall(a) < Wall(b)
      <3>1. Wall(a) = a + Offset(a) * TickPerSecond /\ Wall(b) = b + Offset(a) * TickPerSecond
        BY <2>1, Walls
      <3> DEFINE o == Offset(a) * TickPerSecond
      <3>2. o \in Nat
        BY <1>1, <2>1
      <3> HIDE DEF o
      <3>3. a + o < b + o
        BY <3>2
      <3> QED
        BY <3>1, <3>3 DEF o
    <2> QED
      BY <2>2, Walls
  <1>3. PICK n : Trimmed(f, n) /\ Shape(a, n)
    BY TextShape
  <1>4. PICK m : Trimmed(g, m) /\ Shape(b, m)
    BY TextShape
  <1>5. /\ x \in Seq(Int) /\ y \in Seq(Int) /\ x[1] = Second(a) /\ y[1] = Second(b)
        /\ n \in 0 .. Digits /\ m \in 0 .. Digits /\ Digits \in Nat \ {0}
    BY <1>3, <1>4, ConsoleAssumption DEF Shape, Trimmed
  <1>6. /\ n = 0 => Len(x) = 1 + Len(Zone(a)) /\ x[2] = Zone(a)[1]
        /\ n > 0 => /\ Len(x) = 2 + n + Len(Zone(a)) /\ x[2] = Dot /\ x[3 + n] = Zone(a)[1]
                    /\ \A k \in 1 .. n : x[2 + k] = Digit(DigitOf(f, k))
    BY <1>3 DEF Shape
  <1>7. /\ m > 0 => /\ Len(y) = 2 + m + Len(Zone(b)) /\ y[2] = Dot
                    /\ \A k \in 1 .. m : y[2 + k] = Digit(DigitOf(g, k))
        /\ m = 0 => Len(y) = 1 + Len(Zone(b))
    BY <1>4 DEF Shape
  <1>8. /\ Len(Zone(a)) \in Nat \ {0} /\ Len(Zone(b)) \in Nat \ {0}
        /\ zone # "utc" => Zone(a)[1] = Plus
    BY ZoneBytes
  <1>9. Len(y) \in Nat \ {0} /\ 1 \in 1 .. Len(y)
    BY <1>5, <1>7, <1>8
  <1>10. Second(a) <= Second(b)
    <2> DEFINE M == TickPerSecond
    <2>1. M \in Nat \ {0} /\ f < M /\ g < M /\ f >= 0 /\ g >= 0 /\ f \in Int /\ g \in Int
      BY <1>1
    <2>2. M * Second(a) + f < M * Second(b) + g
      BY <1>2
    <2> HIDE DEF M, f, g
    <2>3. ASSUME Second(b) + 1 <= Second(a) PROVE FALSE
      <3>1. M * (Second(b) + 1) <= M * Second(a)
        BY <1>1, <2>1, <2>3
      <3>2. M * (Second(b) + 1) = M * Second(b) + M /\ M * Second(b) \in Int /\ M * Second(a) \in Int
        BY <1>1, <2>1
      <3> QED
        BY <2>1, <2>2, <3>1, <3>2
    <2> QED
      BY <1>1, <2>3
  <1>11. CASE Second(a) < Second(b)
    <2>1. \A j \in 1 .. 1 - 1 : j \in DOMAIN x /\ x[j] = y[j]
      OBVIOUS
    <2> QED
      BY <1>5, <1>9, <1>11, <2>1 DEF Before
  <1>12. CASE Second(a) = Second(b)
    <2>1. zone # "utc"
      BY <1>12 DEF Unclear
    <2>2. f < g
      <3> DEFINE p == TickPerSecond * Second(a)
      <3>1. p \in Nat /\ p + f < p + g /\ f \in Nat /\ g \in Nat
        BY <1>1, <1>2, <1>12
      <3> HIDE DEF p, f, g
      <3> QED
        BY <3>1
    <2>3. PICK i \in 1 .. Digits : /\ DigitOf(f, i) < DigitOf(g, i)
                                   /\ \A j \in 1 .. i - 1 : DigitOf(f, j) = DigitOf(g, j)
      BY <1>1, <2>2, FirstDifference
    <2>4. \A j \in 1 .. Digits : DigitOf(f, j) \in Nat /\ DigitOf(g, j) \in Nat
      <3>1. Base \in Nat
        BY ConsoleAssumption
      <3>2. \A j \in 1 .. Digits : DigitOf(f, j) \in 0 .. Base - 1
        BY <1>1, Quotients
      <3>3. \A j \in 1 .. Digits : DigitOf(g, j) \in 0 .. Base - 1
        BY <1>1, Quotients
      <3> QED
        BY <3>1, <3>2, <3>3
    <2>5. i <= m
      <3>1. ASSUME m < i PROVE FALSE
        <4>1. i \in m + 1 .. Digits
          BY <1>5, <2>3, <3>1
        <4>2. DigitOf(g, i) = 0
          BY <1>4, <4>1 DEF Trimmed
        <4> QED
          BY <2>3, <2>4, <4>2
      <3> QED
        BY <1>5, <2>3, <3>1
    <2>6. m > 0 /\ m \in Nat /\ n \in Nat /\ i \in Nat /\ i > 0
      BY <1>5, <2>3, <2>5
    <2> HIDE DEF x, y, f, g
    <2>7. /\ Len(y) = 2 + m + Len(Zone(b)) /\ y[2] = Dot /\ Len(y) \in Nat /\ Len(y) > 2 + m
          /\ \A k \in 1 .. m : y[2 + k] = Digit(DigitOf(g, k))
      BY <1>7, <1>8, <2>6
    <2>8. x[1] = y[1]
      BY <1>5, <1>12
    <2>9. CASE n = 0
      <3>1. x[2] < y[2]
        BY <1>6, <1>8, <2>1, <2>7, <2>9 DEF Plus, Dot
      <3>2. \A j \in 1 .. 2 - 1 : j = 1
        OBVIOUS
      <3>3. DOMAIN x = 1 .. Len(x) /\ Len(x) \in Nat
        BY <1>5
      <3>4. Len(x) >= 1
        BY <1>6, <1>8, <2>9
      <3>5. 1 \in DOMAIN x
        BY <3>3, <3>4
      <3>6. 2 \in 1 .. Len(y)
        BY <2>6, <2>7
      <3> QED
        BY <2>8, <3>1, <3>2, <3>5, <3>6 DEF Before, x, y
    <2>10. CASE n > 0 /\ n < i
      <3>1. /\ Len(x) = 2 + n + Len(Zone(a)) /\ x[2] = Dot /\ x[3 + n] = Plus
            /\ \A k \in 1 .. n : x[2 + k] = Digit(DigitOf(f, k))
        BY <1>6, <1>8, <2>1, <2>10
      <3>2. \A j \in 1 .. n : j \in 1 .. i - 1 /\ j \in 1 .. m
        BY <2>5, <2>6, <2>10
      <3>3. \A k \in 1 .. n : x[2 + k] = y[2 + k]
        BY <2>3, <2>7, <3>1, <3>2
      <3>4. \A j \in 1 .. (3 + n) - 1 : j = 1 \/ j = 2 \/ (j - 2 \in 1 .. n /\ 2 + (j - 2) = j)
        BY <2>6
      <3>5. \A j \in 1 .. (3 + n) - 1 : j \in 1 .. Len(x)
        BY <1>8, <2>6, <3>1
      <3>6. DOMAIN x = 1 .. Len(x)
        BY <1>5
      <3>7. \A j \in 1 .. (3 + n) - 1 : j \in DOMAIN x /\ x[j] = y[j]
        BY <2>7, <2>8, <3>1, <3>3, <3>4, <3>5, <3>6
      <3>8. n + 1 \in 1 .. m /\ n + 1 \in 1 .. Digits /\ 2 + (n + 1) = 3 + n /\ 3 + n \in 1 .. Len(y)
        BY <1>5, <2>3, <2>5, <2>6, <2>7, <2>10
      <3>9. y[3 + n] = Digit(DigitOf(g, n + 1)) /\ DigitOf(g, n + 1) \in Nat
        BY <2>4, <2>7, <3>8
      <3>10. x[3 + n] < y[3 + n]
        BY <3>1, <3>9 DEF Plus, Digit
      <3> QED
        BY <3>7, <3>8, <3>10 DEF Before, x, y
    <2>11. CASE n > 0 /\ ~ (n < i)
      <3>1. /\ Len(x) = 2 + n + Len(Zone(a)) /\ x[2] = Dot
            /\ \A k \in 1 .. n : x[2 + k] = Digit(DigitOf(f, k))
        BY <1>6, <2>11
      <3>2. \A j \in 1 .. i : j \in 1 .. n /\ j \in 1 .. m
        BY <2>5, <2>6, <2>11
      <3>3. \A k \in 1 .. i - 1 : k \in 1 .. i
        BY <2>6
      <3>4. \A k \in 1 .. i - 1 : x[2 + k] = y[2 + k]
        BY <2>3, <2>7, <3>1, <3>2, <3>3
      <3>5. \A j \in 1 .. (2 + i) - 1 : j = 1 \/ j = 2 \/ (j - 2 \in 1 .. i - 1 /\ 2 + (j - 2) = j)
        BY <2>6
      <3>6. \A j \in 1 .. (2 + i) - 1 : j \in 1 .. Len(x)
        BY <1>8, <2>6, <2>11, <3>1
      <3>7. DOMAIN x = 1 .. Len(x)
        BY <1>5
      <3>8. \A j \in 1 .. (2 + i) - 1 : j \in DOMAIN x /\ x[j] = y[j]
        BY <2>7, <2>8, <3>1, <3>4, <3>5, <3>6, <3>7
      <3>9. i \in 1 .. i /\ 2 + i \in 1 .. Len(y)
        BY <2>5, <2>6, <2>7
      <3>10. x[2 + i] < y[2 + i]
        <4>1. x[2 + i] = Digit(DigitOf(f, i)) /\ y[2 + i] = Digit(DigitOf(g, i))
          BY <2>7, <3>1, <3>2, <3>9
        <4>2. DigitOf(f, i) \in Nat /\ DigitOf(g, i) \in Nat
          BY <2>3, <2>4
        <4> QED
          BY <2>3, <4>1, <4>2 DEF Digit
      <3> QED
        BY <3>8, <3>9, <3>10 DEF Before, x, y
    <2> QED
      BY <2>6, <2>9, <2>10, <2>11
  <1> QED
    BY <1>1, <1>10, <1>11, <1>12

\* Two times have two texts.
LEMMA TextsDiffer ==
  ASSUME Typed, NEW a \in Nat, NEW b \in Nat, RFC3339Nano(a) = RFC3339Nano(b)
  PROVE  a = b
  <1> DEFINE x == RFC3339Nano(a)
  <1>1. PICK n : Trimmed(Fract(a), n) /\ Shape(a, n)
    BY TextShape
  <1>2. PICK m : Trimmed(Fract(b), m) /\ Shape(b, m)
    BY TextShape
  <1>3. Second(a) = Second(b)
    BY <1>1, <1>2 DEF Shape
  <1>4. n \in Nat /\ m \in Nat /\ n <= Digits /\ m <= Digits /\ Digits \in Nat
    BY <1>1, <1>2, ConsoleAssumption DEF Trimmed
  <1>5. Len(Zone(a)) = Len(Zone(b)) /\ Len(Zone(a)) \in Nat \ {0}
    BY ZoneBytes
  <1>6. Offset(a) = Offset(b)
    <2>1. CASE zone = "utc"
      BY <2>1, Walls
    <2>2. CASE zone # "utc"
      <3>1. Zone(a)[2] = Zone(b)[2] /\ Zone(a)[2] = Digit(Offset(a)) /\ Zone(b)[2] = Digit(Offset(b))
        BY <1>1, <1>2, <2>2, ZoneBytes DEF Shape
      <3>2. Offset(a) \in Nat /\ Offset(b) \in Nat
        BY Walls
      <3>3. 48 + Offset(a) = 48 + Offset(b)
        BY <3>1 DEF Digit
      <3> QED
        BY <3>2, <3>3
    <2> QED
      BY <2>1, <2>2
  <1>7. n = m
    <2>1. n = 0 => Len(x) = 1 + Len(Zone(a))
      BY <1>1 DEF Shape
    <2>2. n > 0 => Len(x) = 2 + n + Len(Zone(a))
      BY <1>1 DEF Shape
    <2>3. m = 0 => Len(x) = 1 + Len(Zone(b))
      BY <1>2 DEF Shape
    <2>4. m > 0 => Len(x) = 2 + m + Len(Zone(b))
      BY <1>2 DEF Shape
    <2> HIDE DEF x
    <2> QED
      BY <1>4, <1>5, <2>1, <2>2, <2>3, <2>4
  <1>8. \A k \in 1 .. Digits : DigitOf(Fract(a), k) = DigitOf(Fract(b), k)
    <2>1. ASSUME NEW k \in 1 .. Digits, k <= n PROVE DigitOf(Fract(a), k) = DigitOf(Fract(b), k)
      <3>1. n > 0 /\ m > 0 /\ k \in 1 .. n /\ k \in 1 .. m
        BY <1>4, <1>7, <2>1
      <3>2. x[2 + k] = Digit(DigitOf(Fract(a), k))
        BY <1>1, <3>1 DEF Shape
      <3>3. x[2 + k] = Digit(DigitOf(Fract(b), k))
        BY <1>2, <3>1 DEF Shape
      <3>4. DigitOf(Fract(a), k) \in 0 .. Base - 1 /\ DigitOf(Fract(b), k) \in 0 .. Base - 1
        BY Walls, Quotients
      <3>5. Base \in Nat
        BY ConsoleAssumption
      <3> HIDE DEF x
      <3> QED
        BY <3>2, <3>3, <3>4, <3>5 DEF Digit
    <2>2. ASSUME NEW k \in 1 .. Digits, ~ (k <= n) PROVE DigitOf(Fract(a), k) = DigitOf(Fract(b), k)
      <3>1. k \in n + 1 .. Digits /\ k \in m + 1 .. Digits
        BY <1>4, <1>7, <2>2
      <3> QED
        BY <1>1, <1>2, <3>1 DEF Trimmed
    <2> QED
      BY <2>1, <2>2
  <1>9. Fract(a) = Fract(b)
    <2>1. Fract(a) \in 0 .. TickPerSecond - 1 /\ Fract(b) \in 0 .. TickPerSecond - 1 /\ TickPerSecond \in Nat
      BY Walls, Ticks
    <2>2. \A k \in 1 .. Digits : DigitOf(Fract(a), k) \in Int
      <3>1. Base \in Nat
        BY ConsoleAssumption
      <3> QED
        BY <2>1, <3>1, Quotients
    <2>3. ASSUME Fract(a) < Fract(b) PROVE FALSE
      <3>1. PICK i \in 1 .. Digits : DigitOf(Fract(a), i) < DigitOf(Fract(b), i)
        BY <2>1, <2>3, FirstDifference
      <3> QED
        BY <1>8, <2>2, <3>1
    <2>4. ASSUME Fract(b) < Fract(a) PROVE FALSE
      <3>1. PICK i \in 1 .. Digits : DigitOf(Fract(b), i) < DigitOf(Fract(a), i)
        BY <2>1, <2>4, FirstDifference
      <3> QED
        BY <1>8, <2>2, <3>1
    <2> QED
      BY <2>1, <2>3, <2>4
  <1>10. Wall(a) = Wall(b)
    BY <1>3, <1>9, Walls
  <1> DEFINE o == Offset(a) * TickPerSecond
  <1>11. Wall(a) = a + o /\ Wall(b) = b + o
    BY <1>6, Walls
  <1>12. o \in Nat
    BY Walls, Ticks
  <1> HIDE DEF o
  <1>13. a + o = b + o
    BY <1>10, <1>11
  <1> QED
    BY <1>12, <1>13
-----------------------------------------------------------------------------
(***************************************************************************)
(* The order of texts.                                                     *)
(***************************************************************************)
\* No text is before itself; of two texts one is before the other.
LEMMA BeforeDecides ==
  ASSUME NEW x \in Seq(Int), NEW y \in Seq(Int)
  PROVE  ~ Before(x, x) /\ (x # y => Before(x, y) \/ Before(y, x))
  <1>1. DOMAIN x = 1 .. Len(x) /\ DOMAIN y = 1 .. Len(y) /\ Len(x) \in Nat /\ Len(y) \in Nat
    OBVIOUS
  <1>2. (\A i \in DOMAIN x : x[i] \in Int) /\ (\A i \in DOMAIN y : y[i] \in Int)
    OBVIOUS
  <1>3. ~ Before(x, x)
    BY <1>1, <1>2 DEF Before
  <1>4. ASSUME x # y PROVE Before(x, y) \/ Before(y, x)
    <2> DEFINE Same(i) == i \in DOMAIN x /\ i \in DOMAIN y /\ x[i] = y[i]
               D == {i \in Nat \ {0} : ~ Same(i)}
    <2>1. D \in SUBSET Nat /\ D # {}
      <3>1. Len(x) + 1 \in Nat \ {0} /\ Len(x) + 1 \notin DOMAIN x
        BY <1>1
      <3> QED
        BY <3>1
    <2>2. PICK i \in D : \A j \in D : i <= j
      <3> HIDE DEF D
      <3> QED
        BY <2>1, Smallest
    <2>3. i \in Nat \ {0} /\ ~ Same(i)
      OBVIOUS
    <2>4. \A j \in 1 .. i - 1 : j \in Nat \ {0} /\ ~ (i <= j)
      BY <2>3
    <2>5. \A j \in 1 .. i - 1 : Same(j)
      BY <2>2, <2>4
    <2>6. \A j \in 1 .. i - 1 : j \in DOMAIN x /\ j \in DOMAIN y /\ x[j] = y[j]
      BY <2>5
    <2>7. CASE i \in DOMAIN x /\ i \in DOMAIN y
      <3>1. x[i] < y[i] \/ y[i] < x[i]
        BY <1>2, <2>3, <2>7
      <3> QED
        BY <1>1, <2>6, <2>7, <3>1 DEF Before
    <2>8. CASE i \in DOMAIN x /\ i \notin DOMAIN y
      BY <1>1, <2>6, <2>8 DEF Before
    <2>9. CASE i \notin DOMAIN x /\ i \in DOMAIN y
      BY <1>1, <2>6, <2>9 DEF Before
    <2>10. CASE i \notin DOMAIN x /\ i \notin DOMAIN y
      <3>1. Len(x) < i /\ Len(y) < i
        BY <1>1, <2>3, <2>10
      <3>2. \A j \in Nat : j > 0 /\ j < i => j \in 1 .. i - 1
        BY <2>3
      <3>3. Len(x) <= Len(y)
        <4>1. ASSUME Len(x) > 0 PROVE Len(x) \in DOMAIN y
          BY <1>1, <2>6, <3>1, <3>2, <4>1
        <4> QED
          BY <1>1, <4>1
      <3>4. Len(y) <= Len(x)
        <4>1. ASSUME Len(y) > 0 PROVE Len(y) \in DOMAIN x
          BY <1>1, <2>6, <3>1, <3>2, <4>1
        <4> QED
          BY <1>1, <4>1
      <3>5. Len(x) = Len(y)
        <4>1. Len(x) \in Nat /\ Len(y) \in Nat
          BY <1>1
        <4> QED
          BY <3>3, <3>4, <4>1
      <3>6. \A j \in 1 .. Len(x) : j \in 1 .. i - 1
        BY <1>1, <2>3, <3>1
      <3>7. \A j \in 1 .. Len(x) : x[j] = y[j]
        BY <2>6, <3>6
      <3> QED
        BY <1>4, <3>5, <3>7
    <2> QED
      BY <2>7, <2>8, <2>9, <2>10
  <1> QED
    BY <1>3, <1>4

\* Who is before one that is before a third is before the third.
LEMMA BeforeTransitive ==
  ASSUME NEW x \in Seq(Int), NEW y \in Seq(Int), NEW z \in Seq(Int), Before(x, y), Before(y, z)
  PROVE  Before(x, z)
  <1>1. /\ DOMAIN x = 1 .. Len(x) /\ DOMAIN y = 1 .. Len(y) /\ DOMAIN z = 1 .. Len(z)
        /\ Len(x) \in Nat /\ Len(y) \in Nat /\ Len(z) \in Nat
    OBVIOUS
  <1>2. /\ \A i \in DOMAIN x : x[i] \in Int
        /\ \A i \in DOMAIN y : y[i] \in Int
        /\ \A i \in DOMAIN z : z[i] \in Int
    OBVIOUS
  <1>3. PICK i \in 1 .. Len(y) : /\ \A j \in 1 .. i - 1 : j \in DOMAIN x /\ x[j] = y[j]
                                 /\ i \in DOMAIN x => x[i] < y[i]
    BY DEF Before
  <1>4. PICK k \in 1 .. Len(z) : /\ \A j \in 1 .. k - 1 : j \in DOMAIN y /\ y[j] = z[j]
                                 /\ k \in DOMAIN y => y[k] < z[k]
    BY DEF Before
  <1>5. i \in Nat /\ k \in Nat /\ i > 0 /\ k > 0 /\ i \in DOMAIN y /\ k \in DOMAIN z
    BY <1>1
  <1>6. CASE i < k
    <2>1. i \in 1 .. k - 1 /\ i \in 1 .. Len(z) /\ \A j \in 1 .. i - 1 : j \in 1 .. k - 1
      BY <1>1, <1>5, <1>6
    <2>2. \A j \in 1 .. i - 1 : j \in DOMAIN x /\ x[j] = z[j]
      BY <1>3, <1>4, <2>1
    <2>3. i \in DOMAIN x => x[i] < z[i]
      BY <1>3, <1>4, <2>1
    <2> QED
      BY <2>1, <2>2, <2>3 DEF Before
  <1>7. CASE i = k
    <2>1. \A j \in 1 .. k - 1 : j \in DOMAIN x /\ x[j] = z[j]
      BY <1>3, <1>4, <1>7
    <2>2. k \in DOMAIN x => x[k] < z[k]
      BY <1>2, <1>3, <1>4, <1>5, <1>7
    <2> QED
      BY <2>1, <2>2 DEF Before
  <1>8. CASE k < i
    <2>1. k \in 1 .. i - 1 /\ k \in DOMAIN y /\ \A j \in 1 .. k - 1 : j \in 1 .. i - 1
      BY <1>1, <1>5, <1>8
    <2>2. \A j \in 1 .. k - 1 : j \in DOMAIN x /\ x[j] = z[j]
      BY <1>3, <1>4, <2>1
    <2>3. k \in DOMAIN x => x[k] < z[k]
      BY <1>3, <1>4, <2>1
    <2> QED
      BY <2>2, <2>3 DEF Before
  <1> QED
    BY <1>5, <1>6, <1>7, <1>8

\* s lists the elements of K from the last to the first.
Order(s, K) ==
  /\ s \in [1 .. Cardinality(K) -> K]
  /\ \A i, j \in DOMAIN s : i < j => Before(s[j], s[i])

\* Elements of K that come after k.
After(k, K) == {j \in K : Before(k, j)}

\* The later of two texts has less after it.
LEMMA FewerAfter ==
  ASSUME NEW K, IsFiniteSet(K), K \subseteq Seq(Int), NEW k \in K, NEW j \in K, Before(k, j)
  PROVE  /\ Cardinality(After(j, K)) \in Nat /\ Cardinality(After(k, K)) \in Nat
         /\ Cardinality(After(j, K)) < Cardinality(After(k, K))
  <1>1. /\ After(k, K) \subseteq K /\ After(j, K) \subseteq K
        /\ k \in Seq(Int) /\ j \in Seq(Int)
    BY DEF After
  <1>2. IsFiniteSet(After(k, K)) /\ IsFiniteSet(After(j, K))
    BY <1>1, FS_Subset
  <1>3. After(j, K) \subseteq After(k, K)
    <2>1. ASSUME NEW i \in K, Before(j, i) PROVE Before(k, i)
      BY <1>1, <2>1, BeforeTransitive
    <2> QED
      BY <2>1 DEF After
  <1>4. j \in After(k, K) /\ j \notin After(j, K)
    BY <1>1, BeforeDecides DEF After
  <1>5. /\ Cardinality(After(j, K)) <= Cardinality(After(k, K))
        /\ Cardinality(After(k, K)) # Cardinality(After(j, K))
    BY <1>2, <1>3, <1>4, FS_Subset
  <1>6. Cardinality(After(j, K)) \in Nat /\ Cardinality(After(k, K)) \in Nat
    BY <1>2, FS_CardinalityType
  <1> QED
    BY <1>5, <1>6

\* A finite set of texts can be listed: the place of each is the number of those after it.
LEMMA OrderExists ==
  ASSUME NEW K, IsFiniteSet(K), K \subseteq Seq(Int)
  PROVE  \E s : Order(s, K)
  <1> DEFINE n == Cardinality(K)
             rank == [k \in K |-> Cardinality(After(k, K)) + 1]
             s == [i \in 1 .. n |-> CHOOSE k \in K : rank[k] = i]
  <1>1. n \in Nat /\ IsFiniteSet(1 .. n) /\ Cardinality(1 .. n) = n
    <2>1. n \in Nat
      BY FS_CardinalityType
    <2> HIDE DEF n
    <2> QED
      BY <2>1, FS_Interval
  <1>2. ASSUME NEW k \in K PROVE rank[k] \in 1 .. n
    <2>1. After(k, K) \subseteq K \ {k} /\ IsFiniteSet(K \ {k}) /\ Cardinality(K \ {k}) = n - 1
      BY BeforeDecides, FS_RemoveElement DEF After
    <2>2. IsFiniteSet(After(k, K)) /\ Cardinality(After(k, K)) <= n - 1
      BY <2>1, FS_Subset
    <2>3. Cardinality(After(k, K)) \in Nat
      BY <2>2, FS_CardinalityType
    <2>4. rank[k] = Cardinality(After(k, K)) + 1
      OBVIOUS
    <2> HIDE DEF n, rank
    <2> QED
      BY <1>1, <2>2, <2>3, <2>4
  <1>3. ASSUME NEW k \in K, NEW j \in K, Before(k, j) PROVE rank[j] < rank[k]
    BY <1>3, FewerAfter
  <1>4. \A k, j \in K : rank[k] = rank[j] => k = j
    <2>1. ASSUME NEW k \in K, NEW j \in K, k # j PROVE rank[k] # rank[j]
      <3>1. Before(k, j) \/ Before(j, k)
        BY <2>1, BeforeDecides
      <3>2. rank[k] \in Nat /\ rank[j] \in Nat
        <4>1. rank[k] \in 1 .. n /\ rank[j] \in 1 .. n
          BY <1>2
        <4> HIDE DEF n, rank
        <4> QED
          BY <4>1
      <3>3. rank[j] < rank[k] \/ rank[k] < rank[j]
        BY <1>3, <3>1
      <3> HIDE DEF rank
      <3> QED
        BY <3>2, <3>3
    <2> QED
      BY <2>1
  <1>5. rank \in Surjection(K, 1 .. n)
    <2>1. rank \in [K -> 1 .. n]
      BY <1>2
    <2>2. rank \in Injection(K, 1 .. n)
      BY <1>4, <2>1 DEF Injection, IsInjective
    <2> HIDE DEF rank
    <2> QED
      BY <1>1, <2>2, FS_Injection
  <1>6. \A i \in 1 .. n : s[i] \in K /\ rank[s[i]] = i
    <2>1. \A i \in 1 .. n : \E k \in K : rank[k] = i
      BY <1>5 DEF Surjection
    <2> HIDE DEF rank
    <2> QED
      BY <2>1
  <1>7. DOMAIN s = 1 .. n /\ s \in [1 .. n -> K]
    BY <1>6
  <1> HIDE DEF s, rank
  <1>8. ASSUME NEW i \in 1 .. n, NEW j \in 1 .. n, i < j PROVE Before(s[j], s[i])
    <2>1. s[i] # s[j] /\ s[i] \in K /\ s[j] \in K /\ s[i] \in Seq(Int) /\ s[j] \in Seq(Int)
      BY <1>6, <1>8
    <2>2. ~ Before(s[i], s[j])
      <3>1. ASSUME Before(s[i], s[j]) PROVE FALSE
        <4>1. rank[s[j]] < rank[s[i]]
          BY <1>3, <2>1, <3>1
        <4>2. j < i
          BY <1>6, <4>1
        <4> QED
          BY <1>8, <4>2
      <3> QED
        BY <3>1
    <2> QED
      BY <2>1, <2>2, BeforeDecides
  <1>9. Order(s, K)
    BY <1>7, <1>8 DEF Order
  <1> QED
    BY <1>9

\* Such a list leaves out none.
LEMMA OrderCovers ==
  ASSUME NEW K, IsFiniteSet(K), K \subseteq Seq(Int), NEW s, Order(s, K), NEW k \in K
  PROVE  \E i \in 1 .. Cardinality(K) : s[i] = k
  <1> DEFINE n == Cardinality(K)
  <1>1. n \in Nat /\ IsFiniteSet(1 .. n) /\ Cardinality(1 .. n) = n
    <2>1. n \in Nat
      BY FS_CardinalityType
    <2> HIDE DEF n
    <2> QED
      BY <2>1, FS_Interval
  <1>2. s \in [1 .. n -> K] /\ DOMAIN s = 1 .. n
    BY DEF Order
  <1>3. ASSUME NEW i \in 1 .. n, NEW j \in 1 .. n, i < j PROVE s[i] # s[j]
    <2>1. Before(s[j], s[i]) /\ s[j] \in Seq(Int)
      BY <1>2, <1>3 DEF Order
    <2> QED
      BY <2>1, BeforeDecides
  <1>4. \A i, j \in 1 .. n : s[i] = s[j] => i = j
    <2> HIDE DEF n
    <2>1. \A i, j \in 1 .. n : i < j \/ i = j \/ j < i
      BY <1>1
    <2> QED
      BY <1>3, <2>1
  <1>5. s \in Surjection(1 .. n, K)
    <2>1. s \in Injection(1 .. n, K)
      BY <1>2, <1>4 DEF Injection, IsInjective
    <2> QED
      BY <1>1, <2>1, FS_Injection
  <1> QED
    BY <1>5 DEF Surjection
-----------------------------------------------------------------------------
(***************************************************************************)
(* The log.                                                                *)
(***************************************************************************)
\* An entry's key is the text of its time.
KeysOK == IsFiniteSet(DOMAIN log) /\ \A k \in DOMAIN log : k = RFC3339Nano(log[k].at)

\* The bound leaves room for the entries of the commands under way.
RoomOK == IsFiniteSet(Underway) /\ Cardinality(DOMAIN log) + Cardinality(Underway) <= MaxEntries

\* Of the entries about x the one of the latest time has the command that shows in x.
Newest(x) ==
  \E k \in DOMAIN log :
    /\ log[k].cmd.target = x /\ Shows(log[k].cmd)
    /\ \A j \in DOMAIN log \ {k} : log[j].cmd.target = x => log[j].at < log[k].at

\* The command that shows in x is about to be logged, and it alone, or is the newest.
Said(x) ==
  \/ \E r \in Requests : Unlogged(x) = {r} /\ Shows(cmd[r])
  \/ Unlogged(x) = {} /\ Newest(x)

LogInv == KeysOK /\ RoomOK /\ \A x \in Targets : told[x] => Said(x)

\* What the command read lists: every entry once, none before one with a later key.
LEMMA WhatIsRead ==
  ASSUME Typed, KeysOK, RoomOK
  PROVE  \E s : /\ Order(s, DOMAIN log)
                /\ Read(MaxEntries) = [i \in 1 .. Cardinality(DOMAIN log) |-> log[s[i]]]
                /\ DOMAIN log \subseteq Seq(Int)
  <1> DEFINE K == DOMAIN log
             n == Cardinality(K)
             s == CHOOSE s \in [1 .. n -> K] : \A i, j \in DOMAIN s : i < j => Before(s[j], s[i])
  <1>1. n \in Nat /\ Cardinality(Underway) \in Nat /\ MaxEntries \in Nat /\ n + Cardinality(Underway) <= MaxEntries
    BY FS_CardinalityType, ConsoleAssumption DEF KeysOK, RoomOK
  <1>2. K \subseteq Seq(Int)
    <2>1. ASSUME NEW k \in K PROVE k \in Seq(Int)
      <3>1. log[k].at \in Nat /\ k = RFC3339Nano(log[k].at)
        BY DEF KeysOK, Typed
      <3>2. RFC3339Nano(log[k].at) \in Seq(Int)
        BY <3>1, TextShape DEF Shape
      <3> QED
        BY <3>1, <3>2
    <2> QED
      BY <2>1
  <1>3. \E t : Order(t, K)
    BY <1>2, OrderExists DEF KeysOK
  <1>4. Order(s, K)
    BY <1>3 DEF Order
  <1>5. Read(MaxEntries) = [i \in 1 .. IF MaxEntries < n THEN MaxEntries ELSE n |-> log[s[i]]]
    BY DEF Read
  <1> HIDE DEF n, s, K
  <1>6. (IF MaxEntries < n THEN MaxEntries ELSE n) = n
    BY <1>1
  <1>7. Read(MaxEntries) = [i \in 1 .. n |-> log[s[i]]]
    BY <1>5, <1>6
  <1> QED
    BY <1>2, <1>4, <1>7 DEF n, K

\* The later key is of the later time, but where texts are unclear.
LEMMA LaterKey ==
  ASSUME Typed, NEW a \in Nat, NEW b \in Nat, Before(RFC3339Nano(b), RFC3339Nano(a))
  PROVE  a > b \/ Unclear(a, b)
  <1> SUFFICES ASSUME ~ (a > b), ~ Unclear(a, b) PROVE FALSE
    OBVIOUS
  <1>1. RFC3339Nano(a) \in Seq(Int) /\ RFC3339Nano(b) \in Seq(Int)
    BY TextShape DEF Shape
  <1>2. CASE a = b
    BY <1>1, <1>2, BeforeDecides
  <1>3. CASE a < b
    <2>1. Before(RFC3339Nano(a), RFC3339Nano(b))
      BY <1>3, TextsInOrder
    <2> QED
      BY <1>1, <2>1, BeforeDecides, BeforeTransitive
  <1> QED
    BY <1>2, <1>3

\* What is read goes from later times to earlier ones, but where texts are unclear.
LEMMA LogIsInOrder == Typed /\ KeysOK /\ RoomOK => ReadInOrder
  <1> SUFFICES ASSUME Typed, KeysOK, RoomOK,
                      NEW i \in DOMAIN Read(MaxEntries), NEW j \in DOMAIN Read(MaxEntries), i < j
               PROVE  Read(MaxEntries)[i].at > Read(MaxEntries)[j].at
                        \/ Unclear(Read(MaxEntries)[i].at, Read(MaxEntries)[j].at)
    BY DEF ReadInOrder
  <1>1. PICK s : /\ Order(s, DOMAIN log)
                 /\ Read(MaxEntries) = [k \in 1 .. Cardinality(DOMAIN log) |-> log[s[k]]]
                 /\ DOMAIN log \subseteq Seq(Int)
    BY WhatIsRead
  <1>2. /\ i \in 1 .. Cardinality(DOMAIN log) /\ j \in 1 .. Cardinality(DOMAIN log)
        /\ Read(MaxEntries)[i] = log[s[i]] /\ Read(MaxEntries)[j] = log[s[j]]
    BY <1>1
  <1>3. s[i] \in DOMAIN log /\ s[j] \in DOMAIN log /\ Before(s[j], s[i])
    BY <1>1, <1>2 DEF Order
  <1>4. /\ log[s[i]].at \in Nat /\ log[s[j]].at \in Nat
        /\ s[i] = RFC3339Nano(log[s[i]].at) /\ s[j] = RFC3339Nano(log[s[j]].at)
    BY <1>3 DEF Typed, KeysOK
  <1> QED
    BY <1>2, <1>3, <1>4, LaterKey

\* Who reads about x meets first the newest entry, or one whose text is unclear to it.
LEMMA LogExplains == Typed /\ LogInv => LogExplainsState
  <1> SUFFICES ASSUME Typed, LogInv, NEW x \in Targets, told[x], Unlogged(x) = {}
               PROVE  LET es == Read(MaxEntries)
                          about == {i \in DOMAIN es : es[i].cmd.target = x}
                      IN
                      \E i \in about : /\ \A j \in about : i <= j
                                       /\ \/ Shows(es[i].cmd)
                                          \/ \E j \in about \ {i} : Unclear(es[i].at, es[j].at)
    BY DEF LogExplainsState
  <1> DEFINE es == Read(MaxEntries)
             about == {i \in DOMAIN es : es[i].cmd.target = x}
             n == Cardinality(DOMAIN log)
  <1>1. PICK s : Order(s, DOMAIN log) /\ es = [k \in 1 .. n |-> log[s[k]]] /\ DOMAIN log \subseteq Seq(Int)
    BY WhatIsRead DEF LogInv
  <1>2. DOMAIN es = 1 .. n /\ \A k \in 1 .. n : es[k] = log[s[k]] /\ s[k] \in DOMAIN log
    BY <1>1 DEF Order
  <1>3. PICK k \in DOMAIN log : /\ log[k].cmd.target = x /\ Shows(log[k].cmd)
                                /\ \A j \in DOMAIN log \ {k} : log[j].cmd.target = x => log[j].at < log[k].at
    BY DEF LogInv, Said, Newest
  <1>4. PICK m \in 1 .. n : s[m] = k
    BY <1>1, OrderCovers DEF LogInv, KeysOK
  <1>5. m \in about
    BY <1>2, <1>3, <1>4
  <1>6. \A i \in about : i \in 1 .. n /\ i \in Nat /\ es[i] = log[s[i]] /\ s[i] \in DOMAIN log /\ log[s[i]].cmd.target = x
    BY <1>2
  <1>7. \A i, j \in DOMAIN es : i < j => es[i].at > es[j].at \/ Unclear(es[i].at, es[j].at)
    BY LogIsInOrder DEF LogInv, ReadInOrder
  <1> HIDE DEF es, n
  <1>8. about \in SUBSET Nat
    BY <1>6
  <1> HIDE DEF about
  <1>9. PICK i \in about : \A j \in about : i <= j
    BY <1>5, <1>8, Smallest
  <1>10. Shows(es[i].cmd) \/ \E j \in about \ {i} : Unclear(es[i].at, es[j].at)
    <2>1. CASE s[i] = k
      BY <1>3, <1>6, <2>1
    <2>2. CASE s[i] # k
      <3>1. m # i /\ i <= m /\ i \in Nat /\ m \in Nat
        BY <1>4, <1>5, <1>6, <1>9, <2>2
      <3>2. i < m
        BY <3>1
      <3>3. es[i].at < es[m].at
        BY <1>3, <1>4, <1>5, <1>6, <2>2
      <3>4. es[i].at \in Nat /\ es[m].at \in Nat
        BY <1>5, <1>6 DEF Typed
      <3>5. Unclear(es[i].at, es[m].at)
        BY <1>2, <1>5, <1>6, <1>7, <3>2, <3>3, <3>4
      <3> QED
        BY <1>5, <3>1, <3>5
    <2> QED
      BY <2>1, <2>2
  <1> QED
    BY <1>9, <1>10 DEF about, es
-----------------------------------------------------------------------------
(***************************************************************************)
(* The steps.                                                              *)
(***************************************************************************)
\* What a command is, and whom it is about.
LEMMA Commands ==
  ASSUME NEW c \in Command
  PROVE  /\ c.days \in Days \cup {0}
         /\ c.target \in Users => c.kind \in {"permanent", "unmute", "mute"}
         /\ c.kind # "mute" => c.days = 0
         /\ c.days \in Int
  <1>1. CASE c \in [kind: {"lock", "unlock"}, target: Threads, days: {0}]
    BY <1>1, ConsoleAssumption
  <1>2. CASE c \in [kind: {"permanent", "unmute"}, target: Users, days: {0}]
    BY <1>2
  <1>3. CASE c \in [kind: {"mute"}, target: Users, days: Days]
    BY <1>3, ConsoleAssumption
  <1>4. CASE c \in [kind: {"other"}, target: {Nil}, days: {0}]
    BY <1>4, ConsoleAssumption DEF Targets
  <1> QED
    BY <1>1, <1>2, <1>3, <1>4 DEF Command

\* No command is under way at first, and nobody is muted.
LEMMA InitIndInv == Init => IndInv
  <1> SUFFICES ASSUME Init PROVE IndInv
    OBVIOUS
  <1>1. NoCommand \in Command
    BY DEF NoCommand, Command
  <1>2. NotAsked \in [at: 0 .. MaxNow, days: Days \cup {0}] /\ NotAsked.at = 0 /\ NotAsked.days = 0
    BY ConsoleAssumption DEF NotAsked
  <1>3. log = <<>> /\ DOMAIN log = {} /\ now = 0 /\ now \in 0 .. MaxNow /\ zone \in {"utc", "summer"}
    BY ConsoleAssumption DEF Init
  <1>4. locked \in [Threads -> BOOLEAN] /\ DOMAIN muted = Users /\ told \in [Targets -> BOOLEAN]
    BY Zenon DEF Init
  <1>5. pc \in [Requests -> {"idle", "effect", "log"}] /\ cmd \in [Requests -> Command]
    BY <1>1 DEF Init
  <1>6. asked \in [Users -> [at: 0 .. MaxNow, days: Days \cup {0}]]
    BY <1>2 DEF Init
  <1>7. Typed
    BY <1>3, <1>4, <1>5, <1>6 DEF Typed
  <1>8. ASSUME NEW u \in Users PROVE MutedAsAsked(u)
    <2>1. asked[u] = NotAsked /\ muted[u] = Nil
      BY DEF Init
    <2> QED
      BY <1>2, <1>3, <2>1 DEF MutedAsAsked
  <1> QED
    BY <1>7, <1>8 DEF IndInv

\* A command taken up, one that failed, its entry, a stop: nobody's mute changes.
LEMMA Unmuted ==
  ASSUME IndInv, UNCHANGED <<locked, muted, now, zone, asked>>,
         pc' \in [Requests -> {"idle", "effect", "log"}], cmd' \in [Requests -> Command],
         told' \in [Targets -> BOOLEAN],
         \A k \in DOMAIN log' : log'[k].cmd \in Command /\ log'[k].at \in 0 .. now
  PROVE  IndInv'
  <1>1. Typed'
    BY DEF IndInv, Typed
  <1>2. \A u \in Users : MutedAsAsked(u)'
    BY DEF IndInv, MutedAsAsked
  <1> QED
    BY <1>1, <1>2 DEF IndInv

\* A command is taken up.
LEMMA ConsoleCommandStep ==
  ASSUME IndInv, NEW r \in Requests, NEW c \in Command, ConsoleCommand(r, c)
  PROVE  IndInv'
  <1>1. pc' \in [Requests -> {"idle", "effect", "log"}]
    BY DEF ConsoleCommand, IndInv, Typed
  <1>2. cmd' \in [Requests -> Command]
    BY DEF ConsoleCommand, IndInv, Typed
  <1>3. UNCHANGED <<locked, muted, log, now, zone, told, asked>>
    BY DEF ConsoleCommand
  <1> QED
    BY <1>1, <1>2, <1>3, Unmuted DEF IndInv, Typed

\* A command has its effect: a mute for days is written with its end.
LEMMA CommandDoneStep ==
  ASSUME IndInv, NEW r \in Requests, CommandDone(r)
  PROVE  IndInv'
  <1> DEFINE c == cmd[r]
             to == [at |-> now, days |-> c.days]
  <1>1. c \in Command
    BY DEF IndInv, Typed
  <1>2. UNCHANGED <<log, cmd, now, zone>> /\ Accepted(c) /\ Effect(c)
    BY DEF CommandDone, ToLog
  <1>3. pc' \in [Requests -> {"idle", "effect", "log"}]
    BY DEF CommandDone, ToLog, IndInv, Typed
  <1>4. told' \in [Targets -> BOOLEAN]
    <2>1. told' = [x \in Targets |-> IF x = c.target THEN Unlogged(x) = {} ELSE told[x]]
      BY DEF CommandDone
    <2>2. \A x \in Targets : told[x] \in BOOLEAN
      BY DEF IndInv, Typed
    <2>3. \A x \in Targets : (IF x = c.target THEN Unlogged(x) = {} ELSE told[x]) \in BOOLEAN
      BY <2>2, Zenon
    <2> QED
      BY <2>1, <2>3
  <1>5. asked' = [u \in Users |-> IF u = c.target THEN to ELSE asked[u]]
    BY DEF CommandDone
  <1>6. to \in [at: 0 .. MaxNow, days: Days \cup {0}] /\ to.at = now /\ to.days = c.days
    BY <1>1, Commands DEF IndInv, Typed
  <1>7. now \in 0 .. MaxNow
    BY DEF IndInv, Typed
  <1> HIDE DEF c, to
  <1>8. locked' \in [Threads -> BOOLEAN]
    <2>1. locked' = IF c.target \in Threads THEN [locked EXCEPT ![c.target] = (c.kind = "lock")] ELSE locked
      BY <1>2 DEF Effect
    <2>2. locked \in [Threads -> BOOLEAN] /\ (c.kind = "lock") \in BOOLEAN
      BY Zenon DEF IndInv, Typed
    <2> QED
      BY <2>1, <2>2, Zenon
  <1>9. asked' \in [Users -> [at: 0 .. MaxNow, days: Days \cup {0}]]
    BY <1>5, <1>6 DEF IndInv, Typed
  <1>10. /\ DOMAIN muted' = Users
         /\ \A u \in Users \ {c.target} : muted'[u] = muted[u]
         /\ c.target \in Users => /\ c.kind = "mute" => muted'[c.target] = WhenToUnban(c.days)
                                  /\ c.kind = "permanent" => muted'[c.target] = Permanent
                                  /\ c.kind = "unmute" => muted'[c.target] = Nil
    <2>1. DOMAIN muted = Users
      BY DEF IndInv, Typed
    <2> DEFINE to2 == CASE c.kind = "mute" -> WhenToUnban(c.days)
                        [] c.kind = "permanent" -> Permanent
                        [] c.kind = "unmute" -> Nil
    <2>2. muted' = IF c.target \in Users THEN [muted EXCEPT ![c.target] = to2] ELSE muted
      BY <1>2 DEF Effect
    <2>3. /\ c.kind = "mute" => to2 = WhenToUnban(c.days)
          /\ c.kind = "permanent" => to2 = Permanent
          /\ c.kind = "unmute" => to2 = Nil
      OBVIOUS
    <2> HIDE DEF to2
    <2> QED
      BY <2>1, <2>2, <2>3
  <1>11. Typed'
    BY <1>1, <1>2, <1>3, <1>4, <1>8, <1>9, <1>10 DEF IndInv, Typed, c
  <1>12. ASSUME NEW u \in Users PROVE MutedAsAsked(u)'
    <2>1. CASE u # c.target
      <3>1. asked'[u] = asked[u] /\ muted'[u] = muted[u] /\ now' = now
        BY <1>2, <1>5, <1>10, <2>1
      <3> QED
        BY <3>1 DEF IndInv, MutedAsAsked
    <2>2. CASE u = c.target
      <3>1. asked'[u].at = now /\ asked'[u].days = c.days /\ now' = now
        BY <1>2, <1>5, <1>6, <2>2
      <3>2. c.kind \in {"permanent", "unmute", "mute"} /\ (c.kind # "mute" => c.days = 0) /\ c.days \in Int
        BY <1>1, <2>2, Commands
      <3>3. CASE c.kind = "mute"
        <4>1. c.days > 0
          BY <1>2, <3>3 DEF Accepted
        <4>2. muted'[u] = (now + Wrap(DayTicks * c.days)) \div TickPerSecond
          BY <1>10, <2>2, <3>3 DEF WhenToUnban
        <4>3. asked'[u].at <= now' /\ asked'[u].days >= 0 /\ asked'[u].days # 0
          BY <1>7, <3>1, <3>2, <4>1
        <4>4. muted'[u] = (asked'[u].at + Wrap(DayTicks * asked'[u].days)) \div TickPerSecond
          BY <3>1, <4>2
        <4> QED
          BY <4>3, <4>4 DEF MutedAsAsked
      <3>4. CASE c.kind # "mute"
        <4>1. muted'[u] \in {Nil, Permanent}
          BY <1>10, <2>2, <3>2, <3>4
        <4>2. asked'[u].at <= now' /\ asked'[u].days = 0
          BY <1>7, <3>1, <3>2, <3>4
        <4> QED
          BY <4>1, <4>2 DEF MutedAsAsked
      <3> QED
        BY <3>3, <3>4
    <2> QED
      BY <2>1, <2>2
  <1> QED
    BY <1>11, <1>12 DEF IndInv

\* A command that has none, and goes to the log as well.
LEMMA CommandRefusedStep ==
  ASSUME IndInv, NEW r \in Requests, CommandRefused(r)
  PROVE  IndInv'
  <1>1. UNCHANGED <<locked, muted, log, cmd, now, zone, asked>>
    BY DEF CommandRefused, ToLog
  <1>2. pc' \in [Requests -> {"idle", "effect", "log"}]
    BY DEF CommandRefused, ToLog, IndInv, Typed
  <1>3. told' \in [Targets -> BOOLEAN]
    BY Zenon DEF CommandRefused
  <1> QED
    BY <1>1, <1>2, <1>3, Unmuted DEF IndInv, Typed

\* The entry of a command, or the error in its place.
LEMMA LogStep ==
  ASSUME IndInv, NEW r \in Requests, LogConsoleCommand(r) \/ LogFails(r)
  PROVE  IndInv'
  <1>1. UNCHANGED <<locked, muted, now, zone, asked>>
    BY DEF LogConsoleCommand, LogFails
  <1>2. pc' \in [Requests -> {"idle", "effect", "log"}]
    BY DEF LogConsoleCommand, LogFails, IndInv, Typed
  <1>3. cmd' \in [Requests -> Command]
    <2>1. NoCommand \in Command
      BY DEF NoCommand, Command
    <2> QED
      BY <2>1 DEF LogConsoleCommand, LogFails, IndInv, Typed
  <1>4. told' \in [Targets -> BOOLEAN]
    BY Zenon DEF LogConsoleCommand, LogFails
  <1>5. \A k \in DOMAIN log' : log'[k].cmd \in Command /\ log'[k].at \in 0 .. now
    <2>1. CASE LogConsoleCommand(r)
      <3> DEFINE key == RFC3339Nano(now)
                 e == [cmd |-> cmd[r], at |-> now]
      <3>1. log' = Put(log, key, e)
        BY <2>1 DEF LogConsoleCommand
      <3>2. e.cmd \in Command /\ e.at \in 0 .. now
        BY DEF IndInv, Typed
      <3> HIDE DEF key, e
      <3> QED
        BY <3>1, <3>2 DEF Put, IndInv, Typed
    <2>2. CASE LogFails(r)
      BY <2>2 DEF LogFails, IndInv, Typed
    <2> QED
      BY <2>1, <2>2
  <1> QED
    BY <1>1, <1>2, <1>3, <1>4, <1>5, Unmuted

\* A stop: the commands under way are gone.
LEMMA CrashStep ==
  ASSUME IndInv, Crash
  PROVE  IndInv'
  <1>1. UNCHANGED <<locked, muted, log, now, zone, asked>>
    BY DEF Crash
  <1>2. pc' \in [Requests -> {"idle", "effect", "log"}]
    BY DEF Crash
  <1>3. cmd' \in [Requests -> Command]
    <2>1. NoCommand \in Command
      BY DEF NoCommand, Command
    <2> QED
      BY <2>1 DEF Crash
  <1>4. told' \in [Targets -> BOOLEAN]
    BY Zenon DEF Crash
  <1> QED
    BY <1>1, <1>2, <1>3, <1>4, Unmuted DEF IndInv, Typed

\* The clock goes on.
LEMMA TimePassesStep ==
  ASSUME IndInv, TimePasses
  PROVE  IndInv'
  <1>1. /\ UNCHANGED <<locked, muted, log, pc, cmd, zone, told, asked>>
        /\ now' \in 0 .. MaxNow /\ now <= now' /\ now \in Int
    BY ConsoleAssumption DEF TimePasses, IndInv, Typed
  <1>2. \A k \in DOMAIN log' : log'[k].cmd \in Command /\ log'[k].at \in 0 .. now'
    BY <1>1 DEF IndInv, Typed
  <1>3. Typed'
    BY <1>1, <1>2 DEF IndInv, Typed
  <1>4. ASSUME NEW u \in Users PROVE MutedAsAsked(u)'
    <2>1. asked[u].at \in 0 .. MaxNow
      BY DEF IndInv, Typed
    <2> QED
      BY <1>1, <2>1, ConsoleAssumption DEF IndInv, MutedAsAsked
  <1> QED
    BY <1>3, <1>4 DEF IndInv

\* Every step keeps the invariant.
LEMMA NextIndInv == IndInv /\ [Next]_vars => IndInv'
  <1> SUFFICES ASSUME IndInv, [Next]_vars PROVE IndInv'
    OBVIOUS
  <1>1. CASE UNCHANGED vars
    BY <1>1, Unmuted DEF vars, IndInv, Typed
  <1>2. CASE Next
    BY <1>2, ConsoleCommandStep, CommandDoneStep, CommandRefusedStep, LogStep, CrashStep, TimePassesStep DEF Next
  <1> QED
    BY <1>1, <1>2

\* The invariant holds in every state.
LEMMA Invariant == Spec => []IndInv
  BY InitIndInv, NextIndInv, PTL DEF Spec
-----------------------------------------------------------------------------
(***************************************************************************)
(* The steps and the log.                                                  *)
(***************************************************************************)
\* Shows, of a state with these locks and mutes.
ShownBy(c, l, m) ==
  CASE c.kind = "lock" -> l[c.target]
    [] c.kind = "unlock" -> ~ l[c.target]
    [] c.kind = "permanent" -> m[c.target] = Permanent
    [] c.kind = "unmute" -> m[c.target] = Nil
    [] c.kind = "mute" -> m[c.target] \in Int

\* Nothing of x has changed.
Untouched(x) == (x \in Threads => locked'[x] = locked[x]) /\ (x \in Users => muted'[x] = muted[x])

\* What a command about a thread or a user is.
LEMMA Kinds ==
  ASSUME NEW c \in Command, c.target \in Targets
  PROVE  \/ c.target \in Threads /\ c.kind \in {"lock", "unlock"}
         \/ c.target \in Users /\ c.kind \in {"permanent", "unmute", "mute"}
  <1>1. CASE c \in [kind: {"lock", "unlock"}, target: Threads, days: {0}]
    BY <1>1
  <1>2. CASE c \in [kind: {"permanent", "unmute"}, target: Users, days: {0}]
    BY <1>2
  <1>3. CASE c \in [kind: {"mute"}, target: Users, days: Days]
    BY <1>3
  <1>4. CASE c \in [kind: {"other"}, target: {Nil}, days: {0}]
    BY <1>4, ConsoleAssumption
  <1> QED
    BY <1>1, <1>2, <1>3, <1>4 DEF Command

\* What shows goes on to show while its target is untouched.
LEMMA ShowsOn ==
  ASSUME NEW c \in Command, c.target \in Targets, Untouched(c.target), Shows(c)
  PROVE  ShownBy(c, locked', muted')
  <1>1. CASE c.target \in Threads /\ c.kind = "lock"
    BY <1>1 DEF Untouched, Shows, ShownBy
  <1>2. CASE c.target \in Threads /\ c.kind = "unlock"
    BY <1>2 DEF Untouched, Shows, ShownBy
  <1>3. CASE c.target \in Users /\ c.kind = "permanent"
    BY <1>3 DEF Untouched, Shows, ShownBy
  <1>4. CASE c.target \in Users /\ c.kind = "unmute"
    BY <1>4 DEF Untouched, Shows, ShownBy
  <1>5. CASE c.target \in Users /\ c.kind = "mute"
    BY <1>5 DEF Untouched, Shows, ShownBy
  <1> QED
    BY <1>1, <1>2, <1>3, <1>4, <1>5, Kinds

\* The newest entry about x stays so while the log and x do.
LEMMA NewestStays ==
  ASSUME Typed, NEW x \in Targets, Untouched(x), log' = log, Newest(x)
  PROVE  Newest(x)'
  <1>1. PICK k \in DOMAIN log :
          /\ log[k].cmd.target = x /\ Shows(log[k].cmd)
          /\ \A j \in DOMAIN log \ {k} : log[j].cmd.target = x => log[j].at < log[k].at
    BY DEF Newest
  <1>2. log[k].cmd \in Command
    BY DEF Typed
  <1>3. ShownBy(log[k].cmd, locked', muted')
    BY <1>1, <1>2, ShowsOn
  <1>4. Shows(log[k].cmd)'
    BY <1>3 DEF Shows, ShownBy
  <1> QED
    BY <1>1, <1>4 DEF Newest

\* What the log says or will say of x stays true in a step that leaves alone x, the
\* log and the commands about x that are yet to be logged.
LEMMA SaidStays ==
  ASSUME Typed, NEW x \in Targets, Said(x), Untouched(x), log' = log,
         Unlogged(x)' = Unlogged(x), \A r \in Unlogged(x) : cmd'[r] = cmd[r]
  PROVE  Said(x)'
  <1>1. CASE \E r \in Requests : Unlogged(x) = {r} /\ Shows(cmd[r])
    <2>1. PICK r \in Requests : Unlogged(x) = {r} /\ Shows(cmd[r])
      BY <1>1
    <2>2. cmd[r].target = x /\ cmd[r] \in Command /\ cmd'[r] = cmd[r]
      BY <2>1 DEF Unlogged, Typed
    <2>3. ShownBy(cmd[r], locked', muted')
      BY <2>1, <2>2, ShowsOn
    <2>4. Shows(cmd[r])'
      BY <2>2, <2>3 DEF Shows, ShownBy
    <2> QED
      BY <2>1, <2>4 DEF Said
  <1>2. CASE Unlogged(x) = {} /\ Newest(x)
    BY <1>2, NewestStays DEF Said
  <1> QED
    BY <1>1, <1>2 DEF Said

\* The text of a time depends on the zone alone.
LEMMA SameText == ASSUME zone' = zone, NEW t PROVE RFC3339Nano(t)' = RFC3339Nano(t)
  <1>1. Wall(t)' = Wall(t) /\ Offset(t)' = Offset(t) /\ Second(t)' = Second(t)
    BY DEF Wall, Offset, Second
  <1>2. FractionDigits(t)' = FractionDigits(t)
    BY <1>1 DEF FractionDigits
  <1> QED
    BY <1>1, <1>2 DEF RFC3339Nano, Zone, Fraction

\* The keys are right as long as no entry is made.
LEMMA KeysStay == ASSUME KeysOK, zone' = zone, log' = log PROVE KeysOK'
  <1>1. \A t : RFC3339Nano(t)' = RFC3339Nano(t)
    BY SameText
  <1> QED
    BY <1>1 DEF KeysOK

\* No entry is made at first.
LEMMA InitLogInv == Init => LogInv
  <1> SUFFICES ASSUME Init PROVE LogInv
    OBVIOUS
  <1>1. DOMAIN log = {} /\ Underway = {}
    BY DEF Init, Underway
  <1>2. IsFiniteSet({}) /\ Cardinality({}) = 0
    BY FS_EmptySet
  <1>3. KeysOK
    BY <1>1, <1>2 DEF KeysOK
  <1>4. RoomOK
    BY <1>1, <1>2, ConsoleAssumption DEF RoomOK
  <1>5. \A x \in Targets : ~ told[x]
    BY DEF Init
  <1> QED
    BY <1>3, <1>4, <1>5 DEF LogInv

\* A command is taken up where there is room for its entry.
LEMMA ConsoleCommandLogs ==
  ASSUME Typed, LogInv, NEW r \in Requests, NEW c \in Command, ConsoleCommand(r, c)
  PROVE  LogInv'
  <1>1. UNCHANGED <<locked, muted, log, now, zone, told, asked>>
    BY DEF ConsoleCommand
  <1>2. /\ pc[r] = "idle" /\ pc' = [pc EXCEPT ![r] = "effect"] /\ cmd' = [cmd EXCEPT ![r] = c]
        /\ DOMAIN pc = Requests /\ DOMAIN cmd = Requests
    BY DEF ConsoleCommand, Typed
  <1>3. RoomOK'
    <2>1. Underway' = Underway \cup {r} /\ r \notin Underway
      BY <1>2 DEF Underway
    <2>2. IsFiniteSet(Underway) /\ IsFiniteSet(DOMAIN log)
      BY DEF LogInv, RoomOK, KeysOK
    <2>3. IsFiniteSet(Underway') /\ Cardinality(Underway') = Cardinality(Underway) + 1
      BY <2>1, <2>2, FS_AddElement
    <2>4. Cardinality(Underway) \in Nat /\ Cardinality(DOMAIN log) \in Nat /\ MaxEntries \in Nat
      BY <2>2, FS_CardinalityType, ConsoleAssumption
    <2>5. Cardinality(DOMAIN log) + Cardinality(Underway) < MaxEntries
      BY DEF ConsoleCommand
    <2> QED
      BY <1>1, <2>3, <2>4, <2>5 DEF RoomOK
  <1>4. ASSUME NEW x \in Targets, told'[x] PROVE Said(x)'
    <2>1. Unlogged(x)' = Unlogged(x) /\ r \notin Unlogged(x)
      BY <1>2 DEF Unlogged
    <2>2. \A q \in Unlogged(x) : cmd'[q] = cmd[q]
      BY <1>2, <2>1
    <2>3. Said(x)
      BY <1>1, <1>4 DEF LogInv
    <2> QED
      BY <1>1, <2>1, <2>2, <2>3, SaidStays DEF Untouched
  <1> QED
    BY <1>1, <1>3, <1>4, KeysStay DEF LogInv

\* The effect of a command, or its failure, leaves the commands under way as many.
LEMMA EffectTried ==
  ASSUME Typed, LogInv, NEW r \in Requests, ToLog(r)
  PROVE  /\ KeysOK' /\ RoomOK' /\ log' = log /\ cmd' = cmd
         /\ \A x \in Targets : /\ x # cmd[r].target => Unlogged(x)' = Unlogged(x)
                               /\ x = cmd[r].target => Unlogged(x)' = Unlogged(x) \cup {r}
  <1>1. UNCHANGED <<log, cmd, now, zone>> /\ pc[r] = "effect" /\ pc' = [pc EXCEPT ![r] = "log"] /\ DOMAIN pc = Requests
    BY DEF ToLog, Typed
  <1>2. Underway' = Underway
    BY <1>1 DEF Underway
  <1>3. RoomOK'
    BY <1>1, <1>2 DEF LogInv, RoomOK
  <1>4. KeysOK'
    BY <1>1, KeysStay DEF LogInv
  <1>5. ASSUME NEW x \in Targets
        PROVE  /\ x # cmd[r].target => Unlogged(x)' = Unlogged(x)
               /\ x = cmd[r].target => Unlogged(x)' = Unlogged(x) \cup {r}
    BY <1>1 DEF Unlogged
  <1> QED
    BY <1>1, <1>3, <1>4, <1>5

\* What a command has done shows.
LEMMA EffectShows ==
  ASSUME Typed, NEW c \in Command, c.target \in Targets, Effect(c)
  PROVE  ShownBy(c, locked', muted')
  <1>1. locked \in [Threads -> BOOLEAN] /\ DOMAIN muted = Users
    BY DEF Typed
  <1>2. Threads \cap Users = {}
    BY ConsoleAssumption
  <1>3. CASE c.target \in Threads /\ c.kind \in {"lock", "unlock"}
    <2>1. locked'[c.target] = (c.kind = "lock")
      BY <1>1, <1>3 DEF Effect
    <2> QED
      BY <1>3, <2>1 DEF ShownBy
  <1>4. CASE c.target \in Users /\ c.kind = "permanent"
    BY <1>1, <1>4 DEF Effect, ShownBy
  <1>5. CASE c.target \in Users /\ c.kind = "unmute"
    BY <1>1, <1>5 DEF Effect, ShownBy
  <1>6. CASE c.target \in Users /\ c.kind = "mute"
    <2>1. muted'[c.target] = WhenToUnban(c.days)
      BY <1>1, <1>6 DEF Effect
    <2>2. c.days \in Int /\ now \in Int
      BY Commands DEF Typed
    <2>3. Wrap(DayTicks * c.days) \in Int
      BY <2>2, Lengths, Wrapped
    <2>4. now + Wrap(DayTicks * c.days) \in Int
      BY <2>2, <2>3
    <2>5. WhenToUnban(c.days) \in Int
      BY <2>4, Division, Ticks DEF WhenToUnban
    <2> QED
      BY <1>6, <2>1, <2>5 DEF ShownBy
  <1> QED
    BY <1>3, <1>4, <1>5, <1>6, Kinds

\* A command has its effect: it shows, and is about to be logged.
LEMMA CommandDoneLogs ==
  ASSUME Typed, LogInv, NEW r \in Requests, CommandDone(r)
  PROVE  LogInv'
  <1> DEFINE c == cmd[r]
  <1>1. c \in Command /\ ToLog(r) /\ Accepted(c) /\ Effect(c)
    BY DEF CommandDone, Typed
  <1>2. \A x \in Targets : told'[x] = IF x = c.target THEN Unlogged(x) = {} ELSE told[x]
    BY DEF CommandDone
  <1>3. /\ KeysOK' /\ RoomOK' /\ log' = log /\ cmd' = cmd
        /\ \A x \in Targets : /\ x # c.target => Unlogged(x)' = Unlogged(x)
                              /\ x = c.target => Unlogged(x)' = Unlogged(x) \cup {r}
    BY <1>1, EffectTried
  <1> HIDE DEF c
  <1>4. ASSUME NEW x \in Targets, told'[x], x # c.target PROVE Said(x)'
    <2>1. told[x] /\ Said(x)
      BY <1>2, <1>4, Zenon DEF LogInv
    <2>2. Untouched(x)
      BY <1>1, <1>4 DEF Effect, Untouched, Typed
    <2> QED
      BY <1>3, <1>4, <2>1, <2>2, SaidStays
  <1>5. ASSUME NEW x \in Targets, told'[x], x = c.target PROVE Said(x)'
    <2>1. Unlogged(x) = {}
      BY <1>2, <1>5, Zenon
    <2>2. Unlogged(x)' = {r}
      BY <1>3, <1>5, <2>1
    <2>3. ShownBy(c, locked', muted')
      BY <1>1, <1>5, EffectShows
    <2>4. Shows(cmd[r])'
      BY <1>3, <2>3 DEF Shows, ShownBy, c
    <2> QED
      BY <2>2, <2>4 DEF Said
  <1> QED
    BY <1>3, <1>4, <1>5 DEF LogInv

\* A command that failed says nothing of its target any more.
LEMMA CommandRefusedLogs ==
  ASSUME Typed, LogInv, NEW r \in Requests, CommandRefused(r)
  PROVE  LogInv'
  <1> DEFINE c == cmd[r]
  <1>1. ToLog(r) /\ UNCHANGED <<locked, muted, asked>>
    BY DEF CommandRefused
  <1>2. \A x \in Targets : told'[x] <=> told[x] /\ x # c.target
    BY Zenon DEF CommandRefused
  <1>3. /\ KeysOK' /\ RoomOK' /\ log' = log /\ cmd' = cmd
        /\ \A x \in Targets : x # c.target => Unlogged(x)' = Unlogged(x)
    BY <1>1, EffectTried
  <1> HIDE DEF c
  <1>4. ASSUME NEW x \in Targets, told'[x] PROVE Said(x)'
    <2>1. told[x] /\ x # c.target
      BY <1>2, <1>4, Zenon
    <2>2. Said(x)
      BY <2>1 DEF LogInv
    <2> QED
      BY <1>1, <1>3, <2>1, <2>2, SaidStays DEF Untouched
  <1> QED
    BY <1>3, <1>4 DEF LogInv

\* A command that is logged, or whose entry fails, is no longer under way.
LEMMA NoLongerUnderway ==
  ASSUME Typed, LogInv, NEW r \in Requests, pc[r] = "log",
         pc' = [pc EXCEPT ![r] = "idle"], cmd' = [cmd EXCEPT ![r] = NoCommand]
  PROVE  /\ IsFiniteSet(Underway') /\ Cardinality(Underway') = Cardinality(Underway) - 1
         /\ r \in Unlogged(cmd[r].target)
         /\ \A x \in Targets : /\ x # cmd[r].target => Unlogged(x)' = Unlogged(x)
                               /\ x = cmd[r].target => Unlogged(x)' = Unlogged(x) \ {r}
         /\ \A q \in Requests \ {r} : cmd'[q] = cmd[q]
  <1>1. DOMAIN pc = Requests /\ DOMAIN cmd = Requests
    BY DEF Typed
  <1>2. Underway' = Underway \ {r} /\ r \in Underway
    BY <1>1 DEF Underway
  <1>3. IsFiniteSet(Underway') /\ Cardinality(Underway') = Cardinality(Underway) - 1
    BY <1>2, FS_RemoveElement DEF LogInv, RoomOK
  <1>4. r \in Unlogged(cmd[r].target) /\ \A q \in Requests \ {r} : cmd'[q] = cmd[q] /\ pc'[q] = pc[q]
    BY <1>1 DEF Unlogged
  <1>5. ASSUME NEW x \in Targets
        PROVE  /\ x # cmd[r].target => Unlogged(x)' = Unlogged(x)
               /\ x = cmd[r].target => Unlogged(x)' = Unlogged(x) \ {r}
    BY <1>1, <1>4 DEF Unlogged
  <1> QED
    BY <1>3, <1>4, <1>5

\* An entry is made.  It is the newest about its target, and overwrites at most one of
\* the same instant: what is told of another target has kept its newest entry.
LEMMA EntryLogs ==
  ASSUME Typed, LogInv, NEW r \in Requests, LogConsoleCommand(r)
  PROVE  LogInv'
  <1> DEFINE c == cmd[r]
             e == [cmd |-> c, at |-> now]
  <1>1. PICK key : key = RFC3339Nano(now)
    OBVIOUS
  <1>2. /\ pc[r] = "log" /\ pc' = [pc EXCEPT ![r] = "idle"] /\ cmd' = [cmd EXCEPT ![r] = NoCommand]
        /\ UNCHANGED <<locked, muted, now, zone, asked>>
    BY DEF LogConsoleCommand
  <1>3. \A x \in Targets : told'[x] <=> told[x] /\ (x = c.target \/ ~ SameInstant(x))
    BY Zenon DEF LogConsoleCommand
  <1>4. log' = Put(log, key, e)
    BY <1>1 DEF LogConsoleCommand
  <1>5. e.cmd = c /\ e.at = now /\ now \in Nat /\ c \in Command
    BY DEF Typed
  <1>6. \A k \in DOMAIN log : log[k].at \in 0 .. now /\ log[k].cmd \in Command /\ k = RFC3339Nano(log[k].at)
    BY DEF Typed, LogInv, KeysOK
  <1>7. /\ IsFiniteSet(Underway') /\ Cardinality(Underway') = Cardinality(Underway) - 1
        /\ r \in Unlogged(c.target)
        /\ \A x \in Targets : /\ x # c.target => Unlogged(x)' = Unlogged(x)
                              /\ x = c.target => Unlogged(x)' = Unlogged(x) \ {r}
        /\ \A q \in Requests \ {r} : cmd'[q] = cmd[q]
    BY <1>2, NoLongerUnderway
  <1>8. \A k \in DOMAIN log : k = key => log[k].at = now
    <2>1. ASSUME NEW k \in DOMAIN log, k = key PROVE log[k].at = now
      <3>1. RFC3339Nano(log[k].at) = RFC3339Nano(now) /\ log[k].at \in Nat
        BY <1>5, <1>6, <1>1, <2>1
      <3> QED
        BY <1>5, <3>1, TextsDiffer
    <2> QED
      BY <2>1
  <1>9. \A k \in DOMAIN log : log[k].at = now => k = key
    BY <1>6, <1>1
  <1>10. \A t : RFC3339Nano(t)' = RFC3339Nano(t)
    BY <1>2, SameText
  <1> HIDE DEF c, e
  <1>11. DOMAIN log' = DOMAIN log \cup {key} /\ log'[key] = e /\ \A k \in DOMAIN log \ {key} : log'[k] = log[k]
    BY <1>4 DEF Put
  <1>12. KeysOK'
    <2>1. IsFiniteSet(DOMAIN log')
      BY <1>11, FS_AddElement DEF LogInv, KeysOK
    <2>2. ASSUME NEW k \in DOMAIN log' PROVE k = RFC3339Nano(log'[k].at)
      BY <1>5, <1>6, <1>1, <1>11, <2>2
    <2> QED
      BY <1>10, <2>1, <2>2 DEF KeysOK
  <1>13. RoomOK'
    <2>1. IsFiniteSet(DOMAIN log) /\ IsFiniteSet(Underway)
      BY DEF LogInv, KeysOK, RoomOK
    <2>2. Cardinality(DOMAIN log) \in Nat /\ Cardinality(Underway) \in Nat /\ MaxEntries \in Nat
      BY <2>1, FS_CardinalityType, ConsoleAssumption
    <2>3. Cardinality(DOMAIN log') = Cardinality(DOMAIN log) \/ Cardinality(DOMAIN log') = Cardinality(DOMAIN log) + 1
      BY <1>11, <2>1, FS_AddElement
    <2>4. Cardinality(DOMAIN log) + Cardinality(Underway) <= MaxEntries
      BY DEF LogInv, RoomOK
    <2> QED
      BY <1>7, <2>2, <2>3, <2>4 DEF RoomOK
  <1>14. ASSUME NEW x \in Targets, told'[x], x = c.target PROVE Said(x)'
    <2>1. told[x] /\ Said(x)
      BY <1>3, <1>14, Zenon DEF LogInv
    <2>2. Unlogged(x) = {r} /\ Shows(c)
      BY <1>7, <1>14, <2>1 DEF Said, c
    <2>3. Unlogged(x)' = {}
      BY <1>7, <1>14, <2>2
    <2>4. ShownBy(c, locked', muted')
      BY <1>2, <1>5, <1>14, <2>2, ShowsOn DEF Untouched
    <2>5. log'[key].cmd = c /\ log'[key].at = now /\ key \in DOMAIN log'
      BY <1>5, <1>11
    <2>6. Shows(log[key].cmd)'
      BY <2>4, <2>5 DEF Shows, ShownBy
    <2>7. ASSUME NEW j \in DOMAIN log' \ {key} PROVE log'[j].at < log'[key].at
      <3>1. j \in DOMAIN log /\ log'[j] = log[j] /\ log[j].at # now
        BY <1>9, <1>11
      <3>2. log[j].at \in 0 .. now
        BY <1>6, <3>1
      <3> QED
        BY <1>5, <2>5, <3>1, <3>2
    <2>8. Newest(x)'
      BY <1>5, <1>14, <2>5, <2>6, <2>7 DEF Newest
    <2> QED
      BY <2>3, <2>8 DEF Said
  <1>15. ASSUME NEW x \in Targets, told'[x], x # c.target PROVE Said(x)'
    <2>1. told[x] /\ ~ SameInstant(x) /\ Said(x)
      BY <1>3, <1>15, Zenon DEF LogInv
    <2>2. Unlogged(x)' = Unlogged(x) /\ r \notin Unlogged(x)
      BY <1>7, <1>15 DEF Unlogged, c
    <2>3. Untouched(x)
      BY <1>2 DEF Untouched
    <2>4. CASE \E q \in Requests : Unlogged(x) = {q} /\ Shows(cmd[q])
      <3>1. PICK q \in Requests : Unlogged(x) = {q} /\ Shows(cmd[q])
        BY <2>4
      <3>2. cmd[q].target = x /\ cmd[q] \in Command /\ cmd'[q] = cmd[q]
        BY <1>7, <2>2, <3>1 DEF Unlogged, Typed
      <3>3. ShownBy(cmd[q], locked', muted')
        BY <2>3, <3>1, <3>2, ShowsOn
      <3>4. Shows(cmd[q])'
        BY <3>2, <3>3 DEF Shows, ShownBy
      <3> QED
        BY <2>2, <3>1, <3>4 DEF Said
    <2>5. CASE Unlogged(x) = {} /\ Newest(x)
      <3>1. PICK k \in DOMAIN log :
              /\ log[k].cmd.target = x /\ Shows(log[k].cmd)
              /\ \A j \in DOMAIN log \ {k} : log[j].cmd.target = x => log[j].at < log[k].at
        BY <2>5 DEF Newest
      <3>2. k # key
        BY <1>8, <2>1, <3>1 DEF SameInstant
      <3>3. k \in DOMAIN log' /\ log'[k] = log[k]
        BY <1>11, <3>2
      <3>4. ShownBy(log[k].cmd, locked', muted')
        BY <1>6, <2>3, <3>1, ShowsOn
      <3>5. Shows(log[k].cmd)'
        BY <3>3, <3>4 DEF Shows, ShownBy
      <3>6. ASSUME NEW j \in DOMAIN log' \ {k}, log'[j].cmd.target = x PROVE log'[j].at < log'[k].at
        <4>1. j # key
          BY <1>5, <1>11, <1>15, <3>6
        <4>2. j \in DOMAIN log /\ log'[j] = log[j]
          BY <1>11, <4>1
        <4> QED
          BY <3>1, <3>3, <3>6, <4>2
      <3>7. Newest(x)'
        BY <3>1, <3>3, <3>5, <3>6 DEF Newest
      <3> QED
        BY <2>2, <2>5, <3>7 DEF Said
    <2> QED
      BY <2>1, <2>4, <2>5 DEF Said
  <1> QED
    BY <1>12, <1>13, <1>14, <1>15 DEF LogInv

\* The entry of a command fails: nothing is said of its target any more.
LEMMA LogFailsLogs ==
  ASSUME Typed, LogInv, NEW r \in Requests, LogFails(r)
  PROVE  LogInv'
  <1> DEFINE c == cmd[r]
  <1>1. /\ pc[r] = "log" /\ pc' = [pc EXCEPT ![r] = "idle"] /\ cmd' = [cmd EXCEPT ![r] = NoCommand]
        /\ UNCHANGED <<locked, muted, log, now, zone, asked>>
    BY DEF LogFails
  <1>2. \A x \in Targets : told'[x] <=> told[x] /\ x # c.target
    BY Zenon DEF LogFails
  <1>3. /\ IsFiniteSet(Underway') /\ Cardinality(Underway') = Cardinality(Underway) - 1
        /\ r \in Unlogged(c.target)
        /\ \A x \in Targets : x # c.target => Unlogged(x)' = Unlogged(x)
        /\ \A q \in Requests \ {r} : cmd'[q] = cmd[q]
    BY <1>1, NoLongerUnderway
  <1>4. RoomOK'
    <2>1. IsFiniteSet(DOMAIN log) /\ IsFiniteSet(Underway)
      BY DEF LogInv, KeysOK, RoomOK
    <2>2. Cardinality(DOMAIN log) \in Nat /\ Cardinality(Underway) \in Nat /\ MaxEntries \in Nat
      BY <2>1, FS_CardinalityType, ConsoleAssumption
    <2> QED
      BY <1>1, <1>3, <2>2 DEF LogInv, RoomOK
  <1>5. ASSUME NEW x \in Targets, told'[x] PROVE Said(x)'
    <2>1. told[x] /\ x # c.target
      BY <1>2, <1>5, Zenon
    <2>2. Said(x)
      BY <2>1 DEF LogInv
    <2>3. \A q \in Unlogged(x) : cmd'[q] = cmd[q]
      BY <1>3, <2>1 DEF Unlogged
    <2> QED
      BY <1>1, <1>3, <2>1, <2>2, <2>3, SaidStays DEF Untouched
  <1> QED
    BY <1>1, <1>4, <1>5, KeysStay DEF LogInv

\* A stop: what is told of is the entries.
LEMMA CrashLogs ==
  ASSUME Typed, LogInv, Crash
  PROVE  LogInv'
  <1>1. pc' = [q \in Requests |-> "idle"] /\ UNCHANGED <<locked, muted, log, now, zone, asked>>
    BY DEF Crash
  <1>2. \A x \in Targets : told'[x] <=> told[x] /\ Unlogged(x) = {}
    BY Zenon DEF Crash
  <1>3. Underway' = {} /\ \A x \in Targets : Unlogged(x)' = {}
    BY <1>1 DEF Underway, Unlogged
  <1>4. RoomOK'
    <2>1. IsFiniteSet({}) /\ Cardinality({}) = 0
      BY FS_EmptySet
    <2>2. Cardinality(DOMAIN log) \in Nat /\ Cardinality(Underway) \in Nat /\ MaxEntries \in Nat
      BY FS_CardinalityType, ConsoleAssumption DEF LogInv, KeysOK, RoomOK
    <2> QED
      BY <1>1, <1>3, <2>1, <2>2 DEF LogInv, RoomOK
  <1>5. ASSUME NEW x \in Targets, told'[x] PROVE Said(x)'
    <2>1. told[x] /\ Unlogged(x) = {}
      BY <1>2, <1>5, Zenon
    <2>2. Said(x)
      BY <2>1 DEF LogInv
    <2>3. Unlogged(x)' = Unlogged(x) /\ \A q \in Unlogged(x) : cmd'[q] = cmd[q]
      BY <1>3, <2>1
    <2> QED
      BY <1>1, <2>2, <2>3, SaidStays DEF Untouched
  <1> QED
    BY <1>1, <1>4, <1>5, KeysStay DEF LogInv

\* The clock goes on, or nothing happens.
LEMMA NothingLogs ==
  ASSUME Typed, LogInv, UNCHANGED <<locked, muted, log, pc, cmd, zone, told>>
  PROVE  LogInv'
  <1>1. Underway' = Underway /\ \A x \in Targets : Unlogged(x)' = Unlogged(x)
    BY DEF Underway, Unlogged
  <1>2. RoomOK'
    BY <1>1 DEF LogInv, RoomOK
  <1>3. ASSUME NEW x \in Targets, told'[x] PROVE Said(x)'
    <2>1. told[x]
      BY <1>3
    <2>2. Said(x)
      BY <2>1 DEF LogInv
    <2> QED
      BY <1>1, <2>2, SaidStays DEF Untouched
  <1> QED
    BY <1>2, <1>3, KeysStay DEF LogInv

\* Every step keeps it.
LEMMA NextLogInv == IndInv /\ LogInv /\ [Next]_vars => LogInv'
  <1> SUFFICES ASSUME IndInv, LogInv, [Next]_vars PROVE LogInv'
    OBVIOUS
  <1>1. Typed
    BY DEF IndInv
  <1>2. CASE UNCHANGED vars
    BY <1>1, <1>2, NothingLogs DEF vars
  <1>3. CASE \E r \in Requests, c \in Command : ConsoleCommand(r, c)
    BY <1>1, <1>3, ConsoleCommandLogs
  <1>4. CASE \E r \in Requests : CommandDone(r) \/ CommandRefused(r) \/ LogConsoleCommand(r) \/ LogFails(r)
    BY <1>1, <1>4, CommandDoneLogs, CommandRefusedLogs, EntryLogs, LogFailsLogs
  <1>5. CASE Crash
    BY <1>1, <1>5, CrashLogs
  <1>6. CASE TimePasses
    BY <1>1, <1>6, NothingLogs DEF TimePasses
  <1> QED
    BY <1>2, <1>3, <1>4, <1>5, <1>6 DEF Next

\* What the log is holds in every state.
LEMMA LogInvariant == Spec => [](IndInv /\ LogInv)
  <1>1. IndInv /\ LogInv /\ [Next]_vars => IndInv' /\ LogInv'
    BY NextIndInv, NextLogInv
  <1> QED
    BY <1>1, InitIndInv, InitLogInv, PTL DEF Spec
-----------------------------------------------------------------------------
(***************************************************************************)
(* The theorems.                                                           *)
(***************************************************************************)
\* What is kept of a mute is numbers.
LEMMA AskedNumbers ==
  ASSUME IndInv, NEW u \in Users
  PROVE  asked[u].at \in Int /\ asked[u].days \in Int /\ now \in Int
  <1>1. asked[u] \in [at: 0 .. MaxNow, days: Days \cup {0}]
    BY DEF IndInv, Typed
  <1>2. asked[u].at \in 0 .. MaxNow /\ asked[u].days \in Days \cup {0} /\ now \in 0 .. MaxNow
    BY <1>1 DEF IndInv, Typed
  <1>3. Days \cup {0} \subseteq Int
    BY ConsoleAssumption
  <1> QED
    BY <1>2, <1>3

\* The end of a mute is a number of seconds.
LEMMA EndOfMute ==
  ASSUME IndInv, NEW u \in Users, asked[u].days > 0
  PROVE  /\ asked[u].at \in Int /\ asked[u].days \in Int /\ now \in Int
         /\ DayTicks * asked[u].days \in Int /\ DayTicks * asked[u].days > 0
         /\ Wrap(DayTicks * asked[u].days) \in Int
         /\ muted[u] = (asked[u].at + Wrap(DayTicks * asked[u].days)) \div TickPerSecond
         /\ muted[u] \in Int
  <1>1. asked[u].at \in Int /\ asked[u].days \in Int /\ now \in Int
    BY AskedNumbers
  <1>2. DayTicks * asked[u].days \in Int /\ DayTicks * asked[u].days > 0
    BY <1>1, Lengths
  <1>3. Wrap(DayTicks * asked[u].days) \in Int
    BY <1>2, Wrapped
  <1>4. muted[u] = (asked[u].at + Wrap(DayTicks * asked[u].days)) \div TickPerSecond
    BY DEF IndInv, MutedAsAsked
  <1>5. muted[u] \in Int
    <2>1. asked[u].at + Wrap(DayTicks * asked[u].days) \in Int
      BY <1>1, <1>3
    <2> QED
      BY <1>4, <2>1, Division, Ticks
  <1> QED
    BY <1>1, <1>2, <1>3, <1>4, <1>5

\* Locks, mutes, the log and what is kept of them have their types.
THEOREM TypeCorrect == Spec => []TypeOK
  <1>1. ASSUME IndInv, NEW u \in Users
        PROVE  muted[u] \in {Nil, Permanent} \/ (muted[u] \in Int /\ asked[u].days > 0)
    <2>1. asked[u].days \in Int /\ asked[u].days >= 0
      BY <1>1, AskedNumbers DEF IndInv, MutedAsAsked
    <2>2. CASE asked[u].days = 0
      BY <1>1, <2>2 DEF IndInv, MutedAsAsked
    <2>3. CASE asked[u].days > 0
      BY <1>1, <2>3, EndOfMute
    <2> QED
      BY <2>1, <2>2, <2>3
  <1>2. IndInv => TypeOK
    BY <1>1 DEF IndInv, Typed, TypeOK
  <1> QED
    BY <1>2, Invariant, PTL

\* A mute for days, as many as a duration can hold, lasts as long as was asked, to the
\* second; whatever the zone, and whatever the resolution of the clock.
THEOREM Mutes == Spec => []MuteLastsAsAsked
  <1>1. ASSUME IndInv, NEW u \in Users, asked[u].days > 0, DayTicks * asked[u].days < 2 ^ (DurationBits - 1)
        PROVE  /\ now - asked[u].at <= DayTicks * asked[u].days - TickPerSecond => IsUserCurrentlyMuted(muted[u])
               /\ now - asked[u].at >= DayTicks * asked[u].days => ~ IsUserCurrentlyMuted(muted[u])
    <2> DEFINE length == DayTicks * asked[u].days
               at == asked[u].at
               m == muted[u]
               T == TickPerSecond
    <2>1. /\ at \in Int /\ now \in Int /\ length \in Int /\ length > 0 /\ m \in Int
          /\ m = (at + Wrap(length)) \div T /\ T \in Nat \ {0}
      BY <1>1, EndOfMute, Ticks
    <2>2. Wrap(length) = length
      BY <1>1, <2>1, Wrapped
    <2>3. IsUserCurrentlyMuted(m) <=> m * T > now
      BY <2>1, ConsoleAssumption DEF IsUserCurrentlyMuted
    <2> HIDE DEF length, at, m, T
    <2>4. T * m <= at + length /\ at + length < T * m + T
      BY <2>1, <2>2, Division
    <2>5. m * T = T * m /\ T * m \in Int
      BY <2>1
    <2>6. now - at <= length - T => m * T > now
      BY <2>1, <2>4, <2>5
    <2>7. now - at >= length => ~ (m * T > now)
      BY <2>1, <2>4, <2>5
    <2> QED
      BY <2>3, <2>6, <2>7 DEF length, at, m, T
  <1>2. IndInv => MuteLastsAsAsked
    BY <1>1 DEF MuteLastsAsAsked
  <1> QED
    BY <1>2, Invariant, PTL

\* Whoever reads the log meets its entries from the newest to the oldest, with the
\* trimmed fractions of one second, but where the texts of their times are unclear;
\* for every base and number of digits of the fraction.
THEOREM LogOrder == Spec => []ReadInOrder
  <1>1. IndInv /\ LogInv => ReadInOrder
    BY LogIsInOrder DEF IndInv, LogInv
  <1> QED
    BY <1>1, LogInvariant, PTL

\* Whoever reads the log meets first, of a thread or a user, the command that made it
\* what it is, as far as told says; for every number of requests and entries.
THEOREM Explained == Spec => []LogExplainsState
  <1>1. IndInv /\ LogInv => LogExplainsState
    BY LogExplains DEF IndInv
  <1> QED
    BY <1>1, LogInvariant, PTL
=============================================================================
