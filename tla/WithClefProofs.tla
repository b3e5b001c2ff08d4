----------------------------- MODULE WithClefProofs -----------------------------
(***************************************************************************)
(* Proofs about the conversion of one message: WithClef, for every width   *)
(* of the words, every number of digits and every length of a string, and  *)
(* at the end ChunkRead, the reader WithClef takes for granted.            *)
(***************************************************************************)
EXTENDS WithClef, ChunkRead, SequenceTheorems, WellFoundedInduction, TLAPS

-----------------------------------------------------------------------------
(* Powers of ten.                                                          *)

\* Induction on Nat, over sets: an operator cannot be a parameter.
LEMMA Induction ==
  ASSUME NEW S, 0 \in S, \A n \in Nat : n \in S => n + 1 \in S
  PROVE  Nat \subseteq S
<1> SUFFICES ASSUME NEW z \in Nat, z \notin S PROVE FALSE
  OBVIOUS
<1> DEFINE R == OpToRel(<, Nat)
           T == {n \in Nat : n \notin S}
<1>1. IsWellFoundedOn(R, Nat)
  BY NatLessThanWellFounded
<1>2. \A y, x \in Nat : y < x => <<y, x>> \in R
  BY DEF OpToRel
<1>0. T \subseteq Nat /\ T # {}
  OBVIOUS
<1> HIDE DEF R
<1>3. PICK x \in T : \A y \in T : ~(<<y, x>> \in R)
  <2> HIDE DEF T
  <2> QED BY <1>1, <1>0, WFMin
<1>4. x # 0 /\ x \in Nat
  OBVIOUS
<1>5. x - 1 \in Nat /\ x - 1 < x /\ (x - 1) + 1 = x
  BY <1>4
<1>6. x - 1 \notin S
  BY <1>4, <1>5
<1> QED
  BY <1>2, <1>3, <1>4, <1>5, <1>6

\* f is the powers of ten up to n.
Powers(f, n) ==
  /\ f \in [Nat -> Nat]
  /\ f[0] = 1
  /\ \A i \in 0..(n - 1) : f[i + 1] = 10 * f[i]

LEMMA PowersExist == ASSUME NEW n \in Nat PROVE \E f : Powers(f, n)
<1> DEFINE S == {k \in Nat : \E f : Powers(f, k)}
<1>1. 0 \in S
  <2>1. Powers([i \in Nat |-> 1], 0)
    BY DEF Powers
  <2> QED BY <2>1
<1>2. ASSUME NEW k \in Nat, k \in S PROVE k + 1 \in S
  <2>1. PICK f : Powers(f, k)
    BY <1>2
  <2> DEFINE g == [i \in Nat |-> IF i = k + 1 THEN 10 * f[k] ELSE f[i]]
  <2>2. g \in [Nat -> Nat] /\ g[0] = 1
    BY <2>1 DEF Powers
  <2>3. ASSUME NEW i \in 0..k PROVE g[i + 1] = 10 * g[i]
    <3>1. i # k + 1 /\ i \in Nat /\ i + 1 \in Nat /\ g[i] = f[i]
      OBVIOUS
    <3>2. CASE i = k
      BY <3>1, <3>2
    <3>3. CASE i # k
      <4>1. i \in 0..(k - 1) /\ i + 1 # k + 1
        BY <3>3
      <4> QED BY <4>1, <3>1, <2>1 DEF Powers
    <3> QED BY <3>2, <3>3
  <2> HIDE DEF g
  <2>4. Powers(g, k + 1)
    BY <2>2, <2>3 DEF Powers
  <2> QED BY <2>4
<1> HIDE DEF S
<1>3. Nat \subseteq S
  BY <1>1, <1>2, Induction
<1> QED
  BY <1>3 DEF S

LEMMA PowersAgree ==
  ASSUME NEW m \in Nat, NEW n \in Nat, NEW f, Powers(f, m), NEW g, Powers(g, n),
         NEW i \in Nat, i <= m, i <= n
  PROVE  f[i] = g[i]
<1> DEFINE S == {k \in Nat : k <= m /\ k <= n => f[k] = g[k]}
<1>1. 0 \in S
  BY DEF Powers
<1>2. ASSUME NEW k \in Nat, k \in S PROVE k + 1 \in S
  <2> SUFFICES ASSUME k + 1 <= m, k + 1 <= n PROVE f[k + 1] = g[k + 1]
    OBVIOUS
  <2>1. k \in 0..(m - 1) /\ k \in 0..(n - 1) /\ f[k] = g[k]
    BY <1>2
  <2> QED BY <2>1 DEF Powers
<1> HIDE DEF S
<1>3. Nat \subseteq S
  BY <1>1, <1>2, Induction
<1> QED
  BY <1>3 DEF S

\* The recursive definition has a solution.
LEMMA Pow10Unfolds ==
  Pow10 = [n \in Nat |-> IF n = 0 THEN 1 ELSE 10 * Pow10[n - 1]]
<1> DEFINE P(n) == CHOOSE f : Powers(f, n)
           h == [n \in Nat |-> P(n)[n]]
<1>1. ASSUME NEW n \in Nat PROVE Powers(P(n), n)
  BY PowersExist
<1> HIDE DEF P
<1>2. ASSUME NEW n \in Nat
      PROVE  h[n] = IF n = 0 THEN 1 ELSE 10 * h[n - 1]
  <2>1. CASE n = 0
    BY <1>1, <2>1 DEF Powers
  <2>2. CASE n # 0
    <3>1. n - 1 \in Nat /\ n - 1 \in 0..(n - 1) /\ n - 1 <= n /\ (n - 1) + 1 = n
      BY <2>2
    <3>2. Powers(P(n), n) /\ Powers(P(n - 1), n - 1)
      BY <3>1, <1>1
    <3>3. P(n)[n] = 10 * P(n)[n - 1]
      BY <3>1, <3>2 DEF Powers
    <3>4. P(n)[n - 1] = P(n - 1)[n - 1]
      BY <3>1, <3>2, PowersAgree
    <3> QED BY <3>1, <3>3, <3>4, <2>2
  <2> QED BY <2>1, <2>2
<1>3. h = [n \in Nat |-> IF n = 0 THEN 1 ELSE 10 * h[n - 1]]
  BY <1>2
<1> HIDE DEF h
<1> DEFINE Sol(f) == f = [n \in Nat |-> IF n = 0 THEN 1 ELSE 10 * f[n - 1]]
<1>4. Pow10 = CHOOSE f : Sol(f)
  BY DEF Pow10
<1>5. Sol(h)
  BY <1>3
<1> HIDE DEF Sol
<1>6. Sol(Pow10)
  BY <1>4, <1>5
<1> QED
  BY <1>6 DEF Sol

LEMMA Pow10Zero == Pow10[0] = 1
  BY Pow10Unfolds

LEMMA Pow10Succ == ASSUME NEW n \in Nat PROVE Pow10[n + 1] = 10 * Pow10[n]
<1>1. n + 1 \in Nat /\ n + 1 # 0 /\ (n + 1) - 1 = n
  OBVIOUS
<1>2. Pow10[n + 1] = 10 * Pow10[(n + 1) - 1]
  BY <1>1, Pow10Unfolds
<1> QED
  BY <1>1, <1>2

LEMMA Pow10Positive == ASSUME NEW n \in Nat PROVE Pow10[n] \in Nat /\ Pow10[n] > 0
<1> DEFINE S == {k \in Nat : Pow10[k] \in Nat /\ Pow10[k] > 0}
<1>1. 0 \in S
  BY Pow10Zero
<1>2. ASSUME NEW k \in Nat, k \in S PROVE k + 1 \in S
  BY <1>2, Pow10Succ
<1> HIDE DEF S
<1>3. Nat \subseteq S
  BY <1>1, <1>2, Induction
<1> QED
  BY <1>3 DEF S

LEMMA Pow10Sum ==
  ASSUME NEW m \in Nat, NEW n \in Nat
  PROVE  Pow10[m + n] = Pow10[m] * Pow10[n]
<1> DEFINE S == {k \in Nat : Pow10[m + k] = Pow10[m] * Pow10[k]}
<1>1. 0 \in S
  BY Pow10Zero, Pow10Positive
<1>2. ASSUME NEW k \in Nat, k \in S PROVE k + 1 \in S
  <2>1. Pow10[m + k] = Pow10[m] * Pow10[k]
    BY <1>2
  <2>2. Pow10[(m + k) + 1] = 10 * Pow10[m + k] /\ Pow10[k + 1] = 10 * Pow10[k]
    BY Pow10Succ
  <2>3. m + (k + 1) = (m + k) + 1
    OBVIOUS
  <2>4. Pow10[m] \in Nat /\ Pow10[k] \in Nat
    BY Pow10Positive
  <2>5. 10 * (Pow10[m] * Pow10[k]) = Pow10[m] * (10 * Pow10[k])
    BY <2>4
  <2> QED
    BY <2>1, <2>2, <2>3, <2>5
<1> HIDE DEF S
<1>3. Nat \subseteq S
  BY <1>1, <1>2, Induction
<1> QED
  BY <1>3 DEF S

-----------------------------------------------------------------------------
(* Timestamps.                                                             *)

\* A Decimal, its mantissa of any size.
Decimal(ts) ==
  /\ ts.mantissa \in Nat
  /\ ts.scale \in 0..MaxScale
  /\ ts.negative \in BOOLEAN

\* A number is its seconds and its fraction.
LEMMA Parts ==
  ASSUME NEW ts, Decimal(ts)
  PROVE  /\ Pow10[ts.scale] \in Nat /\ Pow10[ts.scale] > 0
         /\ secs(ts) \in Nat
         /\ scaled_fract(ts) \in 0..(Pow10[ts.scale] - 1)
         /\ ts.mantissa = Pow10[ts.scale] * secs(ts) + scaled_fract(ts)
<1> DEFINE p == Pow10[ts.scale]
           m == ts.mantissa
<1>1. p \in Nat /\ p > 0 /\ m \in Nat
  BY Pow10Positive, WidthsAssumption DEF Decimal
<1>2. secs(ts) = m \div p /\ scaled_fract(ts) = m % p
  BY DEF secs, scaled_fract
<1> HIDE DEF p, m
<1>3. m \div p \in Nat
  BY <1>1
<1>4. m % p \in 0..(p - 1)
  BY <1>1
<1>5. secs(ts) \in Nat /\ scaled_fract(ts) \in 0..(p - 1)
  BY <1>2, <1>3, <1>4
<1>6. m = p * secs(ts) + scaled_fract(ts)
  BY <1>1, <1>2, <1>5
<1> QED
  BY <1>1, <1>5, <1>6 DEF p, m

LEMMA Widths ==
  /\ Second \in Nat /\ Second > 0
  /\ 2^Bits \in Nat /\ Second <= 2^Bits
  /\ Digits \in Nat /\ Bits \in Nat
  /\ FormatMax \in Nat /\ SystemMax \in Nat /\ U64Max \in Nat
  /\ FormatMax < SystemMax /\ SystemMax < U64Max
<1>1. Second \in Nat /\ Second > 0
  BY Pow10Positive, WidthsAssumption DEF Second
<1>2. 2^Bits \in Int
  BY WidthsAssumption
<1> QED
  BY <1>1, <1>2, WidthsAssumption DEF Second

\* Up to Digits decimals the fraction becomes nanoseconds of the same value;
\* it fits its word and is less than a second.
LEMMA ExactNanos ==
  ASSUME NEW ts, Decimal(ts), ts.scale <= Digits
  PROVE  /\ scaled_fract(ts) < 2^Bits
         /\ nanos(ts) \in 0..(Second - 1)
         /\ nanos(ts) * Pow10[ts.scale] = scaled_fract(ts) * Second
<1> DEFINE p == Pow10[ts.scale]
           q == Pow10[Digits - ts.scale]
           f == scaled_fract(ts)
<1>1. ts.scale \in Nat /\ Digits - ts.scale \in Nat
      /\ ts.scale + (Digits - ts.scale) = Digits
  BY Widths, WidthsAssumption DEF Decimal
<1>2. p \in Nat /\ p > 0 /\ q \in Nat /\ q > 0 /\ Second = p * q
  BY <1>1, Pow10Positive, Pow10Sum DEF Second
<1>3. f \in 0..(p - 1)
  BY Parts
<1>4. nanos(ts) = f * q
  BY DEF nanos
<1> HIDE DEF p, q, f
<1>5. p <= p * q
  BY <1>2
<1>6. f + 1 <= p /\ f \in Nat /\ p - f - 1 \in Nat
  BY <1>2, <1>3
<1>7. (p - f - 1) * q \in Nat /\ p * q = (p - f - 1) * q + f * q + q
  BY <1>2, <1>6
<1>8. f * q \in Nat /\ f * q < p * q
  BY <1>2, <1>6, <1>7
<1>9. (f * q) * p = f * (p * q)
  BY <1>2, <1>6
<1> QED
  BY <1>2, <1>3, <1>4, <1>5, <1>6, <1>8, <1>9, Widths DEF p, f

\* Beyond them a build that does not check makes no nanoseconds of it.
LEMMA WrappedNanos ==
  ASSUME NEW ts, Decimal(ts), ~(ts.scale <= Digits)
  PROVE  nanos(ts) = 0
<1>1. ts.scale \in Nat /\ ts.scale <= MaxScale /\ MaxScale \in Nat
  BY WidthsAssumption DEF Decimal
<1>2. 2^Bits + Digits - ts.scale >= Bits
  BY <1>1, Widths, WidthsAssumption
<1>3. WrappedPow(2^Bits + Digits - ts.scale) = 0
  BY <1>2 DEF WrappedPow
<1>4. scaled_fract(ts) \in Nat
  BY Parts
<1>5. scaled_fract(ts) * 0 = 0 /\ 0 % 2^Bits = 0
  BY <1>4, Widths
<1> QED
  BY <1>3, <1>5 DEF nanos

LEMMA NanosBelowSecond ==
  ASSUME NEW ts, Decimal(ts)
  PROVE  nanos(ts) \in 0..(Second - 1)
<1>1. CASE ts.scale <= Digits
  BY <1>1, ExactNanos
<1>2. CASE ~(ts.scale <= Digits)
  BY <1>2, WrappedNanos, Widths
<1> QED
  BY <1>1, <1>2

\* The stamp of a time that is not before the epoch.
Stamp(ts) == secs(ts) * Second + nanos(ts)

LEMMA StampSeconds ==
  ASSUME NEW ts, Decimal(ts)
  PROVE  Stamp(ts) \in Nat /\ Stamp(ts) \div Second = secs(ts)
<1> DEFINE s == secs(ts)
           n == nanos(ts)
<1>1. s \in Nat /\ n \in 0..(Second - 1) /\ Second \in Nat /\ Second > 0
  BY Parts, NanosBelowSecond, Widths
<1>2. Stamp(ts) = s * Second + n
  BY DEF Stamp
<1> HIDE DEF s, n
<1>3. s * Second \in Nat /\ s * Second + n \in Nat
  BY <1>1
<1>4. \A d \in Int : d = (s * Second + n) \div Second => d = s
  <2> TAKE d \in Int
  <2> HAVE d = (s * Second + n) \div Second
  <2>1. d * Second <= s * Second + n
    BY <1>1, <1>3
  <2>2. s * Second + n < d * Second + Second
    BY <1>1, <1>3
  <2>3. ~(d < s)
    <3> SUFFICES ASSUME d + 1 <= s PROVE FALSE
      BY <1>1
    <3>1. (d + 1) * Second <= s * Second
      BY <1>1
    <3>2. (d + 1) * Second = d * Second + Second
      BY <1>1
    <3> QED
      BY <1>1, <1>3, <2>2, <3>1, <3>2
  <2>4. ~(s < d)
    <3> SUFFICES ASSUME s + 1 <= d PROVE FALSE
      BY <1>1
    <3>1. (s + 1) * Second <= d * Second
      BY <1>1
    <3>2. (s + 1) * Second = s * Second + Second
      BY <1>1
    <3> QED
      BY <1>1, <1>3, <2>1, <3>1, <3>2
  <2> QED
    BY <1>1, <2>3, <2>4
<1>5. (s * Second + n) \div Second \in Int
  BY <1>1, <1>3
<1>6. (s * Second + n) \div Second = s
  BY <1>4, <1>5, Zenon
<1> QED
  BY <1>2, <1>3, <1>6 DEF s

\* The stamp and the number, both as integers times 10^(scale + Digits): equal
\* up to Digits decimals, and otherwise in the same second.
LEMMA StampValue ==
  ASSUME NEW ts, Decimal(ts)
  PROVE  LET p == Pow10[ts.scale] IN
         /\ ts.scale <= Digits => Stamp(ts) * p = ts.mantissa * Second
         /\ Stamp(ts) * p <= ts.mantissa * Second
         /\ ts.mantissa * Second < Stamp(ts) * p + Second * p
<1> DEFINE p == Pow10[ts.scale]
           s == secs(ts)
           n == nanos(ts)
           f == scaled_fract(ts)
           m == ts.mantissa
<1>1. /\ p \in Nat /\ p > 0 /\ s \in Nat /\ f \in Nat /\ f < p /\ m = p * s + f
      /\ n \in Nat /\ Second \in Nat /\ Second > 0
  BY Parts, NanosBelowSecond, Widths
<1>2. Stamp(ts) = s * Second + n
  BY DEF Stamp
<1>3. IF ts.scale <= Digits THEN n * p = f * Second ELSE n = 0
  BY ExactNanos, WrappedNanos
<1> HIDE DEF p, s, n, f, m
<1>4. m * Second = (s * Second) * p + f * Second
  BY <1>1
<1>5. Stamp(ts) * p = (s * Second) * p + n * p
  BY <1>1, <1>2
<1>6. f * Second \in Nat /\ f * Second < Second * p /\ (s * Second) * p \in Nat
  <2>1. p - f - 1 \in Nat
    BY <1>1
  <2>2. (p - f - 1) * Second \in Nat
    BY <1>1, <2>1
  <2>3. Second * p = (p - f - 1) * Second + f * Second + Second
    BY <1>1
  <2> QED
    BY <1>1, <2>2, <2>3
<1>7. CASE ts.scale <= Digits
  <2>1. n * p = f * Second
    BY <1>3, <1>7
  <2> QED
    BY <1>4, <1>5, <1>6, <2>1, <1>1 DEF p, m
<1>8. CASE ~(ts.scale <= Digits)
  <2>1. n * p = 0
    BY <1>1, <1>3, <1>8
  <2> QED
    BY <1>4, <1>5, <1>6, <1>8, <2>1, <1>1 DEF p, m
<1> QED
  BY <1>7, <1>8

\* The three answers of from_decimal.
LEMMA FromDecimal ==
  ASSUME NEW ts, Decimal(ts), NEW c \in BOOLEAN
  PROVE  LET t == from_decimal(ts, c) IN
         \/ t = Some(0) /\ ts.negative
         \/ t = Some(Stamp(ts)) /\ ~ts.negative /\ secs(ts) <= SystemMax
         \/ t = None /\ ~ts.negative /\ (ts.scale <= Digits => secs(ts) > SystemMax)
         \/ t.tag = "panic" /\ ~ts.negative /\ ts.scale > Digits
<1>1. secs(ts) \in Nat /\ scaled_fract(ts) \in Nat /\ ts.negative \in BOOLEAN
      /\ ts.scale \in Nat
  BY Parts, WidthsAssumption DEF Decimal
<1>2. CASE ts.negative
  BY <1>2 DEF from_decimal, BeforeEpoch
<1>3. CASE ~ts.negative /\ TooLarge(ts)
  <2>1. from_decimal(ts, c) = None
    BY <1>3 DEF from_decimal
  <2>2. ts.scale <= Digits => secs(ts) > SystemMax
    BY <1>1, <1>3, ExactNanos, Widths DEF TooLarge
  <2> QED
    BY <1>3, <2>1, <2>2
<1>4. CASE ~ts.negative /\ ~TooLarge(ts) /\ c /\ ts.scale > Digits
  <2>1. from_decimal(ts, c) = [tag |-> "panic", stamp |-> 0]
    BY <1>4 DEF from_decimal
  <2>2. from_decimal(ts, c).tag = "panic"
    BY <2>1
  <2> QED
    BY <1>4, <2>2
<1>5. CASE ~ts.negative /\ ~TooLarge(ts) /\ ~(c /\ ts.scale > Digits)
  <2>1. from_decimal(ts, c) = IF secs(ts) > SystemMax THEN None ELSE Some(Stamp(ts))
    BY <1>5 DEF from_decimal, Stamp
  <2>2. CASE secs(ts) > SystemMax
    BY <1>5, <2>1, <2>2
  <2>3. CASE ~(secs(ts) > SystemMax)
    BY <1>1, <1>5, <2>1, <2>3, Widths
  <2> QED
    BY <2>2, <2>3
<1> QED
  BY <1>1, <1>2, <1>3, <1>4, <1>5

\* A time that was given can be written up to the last year of the formatter.
LEMMA Serialize ==
  ASSUME NEW ts, Decimal(ts)
  PROVE  /\ ~SerializePanics(0)
         /\ SerializePanics(Stamp(ts)) <=> secs(ts) > FormatMax
<1>1. 0 \div Second = 0
  BY Widths
<1> QED
  BY <1>1, StampSeconds, Widths DEF SerializePanics

-----------------------------------------------------------------------------
(* Messages.                                                               *)

\* What a message can be, whatever its document.
Received(m) ==
  /\ Decimal(m.doc.timestamp)
  /\ m.doc.kind \in {"event", "other", "not_utf8"}
  /\ m.doc.fields \subseteq {Raw, Underscored}
  /\ m.doc.host \in Nat
  /\ m.form \in {"plain", "gzip", "zlib"}
  /\ m.head \in Heads(m.form, m.doc)
  /\ m.chunked \in BOOLEAN
  /\ m.first \in 0..2
  /\ m.intact \in BOOLEAN
  /\ m.chunked \/ m.first = 2

LEMMA PlainIsDecimal == Decimal(Plain)
  BY WidthsAssumption DEF Decimal, Plain

LEMMA EveryMessage ==
  ASSUME NEW m \in {m \in Messages : m.chunked \/ m.first = 2} \cup Dated
  PROVE  Received(m)
<1>1. CASE m \in Messages /\ (m.chunked \/ m.first = 2)
  <2>1. PICK d \in Documents, f \in {"plain", "gzip", "zlib"} : m \in Variants(d, f)
    BY <1>1 DEF Messages
  <2>2. /\ m.doc = d /\ m.form = f /\ m.head \in Heads(f, d)
        /\ m.chunked \in BOOLEAN /\ m.first \in 0..2 /\ m.intact \in BOOLEAN
    BY <2>1 DEF Variants
  <2>3. d.kind \in {"event", "other", "not_utf8"} /\ d.timestamp = Plain
    BY DEF Documents
  <2>4. d.fields \subseteq {Raw, Underscored} /\ d.host \in Nat
    BY CapacityAssumption DEF Documents
  <2> QED
    BY <1>1, <2>1, <2>2, <2>3, <2>4, PlainIsDecimal DEF Received
<1>2. CASE m \in Dated
  <2>1. PICK ts \in Decimals :
          m = [doc |-> [kind |-> "event", fields |-> {}, host |-> 0,
                        timestamp |-> ts],
               form |-> "plain", head |-> <<123, 34>>, chunked |-> FALSE,
               first |-> 2, intact |-> TRUE]
    BY <1>2 DEF Dated
  <2>2. PICK e \in 0..MaxScale :
          ts \in [mantissa : 0..(MaxSeconds + 1) * Pow10[e] - 1, scale : {e},
                 negative : BOOLEAN]
    BY DEF Decimals
  <2>3. (MaxSeconds + 1) * Pow10[e] - 1 \in Int
    BY WidthsAssumption, Pow10Positive
  <2>4. Decimal(ts)
    BY <2>2, <2>3, WidthsAssumption DEF Decimal
  <2>5. m.doc.kind = "event" /\ m.doc.fields = {} /\ m.doc.host = 0
        /\ m.doc.timestamp = ts
    BY <2>1
  <2>6. /\ m.form = "plain" /\ m.head = <<123, 34>> /\ m.chunked = FALSE
        /\ m.first = 2 /\ m.intact = TRUE
    BY <2>1
  <2>7. m.head \in Heads(m.form, m.doc)
    BY <2>5, <2>6 DEF Heads
  <2>8. m.doc.fields \subseteq {Raw, Underscored} /\ m.doc.host \in Nat
    BY <2>5
  <2>9. m.form \in {"plain", "gzip", "zlib"} /\ m.first \in 0..2
    BY <2>6
  <2>10. /\ m.chunked \in BOOLEAN /\ m.intact \in BOOLEAN
         /\ m.chunked \/ m.first = 2
    BY <2>6, Zenon
  <2> QED
    BY <2>4, <2>5, <2>7, <2>8, <2>9, <2>10 DEF Received
<1> QED
  BY <1>1, <1>2

\* The streams of zlib with a header in ZlibHeads.
LEMMA ZlibHeadsAre ==
  ASSUME NEW h \in ZlibHeads
  PROVE  h \in {<<104, 5>>, <<120, 1>>, <<120, 94>>, <<120, 156>>}
<1>1. PICK a \in {104, 120}, b \in {1, 5, 94, 156} :
        h = <<a, b>> /\ (a * 256 + b) % 31 = 0
  BY DEF ZlibHeads
<1>2. /\ (104 * 256 + 1) % 31 # 0 /\ (104 * 256 + 94) % 31 # 0
      /\ (104 * 256 + 156) % 31 # 0 /\ (120 * 256 + 5) % 31 # 0
  OBVIOUS
<1> QED
  BY <1>1, <1>2

\* What is detected in the two bytes at the start of a message.
LEMMA Detects ==
  /\ detect(<<31, 139>>) = "gzip"
  /\ detect(<<120, 1>>) = "zlib" /\ detect(<<120, 94>>) = "zlib"
  /\ detect(<<120, 156>>) = "zlib"
  /\ detect(<<104, 5>>) = "none" /\ detect(<<123, 34>>) = "none"
  /\ detect(<<32, 123>>) = "none" /\ detect(<<>>) = "none"
<1>1. /\ (120 * 256 + 1) % 31 = 0 /\ (120 * 256 + 94) % 31 = 0
      /\ (120 * 256 + 156) % 31 = 0
  OBVIOUS
<1>2. detect(<<31, 139>>) = "gzip"
  BY DEF detect
<1>3. detect(<<120, 1>>) = "zlib"
  BY <1>1 DEF detect
<1>4. detect(<<120, 94>>) = "zlib"
  BY <1>1 DEF detect
<1>5. detect(<<120, 156>>) = "zlib"
  BY <1>1 DEF detect
<1>6. detect(<<104, 5>>) = "none" /\ detect(<<123, 34>>) = "none"
  BY DEF detect
<1>7. detect(<<32, 123>>) = "none" /\ detect(<<>>) = "none"
  BY DEF detect
<1> QED
  BY <1>2, <1>3, <1>4, <1>5, <1>6, <1>7

\* Two bytes are looked at when both are in the first chunk, and none otherwise.
LEMMA Peeks ==
  ASSUME NEW a \in Nat, NEW b \in Nat, NEW n \in 0..2
  PROVE  peek_magic_bytes(SubSeq(<<a, b>>, 1, n)) =
           IF n = 2 THEN <<a, b>> ELSE <<>>
<1>1. CASE n = 2
  <2>1. <<a, b>> \in Seq(Nat) /\ Len(<<a, b>>) = 2
    OBVIOUS
  <2>2. SubSeq(<<a, b>>, 1, 2) = <<a, b>>
    BY <2>1, SubSeqFull
  <2> HIDE DEF peek_magic_bytes
  <2>3. ASSUME NEW t, Len(t) = 2, SubSeq(t, 1, 2) = t
        PROVE  peek_magic_bytes(t) = t
    BY <2>3 DEF peek_magic_bytes
  <2>4. peek_magic_bytes(<<a, b>>) = <<a, b>>
    BY <2>1, <2>2, <2>3
  <2> QED
    BY <1>1, <2>2, <2>4
<1>2. CASE n # 2
  <2>1. <<a, b>> \in Seq(Nat) /\ n \in Nat /\ n < 2
    BY <1>2
  <2>2. Len(SubSeq(<<a, b>>, 1, n)) < 2
    BY <1>2
  <2> QED
    BY <1>2, <2>2 DEF peek_magic_bytes
<1> QED
  BY <1>1, <1>2

\* What was written as an event is decoded iff its compression shows.
LEMMA DecodesIffVisible ==
  ASSUME Received(msg), msg.doc.kind = "event"
  PROVE  Decodes <=> msg.intact /\ Visible
<1> DEFINE h == msg.head
<1>1. msg.first \in 0..2 /\ msg.form \in {"plain", "gzip", "zlib"}
  BY DEF Received
<1>2. h \in Heads(msg.form, msg.doc)
  BY DEF Received
<1>3. ASSUME NEW a \in Nat, NEW b \in Nat, h = <<a, b>>
      PROVE  compression = IF msg.first = 2 THEN detect(<<a, b>>) ELSE "none"
  <2>0. peek_magic_bytes(SubSeq(<<a, b>>, 1, msg.first)) =
          IF msg.first = 2 THEN <<a, b>> ELSE <<>>
    <3> HIDE DEF h
    <3> QED
      BY <1>1, Peeks
  <2>1. peek_magic_bytes(SubSeq(h, 1, msg.first)) =
          IF msg.first = 2 THEN <<a, b>> ELSE <<>>
    <3> HIDE DEF h
    <3> QED
      BY <1>3, <2>0
  <2> QED
    BY <2>1, Detects DEF compression
<1>4. CASE msg.form = "plain"
  <2>1. h \in {<<123, 34>>, <<32, 123>>}
    BY <1>2, <1>4 DEF Heads
  <2>2. compression = "none"
    BY <1>3, <2>1, Detects
  <2> QED
    BY <1>4, <2>2 DEF Decodes, Visible
<1>5. CASE msg.form = "gzip"
  <2>1. h = <<31, 139>>
    BY <1>2, <1>5 DEF Heads
  <2>2. compression = IF msg.first = 2 THEN "gzip" ELSE "none"
    BY <1>3, <2>1, Detects
  <2> QED
    BY <1>5, <2>1, <2>2 DEF Decodes, Visible
<1>6. CASE msg.form = "zlib"
  <2>1. h \in {<<104, 5>>, <<120, 1>>, <<120, 94>>, <<120, 156>>}
    BY <1>2, <1>6, ZlibHeadsAre DEF Heads
  <2>2. CASE h = <<104, 5>>
    <3>1. compression = "none"
      BY <1>3, <2>2, Detects
    <3> QED
      BY <1>6, <2>2, <3>1 DEF Decodes, Visible
  <2>3. CASE h \in {<<120, 1>>, <<120, 94>>, <<120, 156>>}
    <3>1. compression = IF msg.first = 2 THEN "zlib" ELSE "none"
      BY <1>3, <2>3, Detects
    <3> QED
      BY <1>6, <2>3, <3>1 DEF Decodes, Visible
  <2> QED
    BY <2>1, <2>2, <2>3
<1> QED
  BY <1>1, <1>4, <1>5, <1>6

-----------------------------------------------------------------------------
(* with_clef.                                                              *)

\* What comes out of every one of the ways, and what is printed of it.
Answer == IF Decodes THEN Outcome(msg.doc) ELSE [tag |-> "error"]

Written(r) ==
  IF r.tag = "event" /\ SerializePanics(r.time.stamp) THEN [tag |-> "panic"] ELSE r

\* The inductive invariant: no way changes the answer.
IInv ==
  /\ include_raw_payload \in BOOLEAN
  /\ checked \in BOOLEAN
  /\ Received(msg)
  /\ pc \in {"with_clef", "into_reader", "read", "output", "done"}
  /\ pc \in {"with_clef", "into_reader", "read"} => result = [tag |-> "none"]
  /\ pc = "output" => result = Answer
  /\ pc = "done" => result = Written(Answer)

LEMMA InitIInv == Init => IInv
<1> SUFFICES ASSUME Init PROVE IInv
  OBVIOUS
<1>1. Received(msg)
  BY EveryMessage DEF Init
<1> QED
  BY <1>1 DEF Init, IInv

\* A string is spilled before it could overflow its array.
LEMMA NeverPanics == ASSUME NEW len \in Nat PROVE ~Panics(len)
<1>1. CASE len > INLINE_STRING_CAPACITY
  BY <1>1 DEF Panics, Inlinable
<1>2. CASE ~(len > INLINE_STRING_CAPACITY)
  BY <1>2 DEF Panics
<1> QED
  BY <1>1, <1>2

\* The answer depends on what no action changes.
LEMMA AnswerStays ==
  ASSUME UNCHANGED <<include_raw_payload, checked, msg>>
  PROVE  Answer' = Answer /\ Received(msg)' = Received(msg)
<1>1. compression' = compression
  BY DEF compression
<1>2. Decodes' = Decodes
  BY <1>1 DEF Decodes
<1>3. Outcome(msg.doc)' = Outcome(msg.doc)
  BY DEF Outcome, Parsed
<1> QED
  BY <1>2, <1>3 DEF Answer

LEMMA StepIInv == IInv /\ [Next]_vars => IInv'
<1> SUFFICES ASSUME IInv, [Next]_vars PROVE IInv'
  OBVIOUS
<1>1. UNCHANGED <<include_raw_payload, checked, msg>>
  BY DEF Next, vars, with_clef, FromSlice, into_reader, Read, read_as_clef, Goto
<1>2. Answer' = Answer /\ Received(msg') /\ msg' = msg
      /\ include_raw_payload' \in BOOLEAN /\ checked' \in BOOLEAN
  BY <1>1, AnswerStays DEF IInv
<1>3. ASSUME pc' = "output", result' = Answer PROVE IInv'
  BY <1>2, <1>3 DEF IInv
<1>4. ASSUME pc' \in {"into_reader", "read"}, result' = [tag |-> "none"] PROVE IInv'
  BY <1>2, <1>4 DEF IInv
<1>5. CASE with_clef
  <2>1. CASE FromSlice
    <3>1. bytes /\ compression = "none"
      BY <2>1 DEF FromSlice, bytes
    <3>2. Decodes <=> msg.intact /\ msg.form = "plain"
      BY <3>1 DEF Decodes, IInv, Received
    <3>3. pc' = "output" /\ result' = Answer
      BY <2>1, <3>2 DEF FromSlice, Goto, Answer
    <3> QED
      BY <1>3, <3>3
  <2>2. CASE ~bytes /\ Goto("into_reader", result)
    <3>1. pc' = "into_reader" /\ result' = [tag |-> "none"]
      BY <1>5, <2>2 DEF with_clef, Goto, IInv
    <3> QED
      BY <1>4, <3>1
  <2> QED
    BY <1>5, <2>1, <2>2 DEF with_clef
<1>6. CASE into_reader
  <2>1. CASE Goto("read", result)
    <3>1. pc' = "read" /\ result' = [tag |-> "none"]
      BY <1>6, <2>1 DEF into_reader, Goto, IInv
    <3> QED
      BY <1>4, <3>1
  <2>2. CASE ~Decodes /\ Goto("output", [tag |-> "error"])
    <3>1. pc' = "output" /\ result' = Answer
      BY <2>2 DEF Goto, Answer
    <3> QED
      BY <1>3, <3>1
  <2> QED
    BY <1>6, <2>1, <2>2 DEF into_reader
<1>7. CASE Read
  <2>1. ~Panics(msg.doc.host)
    BY NeverPanics DEF IInv, Received
  <2>2. pc' = "output" /\ result' = Answer
    <3>1. CASE Decodes
      BY <1>7, <2>1, <3>1 DEF Read, Goto, Answer
    <3>2. CASE ~Decodes
      BY <1>7, <3>2 DEF Read, Goto, Answer
    <3> QED
      BY <3>1, <3>2
  <2> QED
    BY <1>3, <2>2
<1>8. CASE read_as_clef
  <2>1. result = Answer
    BY <1>8 DEF read_as_clef, IInv
  <2>2. pc' = "done" /\ result' = Written(Answer)
    BY <1>8, <2>1 DEF read_as_clef, Goto, Written
  <2>3. Written(Answer)' = Written(Answer)
    BY <1>2 DEF Written
  <2> QED
    BY <1>2, <2>2, <2>3 DEF IInv
<1>9. CASE UNCHANGED vars
  <2>1. pc' = pc /\ result' = result
    BY <1>9 DEF vars
  <2>2. Written(Answer)' = Written(Answer)
    BY <1>2 DEF Written
  <2> QED
    BY <1>2, <2>1, <2>2 DEF IInv
<1> QED
  BY <1>5, <1>6, <1>7, <1>8, <1>9 DEF Next

\* Whatever way a message takes through with_clef (parsed where it lies or read
\* through a decoder, with or without the raw payload), its answer is the same
\* function of what the client wrote.
THEOREM Inductive == Spec => []IInv
  BY InitIInv, StepIInv, PTL DEF Spec

-----------------------------------------------------------------------------
(* What the answer is.                                                     *)

Time == from_decimal(msg.doc.timestamp, checked)

LEMMA AnswerCases ==
  ASSUME IInv
  PROVE  \/ /\ ~(msg.doc.kind = "event" /\ msg.intact /\ Visible)
            /\ Answer = [tag |-> "error"]
         \/ /\ msg.doc.kind = "event" /\ msg.intact /\ Visible
            /\ Time.tag = "panic"
            /\ Answer = [tag |-> "panic"]
         \/ /\ msg.doc.kind = "event" /\ msg.intact /\ Visible
            /\ Time.tag # "panic"
            /\ Answer = to_clef(Parsed(msg.doc), Time)
<1>0. Received(msg)
  BY DEF IInv
<1>1. CASE msg.doc.kind # "event"
  <2>1. Outcome(msg.doc) = [tag |-> "error"]
    BY <1>1 DEF Outcome
  <2> QED
    BY <1>1, <2>1 DEF Answer
<1>2. CASE msg.doc.kind = "event" /\ ~Decodes
  BY <1>0, <1>2, DecodesIffVisible DEF Answer
<1>3. CASE msg.doc.kind = "event" /\ Decodes
  <2>1. msg.intact /\ Visible
    BY <1>0, <1>3, DecodesIffVisible
  <2>2. Outcome(msg.doc) = IF Time.tag = "panic" THEN [tag |-> "panic"]
                           ELSE to_clef(Parsed(msg.doc), Time)
    BY <1>3 DEF Outcome, Time
  <2> QED
    BY <1>3, <2>1, <2>2 DEF Answer
<1> QED
  BY <1>1, <1>2, <1>3

LEMMA ToClefIs ==
  ASSUME NEW fields, NEW time
  PROVE  to_clef(fields, time).tag = "event" /\ to_clef(fields, time).time = time
  BY DEF to_clef

\* An event, before it is written and after.
LEMMA EventIs ==
  ASSUME IInv, result.tag = "event"
  PROVE  /\ result = to_clef(Parsed(msg.doc), Time)
         /\ result.time = Time /\ Time.tag # "panic"
         /\ pc = "done" => ~SerializePanics(Time.stamp)
<1>1. pc \in {"output", "done"}
  BY DEF IInv
<1>2. ASSUME NEW r, r \in {Answer, Written(Answer)}, r.tag = "event"
      PROVE  r = Answer /\ (r = Written(Answer) => ~SerializePanics(r.time.stamp))
  BY <1>2 DEF Written
<1>3. result \in {Answer, Written(Answer)} /\ (pc = "done" => result = Written(Answer))
  BY <1>1 DEF IInv
<1>4. result = Answer /\ (pc = "done" => ~SerializePanics(result.time.stamp))
  BY <1>2, <1>3
<1>5. result = to_clef(Parsed(msg.doc), Time) /\ Time.tag # "panic"
  BY <1>4, AnswerCases
<1> QED
  BY <1>4, <1>5, ToClefIs

\* A panic is that of from_decimal or that of the formatter.
LEMMA PanicIs ==
  ASSUME IInv, result.tag = "panic"
  PROVE  Time.tag = "panic" \/ (Time.tag # "panic" /\ SerializePanics(Time.stamp))
<1>1. pc \in {"output", "done"}
  BY DEF IInv
<1>2. result \in {Answer, Written(Answer)}
  BY <1>1 DEF IInv
<1>3. CASE Answer = [tag |-> "error"]
  BY <1>2, <1>3 DEF Written
<1>4. CASE Time.tag = "panic"
  BY <1>4
<1>5. CASE Time.tag # "panic" /\ Answer = to_clef(Parsed(msg.doc), Time)
  <2>1. Answer.tag = "event" /\ Answer.time = Time
    BY <1>5, ToClefIs
  <2>2. result # Answer
    BY <2>1
  <2>3. SerializePanics(Answer.time.stamp)
    BY <1>2, <2>2 DEF Written
  <2> QED
    BY <1>5, <2>1, <2>3
<1> QED
  BY <1>3, <1>4, <1>5, AnswerCases

LEMMA TimeCases ==
  ASSUME IInv, NEW ts, ts = msg.doc.timestamp
  PROVE  \/ Time = Some(0) /\ ts.negative
         \/ Time = Some(Stamp(ts)) /\ ~ts.negative /\ secs(ts) <= SystemMax
         \/ Time = None /\ ~ts.negative /\ (ts.scale <= Digits => secs(ts) > SystemMax)
         \/ Time.tag = "panic" /\ ~ts.negative /\ ts.scale > Digits
<1>1. Decimal(ts) /\ checked \in BOOLEAN
  BY DEF IInv, Received
<1> QED
  BY <1>1, FromDecimal DEF Time

\* ConvertedIffReadable: with_clef converts the same messages whichever of its
\* four ways they take, and refuses all others without a panic.
THEOREM ReadableIsConverted == Spec => []ConvertedIffReadable
<1>1. IInv => ConvertedIffReadable
  <2> SUFFICES ASSUME IInv, pc = "done", Writable
               PROVE  result.tag = IF msg.doc.kind = "event" /\ msg.intact /\ Visible
                                   THEN "event" ELSE "error"
    BY DEF ConvertedIffReadable
  <2> DEFINE ts == msg.doc.timestamp
  <2>1. result = Written(Answer)
    BY DEF IInv
  <2>2. Decimal(ts) /\ secs(ts) \in Nat /\ ts.scale \in Nat
    BY Parts, WidthsAssumption DEF IInv, Received, Decimal
  <2>3. \/ ts.negative
        \/ ts.scale <= Digits /\ secs(ts) \notin (FormatMax + 1)..SystemMax
    BY DEF Writable
  <2>4. Time.tag # "panic" /\ ~SerializePanics(Time.stamp)
    <3>1. CASE Time = Some(0)
      BY <2>2, <3>1, Serialize DEF Some
    <3>2. CASE Time = Some(Stamp(ts)) /\ ~ts.negative /\ secs(ts) <= SystemMax
      <4>1. ~(secs(ts) > FormatMax)
        BY <2>2, <2>3, <3>2, Widths
      <4> QED
        BY <2>2, <3>2, <4>1, Serialize DEF Some
    <3>3. CASE Time = None
      BY <2>2, <3>3, Serialize DEF None
    <3>4. CASE ~ts.negative /\ ts.scale > Digits
      BY <2>2, <2>3, <3>4, Widths
    <3> QED
      BY <3>1, <3>2, <3>3, <3>4, TimeCases
  <2>5. CASE ~(msg.doc.kind = "event" /\ msg.intact /\ Visible)
    <3>1. Answer = [tag |-> "error"]
      BY <2>5, AnswerCases
    <3> QED
      BY <2>1, <2>5, <3>1 DEF Written
  <2>6. CASE msg.doc.kind = "event" /\ msg.intact /\ Visible
    <3>1. Answer = to_clef(Parsed(msg.doc), Time)
      BY <2>4, <2>6, AnswerCases
    <3>2. Answer.tag = "event" /\ Answer.time = Time
      BY <3>1, ToClefIs
    <3>3. result = Answer
      BY <2>1, <2>4, <3>2 DEF Written
    <3> QED
      BY <2>6, <3>2, <3>3
  <2> QED
    BY <2>5, <2>6
<1> QED
  BY <1>1, Inductive, PTL

\* RawPayloadBeside: add and the merge in to_clef keep what the client sent
\* under the name of the raw payload beside the raw payload.
THEOREM RawPayloadIsBeside == Spec => []RawPayloadBeside
<1>1. IInv => RawPayloadBeside
  <2> SUFFICES ASSUME IInv, result.tag = "event"
               PROVE  /\ include_raw_payload /\ Raw \notin msg.doc.fields =>
                           result.raw_payload = <<"text">>
                      /\ \A n \in msg.doc.fields :
                           <<"client", n>> \in {result.raw_payload, result.saved}
    BY DEF RawPayloadBeside
  <2> DEFINE F == msg.doc.fields
             P == Parsed(msg.doc)
  <2>1. F \subseteq {Raw, Underscored} /\ Raw # Underscored
    BY DEF IInv, Received, Raw, Underscored
  <2>2. /\ result.raw_payload = CASE Raw \in DOMAIN P -> P[Raw]
                                  [] DOMAIN P = {Underscored} -> P[Underscored]
                                  [] OTHER -> <<>>
        /\ result.saved = IF DOMAIN P = {Raw, Underscored} THEN P[Underscored] ELSE <<>>
    BY EventIs DEF to_clef
  <2>3. DOMAIN P = IF include_raw_payload THEN F \cup {Raw} ELSE F
    BY DEF Parsed, add, Client
  <2>4. \A n \in F : P[n] = <<"client", n>>
    BY DEF Parsed, add, Client
  <2>5. include_raw_payload /\ Raw \notin F => P[Raw] = <<"text">>
    BY DEF Parsed, add, Client
  <2> HIDE DEF F, P
  <2>6. Raw \in DOMAIN P => result.raw_payload = P[Raw]
    BY <2>2
  <2>7. include_raw_payload /\ Raw \notin F => result.raw_payload = <<"text">>
    BY <2>3, <2>5, <2>6
  <2>8. ASSUME Raw \in F
        PROVE  <<"client", Raw>> \in {result.raw_payload, result.saved}
    BY <2>3, <2>4, <2>6, <2>8
  <2>9. ASSUME Underscored \in F
        PROVE  <<"client", Underscored>> \in {result.raw_payload, result.saved}
    <3>1. P[Underscored] = <<"client", Underscored>>
      BY <2>4, <2>9
    <3>2. CASE Raw \in DOMAIN P
      <4>1. DOMAIN P = {Raw, Underscored}
        BY <2>1, <2>3, <2>9, <3>2
      <4> QED
        BY <2>2, <3>1, <4>1
    <3>3. CASE Raw \notin DOMAIN P
      <4>1. DOMAIN P = {Underscored}
        BY <2>1, <2>3, <2>9, <3>3
      <4> QED
        BY <2>2, <3>1, <3>3, <4>1
    <3> QED
      BY <3>2, <3>3
  <2> QED
    BY <2>1, <2>7, <2>8, <2>9 DEF F
<1> QED
  BY <1>1, Inductive, PTL

\* ExactToTheNanosecond: from_decimal and the formatter keep every digit up to
\* a nanosecond, and replace or refuse only what they cannot hold.
THEOREM TimesAreExact == Spec => []ExactToTheNanosecond
<1>1. IInv => ExactToTheNanosecond
  <2> DEFINE ts == msg.doc.timestamp
  <2> SUFFICES ASSUME IInv, ts.scale <= Digits
               PROVE  /\ Printed /\ result.time.tag = "given" => Kept = Sent
                      /\ Printed /\ result.time.tag = "none" => secs(ts) > SystemMax
                      /\ result.tag = "panic" => secs(ts) \in (FormatMax + 1)..SystemMax
    BY DEF ExactToTheNanosecond
  <2>1. Decimal(ts) /\ secs(ts) \in Nat /\ ts.scale \in Nat
    BY Parts, WidthsAssumption DEF IInv, Received, Decimal
  <2>2. ~(ts.scale > Digits)
    BY <2>1, Widths
  <2>3. ASSUME Printed, result.time.tag = "given" PROVE Kept = Sent
    <3>1. result.time = Time
      BY <2>3, EventIs DEF Printed
    <3>2. CASE Time = Some(0) /\ ts.negative
      BY <2>1, <3>1, <3>2, Parts DEF Kept, Sent, Some
    <3>3. CASE Time = Some(Stamp(ts)) /\ ~ts.negative
      BY <2>1, <3>1, <3>3, StampValue DEF Kept, Sent, Some
    <3>4. Time # None
      BY <2>3, <3>1 DEF None
    <3> QED
      BY <2>2, <3>2, <3>3, <3>4, TimeCases
  <2>4. ASSUME Printed, result.time.tag = "none" PROVE secs(ts) > SystemMax
    <3>1. result.time = Time
      BY <2>4, EventIs DEF Printed
    <3>2. Time # Some(0) /\ Time # Some(Stamp(ts))
      BY <2>4, <3>1 DEF Some
    <3> QED
      BY <2>2, <3>2, TimeCases
  <2>5. ASSUME result.tag = "panic" PROVE secs(ts) \in (FormatMax + 1)..SystemMax
    <3>1. SerializePanics(Time.stamp) \/ Time.tag = "panic"
      BY <2>5, PanicIs
    <3>2. CASE Time = Some(0)
      BY <2>1, <3>1, <3>2, Serialize DEF Some
    <3>3. CASE Time = Some(Stamp(ts)) /\ secs(ts) <= SystemMax
      <4>1. secs(ts) > FormatMax
        BY <2>1, <3>1, <3>3, Serialize DEF Some
      <4> QED
        BY <2>1, <3>3, <4>1, Widths
    <3>4. CASE Time = None
      BY <2>1, <3>1, <3>4, Serialize DEF None
    <3> QED
      BY <2>2, <3>2, <3>3, <3>4, TimeCases
  <2> QED
    BY <2>3, <2>4, <2>5
<1> QED
  BY <1>1, Inductive, PTL

\* SameSecond: whatever the number of decimals, and also when the exponent of
\* from_decimal wraps, the nanoseconds never carry into the seconds.
THEOREM SecondIsKept == Spec => []SameSecond
<1>1. IInv => SameSecond
  <2> DEFINE ts == msg.doc.timestamp
  <2> SUFFICES ASSUME IInv, Printed, result.time.tag = "given"
               PROVE  Kept <= Sent /\ Sent < Kept + Second * Pow10[ts.scale]
    BY DEF SameSecond
  <2>1. Decimal(ts)
    BY DEF IInv, Received
  <2>2. result.time = Time /\ Time.tag # "panic" /\ Time # None
    BY EventIs DEF Printed, None
  <2>3. CASE Time = Some(0) /\ ts.negative
    <3>1. Kept = 0 * Pow10[ts.scale] /\ Sent = 0
      BY <2>2, <2>3 DEF Kept, Sent, Some
    <3>2. Second * Pow10[ts.scale] > 0
      BY <2>1, Parts, Widths
    <3> QED
      BY <2>1, <3>1, <3>2, Parts, Widths
  <2>4. CASE Time = Some(Stamp(ts)) /\ ~ts.negative
    <3>1. Kept = Stamp(ts) * Pow10[ts.scale] /\ Sent = ts.mantissa * Second
      BY <2>2, <2>4 DEF Kept, Sent, Some
    <3> QED
      BY <2>1, <3>1, StampValue
  <2> QED
    BY <2>2, <2>3, <2>4, TimeCases
<1> QED
  BY <1>1, Inductive, PTL

-----------------------------------------------------------------------------
(* ChunkRead, the reader that the decoders and the parser call: for        *)
(* messages of any number of chunks of any lengths and for buffers of any  *)
(* size.                                                                   *)

Byte == Nat \X Nat

Bytes(s) == {s[k] : k \in 1..Len(s)}

\* The position of the next byte, and what a message is.
ReaderTypes ==
  /\ single \in BOOLEAN
  /\ lens \in Seq(0..MaxChunk) /\ Len(lens) > 0
  /\ single => Len(lens) = 1 /\ chunk = 0
  /\ chunk \in 0..Len(lens)
  /\ cursor \in Nat
  /\ call \in {"idle", "loop"}
  /\ buf \in Nat
  /\ out \in Seq(Byte)

\* read leaves room in the buffer only at the end of the message.
AtEnd ==
  call = "idle" /\ buf > 0 =>
    IF single THEN cursor = length(0) ELSE chunk = Len(lens)

\* The inductive invariant.
ReaderInv == ReaderTypes /\ ReadsConcatenation /\ AtEnd

-----------------------------------------------------------------------------
LEMMA ReaderInit == ReadInit => ReaderInv
<1> SUFFICES ASSUME ReadInit PROVE ReaderInv
  OBVIOUS
<1>0. MaxChunks \in Nat \ {0} /\ MaxChunk \in Nat /\ MaxBuf \in Nat
  BY BoundsAssumption
<1>1. PICK n \in 1..MaxChunks : lens \in [1..n -> 0..MaxChunk]
  BY DEF ReadInit
<1>2. lens \in Seq(0..MaxChunk) /\ Len(lens) = n /\ n \in Nat /\ n > 0
  BY <1>0, <1>1
<1>3. ReaderTypes
  BY <1>0, <1>2 DEF ReadInit, ReaderTypes
<1>4. ReadsConcatenation
  <2>1. Len(out) = 0 /\ 1..Len(out) = {}
    BY DEF ReadInit
  <2>2. length(0) \in Nat
    BY <1>0, <1>1, <1>2 DEF length
  <2>3. ASSUME NEW a \in AllBytes PROVE ~Earlier(a, <<0, 0>>)
    BY <1>2 DEF AllBytes, Earlier
  <2>4. {a \in AllBytes : Earlier(a, <<chunk, cursor>>)} = {}
    BY <2>3 DEF ReadInit
  <2>5. {out[k] : k \in 1..Len(out)} = {}
    BY <2>1
  <2> QED
    BY <1>2, <2>1, <2>2, <2>4, <2>5 DEF ReadInit, ReadsConcatenation
<1> QED
  BY <1>3, <1>4 DEF ReadInit, ReaderInv, AtEnd

\* What one copy_from_slice adds.
LEMMA CopyFacts ==
  ASSUME ReaderInv, chunk < Len(lens)
  PROVE  /\ readable \in Nat /\ read \in 0..readable
         /\ length(chunk) \in 0..MaxChunk /\ length(chunk) = cursor + readable
         /\ read <= buf /\ (read < readable => read = buf)
         /\ Copied \in Seq(Byte) /\ Len(Copied) = Len(out) + read
         /\ \A k \in 1..Len(out) : Copied[k] = out[k]
         /\ \A k \in 1..read :
              Copied[Len(out) + k] = <<chunk, cursor + k - 1>>
<1>1. chunk \in Nat /\ cursor \in Nat /\ buf \in Nat /\ out \in Seq(Byte)
  BY DEF ReaderInv, ReaderTypes
<1>2. length(chunk) \in 0..MaxChunk /\ cursor <= length(chunk)
  BY BoundsAssumption DEF ReaderInv, ReaderTypes, ReadsConcatenation, length
<1>3. /\ readable \in Nat /\ length(chunk) = cursor + readable
      /\ read \in 0..readable /\ read <= buf
      /\ (read < readable => read = buf)
  BY <1>1, <1>2, BoundsAssumption DEF readable, read
<1> DEFINE new == [k \in 1..read |-> <<chunk, cursor + k - 1>>]
<1>4. \A k \in 1..read : <<chunk, cursor + k - 1>> \in Byte
  BY <1>1, <1>3 DEF Byte
<1>5. new \in Seq(Byte) /\ Len(new) = read
  BY <1>3, <1>4
<1>6. \A k \in 1..read : new[k] = <<chunk, cursor + k - 1>>
  OBVIOUS
<1> HIDE DEF new
<1>7. /\ Copied = out \o new
      /\ Copied \in Seq(Byte) /\ Len(Copied) = Len(out) + read
  <2>1. Copied = out \o new
    BY DEF Copied, new
  <2> QED
    BY <1>1, <1>5, <2>1, ConcatProperties
<1>8. /\ \A k \in 1..Len(out) : Copied[k] = out[k]
      /\ \A k \in 1..read : Copied[Len(out) + k] = new[k]
  <2>1. \A i \in 1..(Len(out) + Len(new)) :
          Copied[i] = IF i <= Len(out) THEN out[i] ELSE new[i - Len(out)]
    BY <1>1, <1>5, <1>7, ConcatProperties
  <2>2. \A k \in 1..read : /\ Len(out) + k \in 1..(Len(out) + Len(new))
                           /\ ~(Len(out) + k <= Len(out))
                           /\ (Len(out) + k) - Len(out) = k
    BY <1>1, <1>3, <1>5
  <2>3. \A k \in 1..Len(out) : k \in 1..(Len(out) + Len(new)) /\ k <= Len(out)
    BY <1>1, <1>3, <1>5
  <2> QED
    BY <2>1, <2>2, <2>3
<1> QED
  BY <1>2, <1>3, <1>6, <1>7, <1>8

\* An offset among those copied is at one place of the copy.
LEMMA Offset ==
  ASSUME NEW c \in Nat, NEW r \in Nat, NEW o \in c..(c + r - 1)
  PROVE  \E k \in 1..r : o = c + k - 1
<1>1. o - c + 1 \in 1..r /\ o = c + (o - c + 1) - 1
  OBVIOUS
<1> QED
  BY <1>1

\* Copying moves the position: what had been read and what is copied are the
\* bytes before the new one, in order.
LEMMA CopyStep ==
  ASSUME ReaderInv, chunk < Len(lens), NEW p,
         \/ p = <<chunk, cursor + read>>
         \/ p = <<chunk + 1, 0>> /\ read = readable
  PROVE  /\ Bytes(Copied) = {a \in AllBytes : Earlier(a, p)}
         /\ \A j, k \in 1..Len(Copied) : j < k => Earlier(Copied[j], Copied[k])
<1>1. /\ readable \in Nat /\ read \in 0..readable
      /\ length(chunk) \in 0..MaxChunk /\ length(chunk) = cursor + readable
      /\ Copied \in Seq(Byte) /\ Len(Copied) = Len(out) + read
      /\ \A k \in 1..Len(out) : Copied[k] = out[k]
      /\ \A k \in 1..read :
           Copied[Len(out) + k] = <<chunk, cursor + k - 1>>
  BY CopyFacts
<1>2. /\ chunk \in Nat /\ cursor \in Nat /\ Len(out) \in Nat /\ Len(lens) \in Nat
      /\ chunk \in 0..(Len(lens) - 1)
  BY DEF ReaderInv, ReaderTypes
<1>3. /\ Bytes(out) = {a \in AllBytes : Earlier(a, <<chunk, cursor>>)}
      /\ \A j, k \in 1..Len(out) : j < k => Earlier(out[j], out[k])
  BY DEF ReaderInv, ReadsConcatenation, Bytes
<1>4. \A a \in AllBytes :
        /\ a = <<a[1], a[2]>> /\ a[1] \in Nat /\ a[2] \in Nat
        /\ a[1] = chunk => a[2] < length(chunk)
  BY <1>2, BoundsAssumption DEF AllBytes
<1>5. ASSUME NEW o \in cursor..(cursor + read - 1)
      PROVE  <<chunk, o>> \in AllBytes /\ Earlier(<<chunk, o>>, p)
             /\ ~Earlier(<<chunk, o>>, <<chunk, cursor>>)
  <2>1. o \in 0..MaxChunk /\ o < length(chunk)
    BY <1>1, <1>2, BoundsAssumption
  <2>2. <<chunk, o>> \in AllBytes
    BY <1>2, <2>1 DEF AllBytes
  <2>3. Earlier(<<chunk, o>>, p)
    BY <1>1, <1>2 DEF Earlier
  <2>4. ~Earlier(<<chunk, o>>, <<chunk, cursor>>)
    BY <1>2 DEF Earlier
  <2> QED
    BY <2>2, <2>3, <2>4
<1>6. ASSUME NEW a \in AllBytes
      PROVE  Earlier(a, p) <=> \/ Earlier(a, <<chunk, cursor>>)
                                 \/ /\ a[1] = chunk
                                    /\ a[2] \in cursor..(cursor + read - 1)
  <2>1. a[1] \in Nat /\ a[2] \in Nat /\ (a[1] = chunk => a[2] < cursor + readable)
    BY <1>1, <1>4
  <2>2. CASE p = <<chunk, cursor + read>>
    BY <1>1, <1>2, <2>1, <2>2 DEF Earlier
  <2>3. CASE p = <<chunk + 1, 0>> /\ read = readable
    <3>1. Earlier(a, p) <=> a[1] < chunk + 1
      BY <1>2, <2>1, <2>3 DEF Earlier
    <3>2. Earlier(a, <<chunk, cursor>>) <=>
            a[1] < chunk \/ (a[1] = chunk /\ a[2] < cursor)
      BY DEF Earlier
    <3> QED
      BY <1>1, <1>2, <2>1, <2>3, <3>1, <3>2
  <2> QED
    BY <2>2, <2>3
<1>7. Bytes(Copied) = {a \in AllBytes : Earlier(a, p)}
  <2>1. ASSUME NEW k \in 1..Len(Copied)
        PROVE  Copied[k] \in AllBytes /\ Earlier(Copied[k], p)
    <3>1. CASE k \in 1..Len(out)
      BY <1>1, <1>3, <1>6, <3>1 DEF Bytes
    <3>2. CASE k \notin 1..Len(out)
      <4>1. k - Len(out) \in 1..read /\ k = Len(out) + (k - Len(out))
        BY <1>1, <1>2, <3>2
      <4>2. Copied[k] = <<chunk, cursor + (k - Len(out)) - 1>>
        BY <1>1, <4>1
      <4>3. cursor + (k - Len(out)) - 1 \in cursor..(cursor + read - 1)
        BY <1>1, <1>2, <4>1
      <4> QED
        BY <1>5, <4>2, <4>3
    <3> QED
      BY <3>1, <3>2
  <2>2. ASSUME NEW a \in AllBytes, Earlier(a, p)
        PROVE  \E k \in 1..Len(Copied) : Copied[k] = a
    <3>1. CASE Earlier(a, <<chunk, cursor>>)
      <4>1. PICK k \in 1..Len(out) : out[k] = a
        BY <1>3, <3>1 DEF Bytes
      <4> QED
        BY <1>1, <1>2, <4>1
    <3>2. CASE a[1] = chunk /\ a[2] \in cursor..(cursor + read - 1)
      <4>1. PICK k \in 1..read : a[2] = cursor + k - 1
        <5>1. read \in Nat
          BY <1>1
        <5> QED
          BY <1>2, <3>2, <5>1, Offset
      <4>0. Len(out) + k \in 1..Len(Copied)
        BY <1>1, <1>2
      <4>2. Copied[Len(out) + k] = <<chunk, a[2]>>
        BY <1>1, <4>1
      <4>3. a = <<chunk, a[2]>>
        BY <1>4, <3>2
      <4> QED
        BY <4>0, <4>2, <4>3
    <3> QED
      BY <1>6, <2>2, <3>1, <3>2
  <2> QED
    BY <2>1, <2>2 DEF Bytes
<1>8. ASSUME NEW j \in 1..Len(Copied), NEW k \in 1..Len(Copied), j < k
      PROVE  Earlier(Copied[j], Copied[k])
  <2>1. CASE k \in 1..Len(out)
    <3>1. j \in 1..Len(out)
      BY <1>2, <1>8, <2>1
    <3> QED
      BY <1>1, <1>3, <1>8, <2>1, <3>1
  <2>2. CASE k \notin 1..Len(out)
    <3> DEFINE l == k - Len(out)
    <3>1. l \in 1..read /\ k = Len(out) + l
      BY <1>1, <1>2, <2>2
    <3> HIDE DEF l
    <3>2. Copied[k] = <<chunk, cursor + l - 1>>
      BY <1>1, <3>1
    <3>3. CASE j \in 1..Len(out)
      <4>1. Copied[j] \in AllBytes /\ Earlier(Copied[j], <<chunk, cursor>>)
        BY <1>1, <1>3, <3>3 DEF Bytes
      <4> DEFINE b == Copied[j]
      <4>2. b[1] \in Nat /\ b[2] \in Nat
        BY <1>4, <4>1
      <4> HIDE DEF b
      <4>3. Earlier(b, <<chunk, cursor>>)
        BY <4>1 DEF b
      <4>4. Earlier(b, <<chunk, cursor + l - 1>>)
        BY <1>1, <1>2, <3>1, <4>2, <4>3 DEF Earlier
      <4> QED
        BY <3>2, <4>4 DEF b
    <3>4. CASE j \notin 1..Len(out)
      <4> DEFINE i == j - Len(out)
      <4>1. i \in 1..read /\ j = Len(out) + i /\ i < l
        BY <1>1, <1>2, <1>8, <3>1, <3>4
      <4> HIDE DEF i
      <4>2. Copied[j] = <<chunk, cursor + i - 1>>
        BY <1>1, <4>1
      <4>3. Earlier(<<chunk, cursor + i - 1>>, <<chunk, cursor + l - 1>>)
        BY <1>1, <1>2, <3>1, <4>1 DEF Earlier
      <4> QED
        BY <3>2, <4>2, <4>3
    <3> QED
      BY <3>3, <3>4
  <2> QED
    BY <2>1, <2>2
<1> QED
  BY <1>7, <1>8

-----------------------------------------------------------------------------
LEMMA CallStep ==
  ASSUME ReaderInv, NEW n \in 0..MaxBuf, Call(n)
  PROVE  ReaderInv'
<1> USE DEF Call, message
<1>1. ReaderTypes'
  BY BoundsAssumption DEF ReaderInv, ReaderTypes
<1>2. ReadsConcatenation'
  BY DEF ReaderInv, ReadsConcatenation, AllBytes, length
<1>3. AtEnd'
  BY DEF AtEnd
<1> QED
  BY <1>1, <1>2, <1>3 DEF ReaderInv

LEMMA ReadSingleStep ==
  ASSUME ReaderInv, ReadSingle
  PROVE  ReaderInv'
<1> USE DEF ReadSingle, message
<1>1. /\ chunk = 0 /\ Len(lens) = 1 /\ cursor \in Nat /\ buf \in Nat /\ ReaderTypes
  BY DEF ReaderInv, ReaderTypes
<1>2. /\ readable \in Nat /\ read \in 0..readable
      /\ length(chunk) \in 0..MaxChunk /\ length(chunk) = cursor + readable
      /\ read <= buf /\ (read < readable => read = buf)
      /\ Copied \in Seq(Byte)
  BY <1>1, CopyFacts
<1>3. /\ Bytes(Copied) = {a \in AllBytes : Earlier(a, <<chunk, cursor + read>>)}
      /\ \A j, k \in 1..Len(Copied) : j < k => Earlier(Copied[j], Copied[k])
  BY <1>1, CopyStep
<1>4. cursor' \in Nat /\ buf' \in Nat
  BY <1>1, <1>2
<1>5. ReaderTypes'
  BY <1>1, <1>2, <1>4 DEF ReaderTypes
<1>6. ReadsConcatenation'
  <2>1. AllBytes' = AllBytes /\ length(chunk)' = length(chunk)
    BY DEF AllBytes, length
  <2>2. cursor' \in 0..length(chunk)
    BY <1>1, <1>2, BoundsAssumption
  <2>3. Bytes(out') = {a \in AllBytes : Earlier(a, <<chunk, cursor'>>)}
    BY <1>3
  <2>4. \A j, k \in 1..Len(out') : j < k => Earlier(out'[j], out'[k])
    BY <1>3
  <2> QED
    BY <1>1, <2>1, <2>2, <2>3, <2>4 DEF ReadsConcatenation, Bytes
<1>7. AtEnd'
  <2>1. ASSUME buf - read > 0 PROVE cursor + read = length(0)
    BY <1>1, <1>2, <2>1
  <2> QED
    BY <2>1 DEF AtEnd, length
<1> QED
  BY <1>5, <1>6, <1>7 DEF ReaderInv

LEMMA ReadChunkStep ==
  ASSUME ReaderInv, ReadChunk
  PROVE  ReaderInv'
<1> USE DEF ReadChunk, message
<1>1. /\ chunk \in Nat /\ Len(lens) \in Nat /\ chunk < Len(lens)
      /\ cursor \in Nat /\ buf \in Nat /\ ReaderTypes
  BY DEF ReaderInv, ReaderTypes, Finished
<1>2. /\ readable \in Nat /\ read \in 0..readable
      /\ length(chunk) \in 0..MaxChunk /\ length(chunk) = cursor + readable
      /\ read <= buf
      /\ Copied \in Seq(Byte)
  BY <1>1, CopyFacts
<1>3. \/ chunk' = chunk /\ cursor' = cursor + read
      \/ chunk' = chunk + 1 /\ cursor' = 0 /\ read = readable
  BY DEF NextChunk, NextCursor
<1>4. /\ Bytes(Copied) = {a \in AllBytes : Earlier(a, <<chunk', cursor'>>)}
      /\ \A j, k \in 1..Len(Copied) : j < k => Earlier(Copied[j], Copied[k])
  BY <1>1, <1>3, CopyStep
<1>5. cursor' \in Nat /\ buf' \in Nat /\ chunk' \in 0..Len(lens)
  BY <1>1, <1>2, <1>3
<1>6. ReaderTypes'
  BY <1>1, <1>2, <1>5 DEF ReaderTypes
<1>7. ReadsConcatenation'
  <2>1. AllBytes' = AllBytes
    BY DEF AllBytes, length
  <2>2. ASSUME chunk' < Len(lens) PROVE cursor' \in 0..length(chunk)'
    <3>1. CASE chunk' = chunk /\ cursor' = cursor + read
      <4>1. length(chunk)' = length(chunk)
        BY <3>1 DEF length
      <4> QED
        BY <1>1, <1>2, <3>1, <4>1, BoundsAssumption
    <3>2. CASE chunk' = chunk + 1 /\ cursor' = 0
      <4>1. length(chunk)' \in 0..MaxChunk
        <5>1. chunk + 1 + 1 \in 1..Len(lens)
          BY <1>1, <2>2, <3>2
        <5>2. lens[chunk + 1 + 1] \in 0..MaxChunk
          <6>1. lens \in Seq(0..MaxChunk)
            BY <1>1 DEF ReaderTypes
          <6> QED
            BY <5>1, <6>1, ElementOfSeq
        <5> QED
          BY <3>2, <5>2 DEF length
      <4> QED
        BY <3>2, <4>1, BoundsAssumption
    <3> QED
      BY <1>3, <3>1, <3>2
  <2>3. Bytes(out') = {a \in AllBytes : Earlier(a, <<chunk', cursor'>>)}
    BY <1>4
  <2>4. \A j, k \in 1..Len(out') : j < k => Earlier(out'[j], out'[k])
    BY <1>4
  <2> QED
    BY <1>5, <2>1, <2>2, <2>3, <2>4 DEF ReadsConcatenation, Bytes
<1>8. AtEnd'
  BY DEF AtEnd
<1> QED
  BY <1>6, <1>7, <1>8 DEF ReaderInv

LEMMA ReturnStep ==
  ASSUME ReaderInv, ReturnChunked
  PROVE  ReaderInv'
<1> USE DEF ReturnChunked, message
<1>1. ReaderTypes'
  BY DEF ReaderInv, ReaderTypes
<1>2. ReadsConcatenation'
  BY DEF ReaderInv, ReadsConcatenation, AllBytes, length
<1>3. AtEnd'
  BY DEF AtEnd, Finished
<1> QED
  BY <1>1, <1>2, <1>3 DEF ReaderInv

LEMMA ReaderNext == ReaderInv /\ [ReadNext]_reader => ReaderInv'
<1> SUFFICES ASSUME ReaderInv, [ReadNext]_reader PROVE ReaderInv'
  OBVIOUS
<1>1. CASE UNCHANGED reader
  <2> USE <1>1 DEF reader, message
  <2>1. ReaderTypes' /\ AtEnd'
    BY DEF ReaderInv, ReaderTypes, AtEnd, length
  <2>2. ReadsConcatenation'
    BY DEF ReaderInv, ReadsConcatenation, AllBytes, length
  <2> QED
    BY <2>1, <2>2 DEF ReaderInv
<1> QED
  BY <1>1, CallStep, ReadSingleStep, ReadChunkStep, ReturnStep DEF ReadNext

\* Every state of ChunkRead satisfies the inductive invariant: it holds of a
\* message no byte of which was read, and every copy of read preserves it.
THEOREM ReaderInductive == ReadSpec => []ReaderInv
<1>1. ReadInit => ReaderInv
  BY ReaderInit
<1>2. ReaderInv /\ [ReadNext]_reader => ReaderInv'
  BY ReaderNext
<1> QED
  BY <1>1, <1>2, PTL DEF ReadSpec

\* What ChunkRead::read has given out is the concatenation of the chunks up to
\* its chunk and cursor, which never leave the message.
THEOREM ReadsTheConcatenation == ReadSpec => []ReadsConcatenation
<1>1. ReaderInv => ReadsConcatenation
  BY DEF ReaderInv
<1> QED
  BY <1>1, ReaderInductive, PTL

\* ChunkRead::read leaves room in its caller's buffer only after the last byte.
THEOREM ShortReadIsEnd == ReadSpec => []ShortOnlyAtEnd
<1>1. ReaderInv => ShortOnlyAtEnd
  <2> SUFFICES ASSUME ReaderInv, call = "idle", buf > 0
               PROVE  \A a \in AllBytes : Earlier(a, <<chunk, cursor>>)
    BY DEF ReaderInv, ReadsConcatenation, ShortOnlyAtEnd
  <2> SUFFICES ASSUME NEW a \in AllBytes
               PROVE  Earlier(a, <<chunk, cursor>>)
    OBVIOUS
  <2>1. /\ a[1] \in 0..(Len(lens) - 1) /\ a[2] \in Nat /\ a[2] < length(a[1])
        /\ Len(lens) \in Nat
    BY BoundsAssumption DEF AllBytes, ReaderInv, ReaderTypes
  <2>2. CASE single
    <3>1. Len(lens) = 1 /\ chunk = 0 /\ cursor = length(0)
      BY <2>2 DEF ReaderInv, ReaderTypes, AtEnd
    <3>2. a[1] = 0
      BY <2>1, <3>1
    <3> QED
      BY <2>1, <3>1, <3>2 DEF Earlier
  <2>3. CASE ~single
    BY <2>1, <2>3 DEF ReaderInv, ReaderTypes, AtEnd, Earlier
  <2> QED
    BY <2>2, <2>3
<1> QED
  BY <1>1, ReaderInductive, PTL
================================================================================
