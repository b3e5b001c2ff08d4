------------------------------- MODULE Timestamp -------------------------------
(***************************************************************************)
(* Timestamp of sqelf/src/process/clef.rs: the decimal number of seconds a *)
(* client sent as a SystemTime.                                            *)
(*                                                                         *)
(* The widths of the code are parameters: nine digits of nanoseconds, a    *)
(* 32 bit word for them, a 64 bit word for seconds, a SystemTime with 63   *)
(* bits of seconds and a formatter that ends with the year 9999.           *)
(***************************************************************************)
EXTENDS Integers

CONSTANTS
  Digits,       \* digits of a nanosecond
  Bits,         \* width of the word the nanoseconds are computed in
  U64Max,       \* the last second a u64 holds
  SystemMax,    \* the last second a SystemTime holds
  FormatMax,    \* the last second format_rfc3339 writes
  MaxScale,     \* bound on the decimals of a number
  MaxSeconds    \* bound on its seconds

\* Ten to the power n; the provers have no theory of ^.
Pow10[n \in Nat] == IF n = 0 THEN 1 ELSE 10 * Pow10[n - 1]

\* The last conjunct: an exponent that wraps is at least Bits, as 2^32 + 9 - 28
\* is, where 28 is the largest scale of a Decimal.
ASSUME WidthsAssumption ==
  /\ Digits \in Nat /\ Bits \in Nat /\ Pow10[Digits] <= 2^Bits
  /\ {FormatMax, SystemMax, U64Max, MaxSeconds} \subseteq Nat
  /\ FormatMax < SystemMax /\ SystemMax < U64Max /\ U64Max < MaxSeconds
  /\ MaxScale \in Nat /\ MaxScale + Bits <= 2^Bits + Digits

Second == Pow10[Digits]

\* A Decimal: mantissa / 10^scale, with its sign.
Decimals ==
  UNION {[mantissa : 0..(MaxSeconds + 1) * Pow10[s] - 1, scale : {s},
          negative : BOOLEAN] : s \in 0..MaxScale}

\* 9 - scale on u32, in a build that does not check: pow wraps as well, and ten
\* to a power of at least Bits is a multiple of the word.
WrappedPow(e) == IF e >= Bits THEN 0 ELSE Pow10[e] % 2^Bits

secs(ts) == ts.mantissa \div Pow10[ts.scale]

\* fract, and set_scale(0).
scaled_fract(ts) == ts.mantissa % Pow10[ts.scale]

FaultyNanos(ts) == scaled_fract(ts)

nanos(ts) ==
  IF ts.scale <= Digits THEN scaled_fract(ts) * Pow10[Digits - ts.scale]
  ELSE (scaled_fract(ts) * WrappedPow(2^Bits + Digits - ts.scale)) % 2^Bits

\* The SystemTime, in nanoseconds since the epoch.
Some(stamp) == [tag |-> "given", stamp |-> stamp]

None == [tag |-> "none", stamp |-> 0]

FaultyBeforeEpoch(ts) == Some(secs(ts) * Second)

\* A time before the epoch is taken for the epoch.
BeforeEpoch(ts) == Some(0)

\* to_u64 or to_u32 returns None.
TooLarge(ts) == secs(ts) > U64Max \/ scaled_fract(ts) >= 2^Bits

\* checked: the build checks the subtraction in the exponent for overflow.
\* checked_add returns None for what a SystemTime cannot hold.
from_decimal(ts, checked) ==
  CASE ts.negative -> BeforeEpoch(ts)
    [] ~ts.negative /\ TooLarge(ts) -> None
    [] ~ts.negative /\ ~TooLarge(ts) /\ checked /\ ts.scale > Digits ->
         [tag |-> "panic", stamp |-> 0]
    [] OTHER -> IF secs(ts) > SystemMax THEN None
                ELSE Some(secs(ts) * Second + nanos(ts))

\* The formatter fails beyond its last year, and collect_str of serde_json
\* takes it that only the output can fail, which a String never does.
SerializePanics(stamp) == stamp \div Second > FormatMax
=============================================================================
