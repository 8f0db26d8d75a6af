---------------------------- MODULE RetryPolicy ----------------------------
(***************************************************************************)
(* The delay before a retry (policy.rs): exponential backoff with a cap    *)
(* and deterministic jitter, in integers of bounded width.  The bounds of  *)
(* the widths are parameters: u64 and i64 are the largest values of those  *)
(* types.  Division truncates toward zero.                                 *)
(***************************************************************************)
EXTENDS Integers, TLAPS

MAX_RETRY_DELAY_SECS(i64) == i64 \div 2000

(* BoundViolation::check. *)
Checked(policy, i64) ==
    \/ /\ policy.kind = "fixed"
       /\ policy.delay_secs \in 1 .. MAX_RETRY_DELAY_SECS(i64)
    \/ /\ policy.kind = "exponential"
       /\ policy.initial_secs \in Nat \ {0}
       /\ policy.max_secs \in policy.initial_secs .. MAX_RETRY_DELAY_SECS(i64)
       /\ policy.jitter_percent \in 0 .. 100

Smaller(a, b) == IF a <= b THEN a ELSE b

saturating_mul(a, b, u64) == Smaller(a * b, u64)

(* multiplier is 1 << min(attempt - 1, 63). *)
Base(policy, multiplier, u64) ==
    Smaller(saturating_mul(policy.initial_secs, multiplier, u64), policy.max_secs)

Spread(base, jitter_percent) == (base * jitter_percent) \div 100

Truncated(a) == IF a >= 0 THEN a \div 100 ELSE 0 - ((0 - a) \div 100)

Delta(base, jitter_percent, percentile) ==
    Truncated(Spread(base, jitter_percent) * (2 * percentile - 100))

clamp(a, u64) == IF a < 0 THEN 0 ELSE IF a > u64 THEN u64 ELSE a

apply_jitter(base, jitter_percent, percentile, u64) ==
    clamp(base + Delta(base, jitter_percent, percentile), u64)

(* Attempt zero and a percentile above 100 are refused before. *)
delay_for_attempt(policy, multiplier, percentile, u64) ==
    IF policy.kind = "fixed" THEN policy.delay_secs
    ELSE apply_jitter(Base(policy, multiplier, u64),
                      policy.jitter_percent, percentile, u64)
----------------------------------------------------------------------------
(* A product with a percentage, divided by 100, lies between 0 and the     *)
(* other factor.                                                           *)
LEMMA PercentBounded ==
    ASSUME NEW a \in Nat, NEW percent \in 0 .. 100
    PROVE  (a * percent) \div 100 \in 0 .. a
<1> DEFINE n == a * percent
<1>1. n \in Nat /\ n <= a * 100
    BY SMT
<1>2. n \div 100 \in Nat /\ 100 * (n \div 100) <= n
    <2> HIDE DEF n
    <2> QED BY <1>1, SMT
<1>3. n \div 100 <= a
    <2> HIDE DEF n
    <2> QED BY <1>1, <1>2, SMT
<1> QED BY <1>2, <1>3, SMT

(* The jitter moves a delay by at most its spread, either way.             *)
LEMMA TruncatedBounded ==
    ASSUME NEW s \in Nat, NEW percentile \in 0 .. 100
    PROVE  Truncated(s * (2 * percentile - 100)) \in (0 - s) .. s
<1> DEFINE c == 2 * percentile - 100
<1>1. c \in -100 .. 100
    BY SMT
<1>2. CASE c >= 0
    <2>1. s * c >= 0 /\ s * c \in Int
        <3> HIDE DEF c
        <3> QED BY <1>1, <1>2, SMT
    <2>2. (s * c) \div 100 \in 0 .. s
        <3> HIDE DEF c
        <3> QED BY <1>1, <1>2, PercentBounded, SMT
    <2> QED BY <2>1, <2>2, SMT DEF Truncated
<1>3. CASE c < 0
    <2> DEFINE d == 0 - c
    <2>1. d \in 0 .. 100
        BY <1>1, <1>3, SMT
    <2>2. (s * d) \div 100 \in 0 .. s
        <3> HIDE DEF d
        <3> QED BY <2>1, PercentBounded
    <2>3. s * c = 0 - (s * d) /\ s * d \in Nat
        BY <1>1, <2>1, SMT
    <2> HIDE DEF d
    <2>4. CASE s * c < 0
        BY <2>2, <2>3, <2>4, SMT DEF Truncated
    <2>5. CASE s * c = 0
        BY <2>5, SMT DEF Truncated
    <2> QED BY <2>3, <2>4, <2>5, SMT
<1> QED BY <1>1, <1>2, <1>3, SMT

(* The capped delay lies between the first delay and the cap, whatever the *)
(* multiplication saturates to.                                            *)
LEMMA BaseBounded ==
    ASSUME NEW u64 \in Nat, NEW multiplier \in Nat \ {0}, NEW policy,
           policy.initial_secs \in Nat \ {0}, policy.max_secs \in Nat,
           policy.initial_secs <= policy.max_secs, policy.max_secs <= u64
    PROVE  Base(policy, multiplier, u64) \in policy.initial_secs .. policy.max_secs
<1> DEFINE initial == policy.initial_secs
           max == policy.max_secs
           product == initial * multiplier
<1>1. initial \in Nat \ {0} /\ max \in Nat /\ initial <= max /\ max <= u64
    OBVIOUS
<1> HIDE DEF initial, max
<1>2. product \in Nat /\ product >= initial
    BY <1>1, SMT
<1> HIDE DEF product
<1>3. Smaller(Smaller(product, u64), max) \in initial .. max
    BY <1>1, <1>2, SMT DEF Smaller
<1> QED BY <1>3 DEF Base, saturating_mul, product, initial, max

(* The delay is the capped one, moved by at most spread. *)
WithinSpread(policy, multiplier, percentile, u64) ==
    \E base \in policy.initial_secs .. policy.max_secs :
        \E spread \in 0 .. base : \E delta \in (0 - spread) .. spread :
            /\ base = Base(policy, multiplier, u64)
            /\ spread = Spread(base, policy.jitter_percent)
            /\ delay_for_attempt(policy, multiplier, percentile, u64) = base + delta

(* An exponential delay_for_attempt is the capped delay moved by at most   *)
(* jitter_percent of it, for every attempt and percentile: the clamp of    *)
(* apply_jitter never acts, so the jitter is never cut off on one side.    *)
THEOREM DelayWithinSpread ==
    ASSUME NEW i64 \in Nat, NEW u64 \in Nat, i64 <= u64,
           NEW policy, Checked(policy, i64), policy.kind = "exponential",
           NEW multiplier \in Nat \ {0}, NEW percentile \in 0 .. 100
    PROVE  WithinSpread(policy, multiplier, percentile, u64)
<1>0. \E base, spread, delta :
        /\ base = Base(policy, multiplier, u64)
        /\ spread = Spread(base, policy.jitter_percent)
        /\ delta = Delta(base, policy.jitter_percent, percentile)
    OBVIOUS
<1> PICK base, spread, delta :
        /\ base = Base(policy, multiplier, u64)
        /\ spread = Spread(base, policy.jitter_percent)
        /\ delta = Delta(base, policy.jitter_percent, percentile)
    BY <1>0
<1> DEFINE initial == policy.initial_secs
           max == policy.max_secs
           jitter == policy.jitter_percent
<1>1. /\ initial \in Nat \ {0} /\ max \in initial .. (i64 \div 2000)
      /\ jitter \in 0 .. 100
    BY DEF Checked, MAX_RETRY_DELAY_SECS
<1>2. max \in Nat /\ initial <= max /\ 2 * max <= u64 /\ max <= u64
    <2> HIDE DEF initial, max
    <2> QED BY <1>1, SMT
<1>3. base \in initial .. max
    BY <1>1, <1>2, BaseBounded
<1>4. base \in Nat /\ base <= max
    <2> HIDE DEF initial, max
    <2> QED BY <1>1, <1>2, <1>3, SMT
<1>5. spread \in 0 .. base
    BY <1>1, <1>4, PercentBounded DEF Spread
<1>6. spread \in Nat
    BY <1>4, <1>5, SMT
<1>7. delta \in (0 - spread) .. spread
    BY <1>6, TruncatedBounded DEF Delta
<1>8. clamp(base + delta, u64) = base + delta
    <2> HIDE DEF max
    <2> QED BY <1>2, <1>4, <1>5, <1>6, <1>7, SMT DEF clamp
<1>9. delay_for_attempt(policy, multiplier, percentile, u64) = base + delta
    BY <1>8 DEF delay_for_attempt, apply_jitter
<1> QED BY <1>3, <1>5, <1>7, <1>9 DEF WithinSpread

(* The delay of a checked policy, in milliseconds, fits the database's     *)
(* i64, at the largest delay and with 100 percent jitter as well:          *)
(* duration_millis never refuses it.                                       *)
THEOREM DelayFitsMillis ==
    ASSUME NEW i64 \in Nat, NEW u64 \in Nat, i64 <= u64,
           NEW policy, Checked(policy, i64),
           NEW multiplier \in Nat \ {0}, NEW percentile \in 0 .. 100
    PROVE  1000 * delay_for_attempt(policy, multiplier, percentile, u64) \in 0 .. i64
<1> DEFINE delay == delay_for_attempt(policy, multiplier, percentile, u64)
<1>1. CASE policy.kind = "fixed"
    <2>1. delay \in 1 .. (i64 \div 2000)
        BY <1>1 DEF Checked, MAX_RETRY_DELAY_SECS, delay_for_attempt
    <2> HIDE DEF delay
    <2>2. 1000 * delay \in 0 .. i64
        BY <2>1, SMT
    <2> QED BY <2>2 DEF delay
<1>2. CASE policy.kind = "exponential"
    <2> DEFINE initial == policy.initial_secs
               max == policy.max_secs
    <2>1. initial \in Nat \ {0} /\ max \in initial .. (i64 \div 2000)
        BY <1>2 DEF Checked, MAX_RETRY_DELAY_SECS
    <2>2. WithinSpread(policy, multiplier, percentile, u64)
        <3> HIDE DEF initial, max, delay
        <3> QED BY <1>2, DelayWithinSpread
    <2>3. PICK base \in initial .. max : \E spread \in 0 .. base :
            \E delta \in (0 - spread) .. spread : delay = base + delta
        BY <2>2 DEF WithinSpread
    <2>4. PICK spread \in 0 .. base : \E delta \in (0 - spread) .. spread :
            delay = base + delta
        BY <2>3
    <2> HIDE DEF initial, max, delay
    <2>5. 2000 * max <= i64 /\ delay \in 0 .. 2 * max
        BY <2>1, <2>4, SMT
    <2>6. 1000 * delay \in 0 .. i64
        BY <2>1, <2>5, SMT
    <2> QED BY <2>6 DEF delay
<1> QED BY <1>1, <1>2 DEF Checked
=============================================================================
