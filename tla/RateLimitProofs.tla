--------------------------- MODULE RateLimitProofs ---------------------------
(***************************************************************************)
(* Theorems about RateLimit, for any rate, budget and clock movement.      *)
(***************************************************************************)
EXTENDS MCRateLimit, FiniteSetTheorems, WellFoundedInduction, TLAPS

(* The bucket has a size.                                                   *)
LEMMA BucketSizeNat == BucketSize \in Nat
  BY LimitsAssumption DEF BucketSize

(* What check finds for an org is a bucket between empty and full, and a    *)
(* refill time that never goes back, whatever the wall clock does.          *)
LEMMA RefillFacts ==
    ASSUME TypeOK, NEW o \in Orgs
    PROVE  /\ Refilled(o) \in 0 .. BucketSize
           /\ RefilledAt(o) \in Clock
           /\ o \in known =>
                /\ RefilledAt(o) >= spansLastRefill[o]
                /\ Refilled(o) <= spansBucket[o]
                       + SpansPerSec * (RefilledAt(o) - spansLastRefill[o])
                /\ \/ Refilled(o) = BucketSize
                   \/ Refilled(o) = spansBucket[o]
                        + SpansPerSec * (RefilledAt(o) - spansLastRefill[o])
           /\ o \notin known => Refilled(o) = BucketSize /\ RefilledAt(o) = now
<1> DEFINE elapsed == MaxOf(0, now - spansLastRefill[o])
<1>1. /\ BucketSize \in Nat /\ SpansPerSec \in Nat /\ MaxClock \in Nat
      /\ now \in Clock /\ spansLastRefill[o] \in Clock
      /\ spansBucket[o] \in 0 .. BucketSize
    BY BucketSizeNat, LimitsAssumption DEF TypeOK
<1>2. /\ elapsed \in Nat
      /\ RefilledAt(o) \in Clock
      /\ o \in known => RefilledAt(o) = spansLastRefill[o] + elapsed
    BY <1>1 DEF MaxOf, RefilledAt, Clock
<1>3. elapsed * SpansPerSec \in Nat /\ elapsed * SpansPerSec = SpansPerSec * elapsed
    BY <1>1, <1>2
<1>4. CASE o \in known
  <2>1. Refilled(o) = MinOf(BucketSize, spansBucket[o] + elapsed * SpansPerSec)
      BY <1>4 DEF Refilled, LevelAt
  <2>2. /\ Refilled(o) \in 0 .. BucketSize
        /\ Refilled(o) <= spansBucket[o] + elapsed * SpansPerSec
        /\ \/ Refilled(o) = BucketSize
           \/ Refilled(o) = spansBucket[o] + elapsed * SpansPerSec
    <3> HIDE DEF elapsed
    <3> QED BY <1>1, <1>3, <2>1 DEF MinOf
  <2>3. RefilledAt(o) - spansLastRefill[o] = elapsed
    <3> HIDE DEF elapsed
    <3> QED BY <1>1, <1>2, <1>4 DEF Clock
  <2>4. RefilledAt(o) >= spansLastRefill[o]
    <3> HIDE DEF elapsed
    <3> QED BY <1>1, <1>2, <1>4 DEF Clock
  <2> QED BY <1>2, <1>3, <1>4, <2>2, <2>3, <2>4
<1>5. CASE o \notin known
    BY <1>1, <1>2, <1>5 DEF Refilled, RefilledAt
<1> QED BY <1>4, <1>5

(* The bytes side of the same: the counter is a number and the window       *)
(* starts within the clock's range.                                         *)
LEMMA WindowFacts ==
    ASSUME TypeOK, NEW o \in Orgs
    PROVE  BytesUsed(o) \in 0 .. BytesPerDay /\ WindowStart(o) \in Clock
  BY LimitsAssumption DEF TypeOK, BytesUsed, WindowStart, WindowOpen

-----------------------------------------------------------------------------
(* The inductive invariant: the types (an overdrawn or overfull bucket is   *)
(* not well typed) and the conservation law.                                *)
Inv == TypeOK /\ BucketConservation

(* The one product of two variables that the proofs need.                   *)
LEMMA Distribute ==
    ASSUME NEW r \in Int, NEW a \in Int, NEW b \in Int, NEW c \in Int
    PROVE  r * (a - c) = r * (b - c) + r * (a - b)
  OBVIOUS

(* One call of check that takes `units` from the bucket and b bytes from    *)
(* the budget preserves the invariant.                                      *)
LEMMA StoreStep ==
    ASSUME Inv, NEW o \in Orgs, NEW n \in Nat, NEW b \in Nat, Store(o, n, b),
           Refilled(o) >= n * Second, BytesUsed(o) + b <= BytesPerDay,
           spent' = [spent EXCEPT ![o] = @ + n * Second]
    PROVE  Inv'
<1> DEFINE units == n * Second
<1>1. TypeOK /\ BucketConservation
    BY DEF Inv
<1>2. /\ units \in Nat /\ BucketSize \in Nat /\ SpansPerSec \in Nat
      /\ BytesPerDay \in Nat /\ MaxClock \in Nat
    BY BucketSizeNat, LimitsAssumption
<1>3. /\ known' = known \cup {o}
      /\ spansBucket' = [spansBucket EXCEPT ![o] = Refilled(o) - units]
      /\ spansLastRefill' = [spansLastRefill EXCEPT ![o] = RefilledAt(o)]
      /\ bytesUsedDay' = [bytesUsedDay EXCEPT ![o] = BytesUsed(o) + b]
      /\ bytesDayStartedAt' = [bytesDayStartedAt EXCEPT ![o] = WindowStart(o)]
      /\ openedAt' = IF o \in known THEN openedAt
                     ELSE [openedAt EXCEPT ![o] = now]
      /\ now' = now
      /\ spent' = [spent EXCEPT ![o] = @ + units]
      /\ Refilled(o) >= units
    BY DEF Store
<1> HIDE DEF units
<1>4. /\ Refilled(o) \in 0 .. BucketSize /\ RefilledAt(o) \in Clock
      /\ BytesUsed(o) \in 0 .. BytesPerDay /\ WindowStart(o) \in Clock
    BY <1>1, RefillFacts, WindowFacts
<1>5. TypeOK'
  <2>1. spansBucket' \in [Orgs -> 0 .. BucketSize]
    <3>1. Refilled(o) - units \in 0 .. BucketSize
        BY <1>2, <1>3, <1>4
    <3> QED BY <1>1, <1>3, <3>1 DEF TypeOK
  <2>2. bytesUsedDay' \in [Orgs -> 0 .. BytesPerDay]
    <3>1. BytesUsed(o) + b \in 0 .. BytesPerDay
        BY <1>2, <1>4
    <3> QED BY <1>1, <1>3, <3>1 DEF TypeOK
  <2>3. spent' \in [Orgs -> Nat] /\ \A q \in Orgs \ known' : spent'[q] = 0
    <3>1. spent[o] + units \in Nat
        BY <1>1, <1>2 DEF TypeOK
    <3> QED BY <1>1, <1>3, <3>1 DEF TypeOK
  <2>4. openedAt' \in [Orgs -> Clock]
      BY <1>1, <1>3 DEF TypeOK
  <2>5. /\ spansLastRefill' \in [Orgs -> Clock]
        /\ bytesDayStartedAt' \in [Orgs -> Clock]
        /\ known' \subseteq Orgs /\ now' \in Clock
      BY <1>1, <1>3, <1>4 DEF TypeOK
  <2> QED BY <2>1, <2>2, <2>3, <2>4, <2>5 DEF TypeOK
<1>6. ASSUME NEW q \in known'
      PROVE  spent'[q] + spansBucket'[q] <=
               BucketSize + SpansPerSec * (spansLastRefill'[q] - openedAt'[q])
  <2>1. CASE q # o
    <3>1. q \in known /\ q \in Orgs
        BY <1>1, <1>3, <1>6, <2>1 DEF TypeOK
    <3>2. /\ spent'[q] = spent[q] /\ spansBucket'[q] = spansBucket[q]
          /\ spansLastRefill'[q] = spansLastRefill[q]
          /\ openedAt'[q] = openedAt[q]
        BY <1>1, <1>3, <2>1, <3>1 DEF TypeOK
    <3> QED BY <1>1, <3>1, <3>2 DEF BucketConservation
  <2>2. CASE q = o
    <3> DEFINE B == spansBucket[o]  L == spansLastRefill[o]
               P == openedAt[o]     R == RefilledAt(o)      F == Refilled(o)
               S == spent[o]
    <3>1. /\ spent'[q] = S + units /\ spansBucket'[q] = F - units
          /\ spansLastRefill'[q] = R
        BY <1>1, <1>3, <2>2 DEF TypeOK
    <3>2. /\ B \in Int /\ L \in Int /\ P \in Int /\ R \in Int /\ F \in Int
          /\ S \in Nat
        BY <1>1, <1>4 DEF TypeOK, Clock
    <3>3. CASE o \in known
      <4>1. openedAt'[q] = P
          BY <1>3, <2>2, <3>3
      <4>2. S + B <= BucketSize + SpansPerSec * (L - P)
          BY <1>1, <3>3 DEF BucketConservation
      <4>3. F <= B + SpansPerSec * (R - L)
          BY <1>1, <3>3, RefillFacts
      <4>4. SpansPerSec * (R - P) = SpansPerSec * (L - P) + SpansPerSec * (R - L)
          BY ONLY <1>2, <3>2, Distribute
      <4>5. /\ SpansPerSec * (R - P) \in Int /\ SpansPerSec * (L - P) \in Int
            /\ SpansPerSec * (R - L) \in Int
          BY ONLY <1>2, <3>2
      <4> HIDE DEF B, L, P, R, F, S
      <4>6. S + F <= BucketSize + SpansPerSec * (R - P)
          BY ONLY <1>2, <3>2, <4>2, <4>3, <4>4, <4>5
      <4> QED BY <1>2, <3>1, <3>2, <4>1, <4>5, <4>6
    <3>4. CASE o \notin known
      <4>1. openedAt'[q] = now /\ F = BucketSize /\ R = now
          BY <1>1, <1>3, <2>2, <3>4, RefillFacts DEF TypeOK
      <4>2. S = 0
          BY <1>1, <3>4 DEF TypeOK
      <4>3. SpansPerSec * (now - now) = 0 /\ now \in Int
          BY <1>1, <1>2 DEF TypeOK, Clock
      <4> QED BY <1>2, <3>1, <3>2, <4>1, <4>2, <4>3
    <3> QED BY <3>3, <3>4
  <2> QED BY <2>1, <2>2
<1> QED
    BY <1>5, <1>6 DEF Inv, BucketConservation

(* A denied request is a Store of nothing.                                  *)
LEMMA DenyStep ==
    ASSUME Inv, NEW o \in Orgs, Store(o, 0, 0), spent' = spent
    PROVE  Inv'
<1>1. TypeOK /\ Second \in Nat /\ BytesPerDay \in Nat
    BY LimitsAssumption DEF Inv
<1>2. 0 * Second = 0 /\ 0 \in Nat
    BY <1>1
<1>3. Refilled(o) >= 0 * Second /\ BytesUsed(o) + 0 <= BytesPerDay
    BY <1>1, <1>2, BucketSizeNat, RefillFacts, WindowFacts
<1>4. spent[o] + 0 * Second = spent[o]
    BY <1>1, <1>2 DEF TypeOK
<1>5. spent' = [spent EXCEPT ![o] = @ + 0 * Second]
    BY <1>1, <1>4 DEF TypeOK
<1> QED BY <1>2, <1>3, <1>5, StoreStep

(* Nobody is known at first.                                                *)
LEMMA InvInit == Init => Inv
<1> SUFFICES ASSUME Init PROVE Inv
    OBVIOUS
<1>1. TypeOK
    BY BucketSizeNat, LimitsAssumption DEF Init, TypeOK, Clock
<1>2. BucketConservation
    BY DEF Init, BucketConservation
<1> QED BY <1>1, <1>2 DEF Inv

(* A denial, an admission, a reset and a movement of the clock keep it.     *)
LEMMA InvStep == Inv /\ [Next]_vars => Inv'
<1> SUFFICES ASSUME Inv, [Next]_vars PROVE Inv'
    OBVIOUS
<1>1. ASSUME NEW o \in Orgs, NEW n \in SpanCounts, NEW b \in ByteCounts,
             check(o, n, b)
      PROVE  Inv'
  <2>1. n \in Nat /\ b \in Nat
      BY LimitsAssumption
  <2>2. CASE DenySpans(o, n, b)
      BY <2>2, DenyStep DEF DenySpans, Deny
  <2>3. CASE DenyBytes(o, n, b)
      BY <2>3, DenyStep DEF DenyBytes, Deny
  <2>4. CASE Admit(o, n, b)
      BY <2>1, <2>4, StoreStep DEF Admit
  <2> QED BY <1>1, <2>2, <2>3, <2>4 DEF check
<1>2. CASE reset
  <2>1. TypeOK'
      BY <1>2, BucketSizeNat, LimitsAssumption DEF reset, Inv, TypeOK, Clock
  <2>2. BucketConservation'
      BY <1>2 DEF reset, BucketConservation
  <2> QED BY <2>1, <2>2 DEF Inv
<1>3. CASE ClockMoves
    BY <1>3 DEF ClockMoves, bucketVars, byteVars, Inv, TypeOK,
                BucketConservation, BucketSize
<1>4. CASE UNCHANGED vars
    BY <1>4 DEF vars, bucketVars, byteVars, Inv, TypeOK,
                BucketConservation, BucketSize
<1> QED BY <1>1, <1>2, <1>3, <1>4 DEF Next

(* rateLimit.ts check: no sequence of requests, resets and clock movements  *)
(* overdraws or overfills a bucket, or passes the day's byte budget.        *)
THEOREM TypeCorrect == Spec => []TypeOK
<1>1. Inv => TypeOK
    BY DEF Inv
<1> QED BY <1>1, InvInit, InvStep, PTL DEF Spec

(* rateLimit.ts check: for any rate and any clock, an org never spends more *)
(* than one full bucket and the refill of the limiter's own time.           *)
THEOREM Conservation == Spec => []BucketConservation
<1>1. Inv => BucketConservation
    BY DEF Inv
<1> QED BY <1>1, InvInit, InvStep, PTL DEF Spec

-----------------------------------------------------------------------------
(* Rounding up: that many portions of b cover a.                            *)
LEMMA CeilingCovers ==
    ASSUME NEW a \in Int, NEW b \in Nat \ {0}
    PROVE  Ceiling(a, b) \in Int /\ MaxOf(1, Ceiling(a, b)) * b >= a
<1> DEFINE e == a + b - 1
           q == e \div b
<1>1. e \in Int /\ q \in Int /\ e % b \in 0 .. b - 1
    OBVIOUS
<1>2. e = b * q + (e % b)
    BY <1>1
<1>3. Ceiling(a, b) = q
    BY DEF Ceiling
<1>4. b * q >= a
  <2> DEFINE r == e % b
             p == b * q
  <2>1. p \in Int /\ r \in Int /\ r <= b - 1 /\ p + r = a + b - 1
    BY <1>1, <1>2
  <2> HIDE DEF r, p
  <2> QED BY <2>1
<1> HIDE DEF q
<1>5. q * b = b * q
    BY <1>1
<1>6. CASE q >= 1
    BY <1>1, <1>3, <1>4, <1>5, <1>6 DEF MaxOf
<1>7. CASE q < 1
  <2>1. MaxOf(1, q) = 1
    BY <1>1, <1>7 DEF MaxOf
  <2>2. b * q <= b
    BY <1>1, <1>7
  <2>3. b * q \in Int
    BY <1>1
  <2> QED BY <1>1, <1>3, <1>4, <2>1, <2>2, <2>3
<1> QED BY <1>1, <1>6, <1>7

(* A denial's Retry-After is long enough at the moment it is given.         *)
LEMMA DenialIsHonest ==
    ASSUME Inv, NEW o \in Orgs, NEW n \in Nat, NEW b \in Nat,
           DenySpans(o, n, b) \/ DenyBytes(o, n, b)
    PROVE  RetryAfterSuffices'
<1>1. TypeOK /\ BucketSize \in Nat \ {0} /\ Second \in Nat \ {0} /\ Day \in Nat
      /\ now \in Int
    BY BucketSizeNat, LimitsAssumption DEF Inv, BucketSize, TypeOK, Clock
<1>2. Refilled(o) \in Int /\ WindowStart(o) \in Int /\ n * Second \in Int
    BY <1>1, RefillFacts, WindowFacts, BucketSizeNat DEF Clock
<1>3. CASE DenySpans(o, n, b)
  <2> DEFINE short == n * Second - Refilled(o)
             wait  == MaxOf(1, Ceiling(short, BucketSize))
  <2>1. /\ decision'.kind = "denied" /\ decision'.org = o
        /\ decision'.reason = "spans_per_sec" /\ decision'.spans = n
        /\ decision'.retryAfter = wait
    BY <1>3 DEF DenySpans, Deny
  <2>2. /\ spansBucket'[o] = Refilled(o) /\ spansLastRefill'[o] = RefilledAt(o)
        /\ now' = now
    <3>1. Refilled(o) - 0 * Second = Refilled(o)
        BY <1>1, <1>2
    <3> QED BY <1>1, <1>3, <3>1 DEF DenySpans, Deny, Store, TypeOK
  <2>3. wait * BucketSize >= short /\ wait \in Nat
      BY <1>1, <1>2, CeilingCovers DEF MaxOf
  <2>4. wait * BucketSize \in Nat /\ wait * Second \in Nat
      BY <1>1, <2>3
  <2>5. (wait * Second) * SpansPerSec = wait * BucketSize
    <3>1. SpansPerSec \in Nat
        BY LimitsAssumption
    <3> QED BY <1>1, <2>3, <3>1 DEF BucketSize
  <2> DEFINE last == RefilledAt(o)  found == Refilled(o)  need == n * Second
             later == MaxOf(now, last) + wait * Second
  <2>6. MaxOf(now, last) = last /\ later = last + wait * Second
    <3>1. last \in Int /\ last >= now
        BY <1>1, RefillFacts DEF RefilledAt, MaxOf, Clock, TypeOK
    <3> HIDE DEF last, wait
    <3> QED BY <1>1, <3>1 DEF MaxOf
  <2>10. later \in Int /\ last \in Int
    <3>1. last \in Int
        BY <1>2, RefillFacts, <1>1 DEF Clock
    <3> HIDE DEF last, wait
    <3> QED BY <2>4, <2>6, <3>1
  <2> HIDE DEF last, later, wait
  <2>11. PICK clock \in Int : clock = later
      BY <2>10
  <2>7. LevelAt(o, clock)' = MinOf(BucketSize, found + wait * BucketSize)
    <3>1. LevelAt(o, clock)'
            = MinOf(BucketSize, spansBucket'[o] + MaxOf(0, clock - spansLastRefill'[o]) * SpansPerSec)
        BY DEF LevelAt, BucketSize
    <3>2. MaxOf(0, clock - last) = wait * Second
        BY <2>4, <2>6, <2>10, <2>11 DEF MaxOf
    <3>3. spansLastRefill'[o] = last /\ spansBucket'[o] = found
        BY <2>2 DEF last
    <3>4. spansBucket'[o] + MaxOf(0, clock - spansLastRefill'[o]) * SpansPerSec
            = found + wait * BucketSize
        BY <2>5, <3>2, <3>3
    <3> QED BY <3>1, <3>4
  <2>8. n <= SpansPerSec => need <= BucketSize
    <3>1. SpansPerSec \in Nat
        BY LimitsAssumption
    <3> QED BY <1>1, <3>1 DEF BucketSize
  <2>9. n <= SpansPerSec => MinOf(BucketSize, found + wait * BucketSize) >= need
    <3>1. need \in Int /\ found \in Int /\ found + wait * BucketSize \in Int
        BY <1>2, <2>4
    <3>2. wait * BucketSize >= need - found
        BY <2>3
    <3> HIDE DEF need, found
    <3>3. found + wait * BucketSize >= need
        BY <2>4, <3>1, <3>2
    <3> QED BY <1>1, <2>8, <3>1, <3>3 DEF MinOf
  <2>12. /\ MaxOf(now', spansLastRefill'[decision'.org]) + decision'.retryAfter * Second = clock
         /\ decision'.org = o /\ decision'.spans * Second = need
      BY <2>1, <2>2, <2>6, <2>11 DEF last, wait
  <2>13. n <= SpansPerSec =>
          LevelAt(decision.org, MaxOf(now, spansLastRefill[decision.org])
                                  + decision.retryAfter * Second)' >= decision'.spans * Second
      BY <2>7, <2>9, <2>12 DEF LevelAt, BucketSize
  <2> QED BY <2>1, <2>13 DEF RetryAfterSuffices
<1>4. CASE DenyBytes(o, n, b)
  <2> DEFINE left == Day - (now - WindowStart(o))
             wait == MaxOf(1, Ceiling(left, Second))
  <2>1. /\ decision'.kind = "denied" /\ decision'.org = o
        /\ decision'.reason = "bytes_per_day" /\ decision'.retryAfter = wait
    BY <1>4 DEF DenyBytes, Deny
  <2>2. bytesDayStartedAt'[o] = WindowStart(o) /\ now' = now
      BY <1>1, <1>4 DEF DenyBytes, Deny, Store, TypeOK
  <2>3. wait * Second >= left /\ wait \in Int
      BY <1>1, <1>2, CeilingCovers DEF MaxOf
  <2>4. wait * Second \in Int
      BY <1>1, <2>3
  <2> HIDE DEF wait
  <2>5. ~(now + wait * Second - WindowStart(o) < Day)
      BY <1>1, <1>2, <2>3, <2>4
  <2>6. ~(now' + decision'.retryAfter * Second - bytesDayStartedAt'[decision'.org] < Day)
      BY <2>1, <2>2, <2>5
  <2> QED BY <2>1, <2>6 DEF RetryAfterSuffices
<1> QED BY <1>3, <1>4

(* rateLimit.ts check: the Retry-After of a 429 is never too short, for any *)
(* rate, budget, clock and request: the limit that refused the request no   *)
(* longer refuses it once that many seconds passed.  For the spans limit the *)
(* wait is counted from when the clock is back at the last refill.          *)
THEOREM RetryAfterIsHonest == Spec => []RetryAfterSuffices
<1>1. Init => RetryAfterSuffices
    BY DEF Init, None, RetryAfterSuffices
<1>2. Inv /\ RetryAfterSuffices /\ [Next]_vars => RetryAfterSuffices'
  <2> SUFFICES ASSUME Inv, RetryAfterSuffices, [Next]_vars
               PROVE  RetryAfterSuffices'
      OBVIOUS
  <2>1. ASSUME NEW o \in Orgs, NEW n \in SpanCounts, NEW b \in ByteCounts,
               check(o, n, b)
        PROVE  RetryAfterSuffices'
    <3>1. n \in Nat /\ b \in Nat
        BY LimitsAssumption
    <3>2. CASE DenySpans(o, n, b) \/ DenyBytes(o, n, b)
        BY <3>1, <3>2, DenialIsHonest
    <3>3. CASE Admit(o, n, b)
        BY <3>3 DEF Admit, RetryAfterSuffices
    <3> QED BY <2>1, <3>2, <3>3 DEF check
  <2>2. CASE reset
      BY <2>2 DEF reset, None, RetryAfterSuffices
  <2>3. CASE ClockMoves
      BY <2>3 DEF ClockMoves, None, RetryAfterSuffices
  <2>4. CASE UNCHANGED vars
      BY <2>4 DEF vars, bucketVars, byteVars, RetryAfterSuffices, LevelAt, BucketSize
  <2> QED BY <2>1, <2>2, <2>3, <2>4 DEF Next
<1> QED BY <1>1, <1>2, InvInit, InvStep, PTL DEF Spec

-----------------------------------------------------------------------------
(* Sums over finite sets, which the library defines by recursion.            *)

(* A non-empty set of naturals has a least element.                         *)
LEMMA LeastNumber ==
    ASSUME NEW T, T \subseteq Nat, T # {}
    PROVE  \E x \in T : \A y \in T : x <= y
<1>1. PICK x \in T : \A y \in T : ~(<<y, x>> \in OpToRel(<, Nat))
    BY Zenon, WFMin, NatLessThanWellFounded
<1>2. ASSUME NEW y \in T PROVE x <= y
  <2>1. ~(y < x)
      BY <1>1 DEF OpToRel
  <2> QED BY <2>1
<1> QED BY <1>2

(* Induction, stated of a set of numbers.                                   *)
LEMMA NumbersByInduction ==
    ASSUME NEW T, 0 \in T, \A n \in Nat : n \in T => n + 1 \in T
    PROVE  Nat \subseteq T
<1> SUFFICES ASSUME Nat \ T # {} PROVE FALSE
    OBVIOUS
<1>1. PICK x \in Nat \ T : \A y \in Nat \ T : x <= y
    BY LeastNumber
<1>2. x - 1 \in Nat /\ x - 1 \notin Nat \ T
    BY <1>1
<1>3. (x - 1) + 1 \in T
    BY <1>2
<1> QED BY <1>1, <1>3

(* SumFunctionOnSet adds up a set by taking some element out of it, again   *)
(* and again; a table g of the sums of the sets in D does so.               *)
AnyOf(s) == CHOOSE x \in s : TRUE
Sums(g, f, D) ==
    g = [s \in D |-> IF s = {} THEN 0 ELSE f[AnyOf(s)] + g[s \ {AnyOf(s)}]]

(* A sum is what such a function gives for the whole set.                   *)
LEMMA SumIsChosen ==
    ASSUME NEW f, NEW S
    PROVE  SumFunctionOnSet(f, S) = (CHOOSE g : Sums(g, f, SUBSET S))[S]
  BY DEF SumFunctionOnSet, FoldFunctionOnSet, MapThenFoldSet, Sums, AnyOf

(* Taking an element out of a finite set leaves a smaller one.              *)
LEMMA OneLess ==
    ASSUME NEW s, IsFiniteSet(s), NEW x \in s
    PROVE  /\ IsFiniteSet(s \ {x})
           /\ Cardinality(s) \in Nat \ {0}
           /\ Cardinality(s \ {x}) = Cardinality(s) - 1
  BY FS_RemoveElement, FS_CardinalityType, FS_EmptySet

(* Induction over the subsets of a finite set.                              *)
LEMMA SubsetsByInduction ==
    ASSUME NEW S, IsFiniteSet(S), NEW T, {} \in T,
           \A s \in SUBSET S : s # {} /\ (\A x \in s : s \ {x} \in T) => s \in T
    PROVE  SUBSET S \subseteq T
<1> DEFINE N == {n \in Nat : \A s \in SUBSET S : Cardinality(s) = n => s \in T}
<1>0. ASSUME NEW s \in SUBSET S
      PROVE  IsFiniteSet(s) /\ Cardinality(s) \in Nat
    BY FS_Subset, FS_CardinalityType
<1>1. 0 \in N
  <2>1. ASSUME NEW s \in SUBSET S, Cardinality(s) = 0
        PROVE  s = {}
      BY <1>0, <2>1, FS_EmptySet
  <2> QED BY <2>1
<1>2. ASSUME NEW n \in Nat, n \in N
      PROVE  n + 1 \in N
  <2>1. ASSUME NEW s \in SUBSET S, Cardinality(s) = n + 1
        PROVE  s \in T
    <3>1. n + 1 # 0 /\ (n + 1) - 1 = n
        OBVIOUS
    <3>2. s # {}
        BY <2>1, <3>1, FS_EmptySet
    <3>3. ASSUME NEW x \in s
          PROVE  s \ {x} \in T
      <4>1. s \ {x} \in SUBSET S /\ Cardinality(s \ {x}) = n
          BY <1>0, <2>1, <3>1, OneLess
      <4> QED BY <1>2, <4>1
    <3> QED BY <3>2, <3>3
  <2> QED BY <2>1
<1>3. Nat \subseteq N
  <2> HIDE DEF N
  <2> QED BY <1>1, <1>2, NumbersByInduction
<1> QED BY <1>0, <1>3

(* There is such a table for the subsets of a finite set.                   *)
LEMMA SumsExist ==
    ASSUME NEW f, NEW S, IsFiniteSet(S)
    PROVE  \E g : Sums(g, f, SUBSET S)
<1> DEFINE D(n) == {s \in SUBSET S : Cardinality(s) <= n}
           T == {n \in Nat : \E g : Sums(g, f, D(n))}
<1>0. ASSUME NEW s \in SUBSET S
      PROVE  IsFiniteSet(s) /\ Cardinality(s) \in Nat /\ Cardinality(s) <= Cardinality(S)
    BY FS_Subset, FS_CardinalityType
<1>1. 0 \in T
  <2>1. D(0) = {{}}
      BY <1>0, FS_EmptySet
  <2>2. Sums([s \in {{}} |-> 0], f, {{}})
      BY DEF Sums
  <2> QED BY <2>1, <2>2
<1>2. ASSUME NEW n \in Nat, n \in T
      PROVE  n + 1 \in T
  <2>1. PICK g : Sums(g, f, D(n))
      BY <1>2
  <2> DEFINE h == [s \in D(n + 1) |->
                     IF s = {} THEN 0 ELSE f[AnyOf(s)] + g[s \ {AnyOf(s)}]]
  <2>2. ASSUME NEW s \in D(n), s # {}
        PROVE  h[s] = g[s]
    <3>1. s \in D(n + 1)
        BY <1>0
    <3> QED BY <2>1, <3>1 DEF Sums
  <2>3. ASSUME NEW s \in D(n + 1), s # {}
        PROVE  h[s] = f[AnyOf(s)] + h[s \ {AnyOf(s)}]
    <3> DEFINE r == s \ {AnyOf(s)}
    <3>0. AnyOf(s) \in s
        BY <2>3 DEF AnyOf
    <3>1. r \in D(n)
        BY <1>0, <3>0, OneLess
    <3>2. r \in D(n + 1)
        BY <1>0, <3>1
    <3>3. h[r] = g[r]
      <4>1. CASE r = {}
          BY <2>1, <3>1, <3>2, <4>1 DEF Sums
      <4>2. CASE r # {}
          BY <2>2, <3>1, <4>2
      <4> QED BY <4>1, <4>2
    <3> QED BY <2>3, <3>3
  <2>4. Sums(h, f, D(n + 1))
    <3>1. h = [s \in D(n + 1) |-> IF s = {} THEN 0 ELSE f[AnyOf(s)] + h[s \ {AnyOf(s)}]]
        BY <2>3
    <3> QED BY <3>1 DEF Sums
  <2> QED BY <2>4
<1>3. Cardinality(S) \in T
  <2> HIDE DEF T
  <2>1. Nat \subseteq T
      BY <1>1, <1>2, NumbersByInduction
  <2> QED BY <2>1, FS_CardinalityType
<1>4. D(Cardinality(S)) = SUBSET S
    BY <1>0
<1> QED BY <1>3, <1>4

(* Any two such tables agree where they and their functions overlap.        *)
LEMMA SumsAgree ==
    ASSUME NEW f, NEW e, NEW g, NEW h, NEW S, NEW U,
           Sums(g, f, SUBSET S), Sums(h, e, SUBSET U),
           NEW r, IsFiniteSet(r), r \subseteq S, r \subseteq U,
           \A x \in r : f[x] = e[x]
    PROVE  g[r] = h[r]
<1> DEFINE T == {s \in SUBSET r : g[s] = h[s]}
<1>1. {} \in T
    BY DEF Sums
<1>2. ASSUME NEW s \in SUBSET r, s # {}, \A x \in s : s \ {x} \in T
      PROVE  s \in T
  <2> DEFINE a == AnyOf(s)
  <2>1. a \in s
      BY <1>2 DEF AnyOf
  <2>2. g[s] = f[a] + g[s \ {a}] /\ h[s] = e[a] + h[s \ {a}]
      BY <1>2 DEF Sums
  <2> QED BY <1>2, <2>1, <2>2
<1>3. SUBSET r \subseteq T
  <2> HIDE DEF T
  <2> QED BY <1>1, <1>2, SubsetsByInduction
<1> QED BY <1>3

(* A sum depends only on the values it adds up.                             *)
LEMMA SumOfSame ==
    ASSUME NEW f, NEW e, NEW S, IsFiniteSet(S), \A x \in S : f[x] = e[x]
    PROVE  SumFunctionOnSet(f, S) = SumFunctionOnSet(e, S)
<1> DEFINE g == CHOOSE table : Sums(table, f, SUBSET S)
           h == CHOOSE table : Sums(table, e, SUBSET S)
<1>1. Sums(g, f, SUBSET S) /\ Sums(h, e, SUBSET S)
    BY SumsExist
<1>2. SumFunctionOnSet(f, S) = g[S] /\ SumFunctionOnSet(e, S) = h[S]
    BY SumIsChosen
<1> HIDE DEF g, h
<1>3. g[S] = h[S]
    BY <1>1, SumsAgree
<1> QED BY <1>2, <1>3

(* The sum over nothing.                                                    *)
LEMMA SumOfNone ==
    ASSUME NEW f
    PROVE  SumFunctionOnSet(f, {}) = 0
<1>1. IsFiniteSet({})
    BY FS_EmptySet
<1>2. Sums(CHOOSE g : Sums(g, f, SUBSET {}), f, SUBSET {})
    BY <1>1, SumsExist
<1>3. (CHOOSE g : Sums(g, f, SUBSET {}))[{}] = 0
    BY <1>2 DEF Sums
<1> QED BY <1>3, SumIsChosen

(* The element the definition takes out.                                    *)
LEMMA SumTakesAny ==
    ASSUME NEW f, NEW S, IsFiniteSet(S), S # {}
    PROVE  SumFunctionOnSet(f, S)
             = f[AnyOf(S)] + SumFunctionOnSet(f, S \ {AnyOf(S)})
<1> DEFINE R == S \ {AnyOf(S)}
           g == CHOOSE table : Sums(table, f, SUBSET S)
           h == CHOOSE table : Sums(table, f, SUBSET R)
<1>1. IsFiniteSet(R)
    BY FS_Subset
<1>2. Sums(g, f, SUBSET S) /\ Sums(h, f, SUBSET R)
    BY <1>1, SumsExist
<1>3. g[S] = f[AnyOf(S)] + g[R]
  <2> HIDE DEF g
  <2> QED BY <1>2 DEF Sums
<1>4. g[R] = h[R]
  <2> HIDE DEF g, h
  <2>1. R \subseteq S
      OBVIOUS
  <2> HIDE DEF R
  <2> QED BY <1>1, <1>2, <2>1, SumsAgree
<1> QED BY <1>3, <1>4, SumIsChosen

-----------------------------------------------------------------------------
(* Sums of naturals.                                                        *)
LEMMA SumIsNat ==
    ASSUME NEW f, NEW S, IsFiniteSet(S), \A x \in S : f[x] \in Nat
    PROVE  SumFunctionOnSet(f, S) \in Nat
<1> DEFINE T == {s \in SUBSET S : SumFunctionOnSet(f, s) \in Nat}
<1>1. {} \in T
    BY SumOfNone
<1>2. ASSUME NEW s \in SUBSET S, s # {}, \A x \in s : s \ {x} \in T
      PROVE  s \in T
  <2>1. AnyOf(s) \in s /\ IsFiniteSet(s)
      BY <1>2, FS_Subset DEF AnyOf
  <2>2. SumFunctionOnSet(f, s) = f[AnyOf(s)] + SumFunctionOnSet(f, s \ {AnyOf(s)})
      BY <1>2, <2>1, SumTakesAny
  <2> QED BY <1>2, <2>1, <2>2
<1>3. SUBSET S \subseteq T
  <2> HIDE DEF T
  <2> QED BY <1>1, <1>2, SubsetsByInduction
<1> QED BY <1>3

(* It does not matter which element is taken out.                           *)
LEMMA SumTakesOne ==
    ASSUME NEW f, NEW S, IsFiniteSet(S), \A x \in S : f[x] \in Nat, NEW y \in S
    PROVE  SumFunctionOnSet(f, S) = f[y] + SumFunctionOnSet(f, S \ {y})
<1> DEFINE Sum(s) == SumFunctionOnSet(f, s)
           T == {s \in SUBSET S : \A x \in s : Sum(s) = f[x] + Sum(s \ {x})}
<1>1. {} \in T
    OBVIOUS
<1>2. ASSUME NEW s \in SUBSET S, s # {}, \A x \in s : s \ {x} \in T
      PROVE  s \in T
  <2> SUFFICES ASSUME NEW x \in s
               PROVE  Sum(s) = f[x] + Sum(s \ {x})
      OBVIOUS
  <2> DEFINE a == AnyOf(s)
  <2>1. a \in s /\ IsFiniteSet(s)
      BY <1>2, FS_Subset DEF AnyOf
  <2>2. Sum(s) = f[a] + Sum(s \ {a})
      BY <1>2, <2>1, SumTakesAny
  <2>3. CASE x = a
      BY <2>2, <2>3
  <2>4. CASE x # a
    <3> DEFINE r == (s \ {a}) \ {x}
    <3>1. Sum(s \ {a}) = f[x] + Sum(r)
        BY <1>2, <2>1, <2>4
    <3>2. (s \ {x}) \ {a} = r
        OBVIOUS
    <3>3. Sum(s \ {x}) = f[a] + Sum((s \ {x}) \ {a})
        BY <1>2, <2>1, <2>4
    <3>4. Sum(r) \in Nat /\ f[a] \in Nat /\ f[x] \in Nat
      <4>1. IsFiniteSet(r)
          BY <2>1, FS_Subset
      <4> QED BY <2>1, <4>1, SumIsNat
    <3> HIDE DEF r, Sum
    <3> QED BY <2>2, <3>1, <3>2, <3>3, <3>4
  <2> QED BY <2>3, <2>4
<1>3. SUBSET S \subseteq T
  <2> HIDE DEF T
  <2> QED BY <1>1, <1>2, SubsetsByInduction
<1> QED BY <1>3

(* The sum over two disjoint sets.                                          *)
LEMMA SumOfUnion ==
    ASSUME NEW f, NEW A, NEW B, IsFiniteSet(A), IsFiniteSet(B), A \cap B = {},
           \A x \in A \cup B : f[x] \in Nat
    PROVE  SumFunctionOnSet(f, A \cup B)
             = SumFunctionOnSet(f, A) + SumFunctionOnSet(f, B)
<1> DEFINE Sum(s) == SumFunctionOnSet(f, s)
           T == {s \in SUBSET A : Sum(s \cup B) = Sum(s) + Sum(B)}
<1>1. {} \in T
  <2>1. Sum({}) = 0 /\ Sum(B) \in Nat /\ {} \cup B = B
      BY SumOfNone, SumIsNat
  <2> QED BY <2>1
<1>2. ASSUME NEW s \in SUBSET A, s # {}, \A x \in s : s \ {x} \in T
      PROVE  s \in T
  <2>1. PICK a \in s : TRUE
      BY <1>2
  <2>2. IsFiniteSet(s) /\ IsFiniteSet(s \cup B) /\ IsFiniteSet(s \ {a})
      BY FS_Subset, FS_Union
  <2>3. (s \cup B) \ {a} = (s \ {a}) \cup B
      BY <2>1
  <2>4. Sum(s \cup B) = f[a] + Sum((s \ {a}) \cup B)
      BY <2>1, <2>2, <2>3, SumTakesOne
  <2>5. Sum(s) = f[a] + Sum(s \ {a})
      BY <2>1, <2>2, SumTakesOne
  <2>6. Sum((s \ {a}) \cup B) = Sum(s \ {a}) + Sum(B)
      BY <1>2, <2>1
  <2>7. f[a] \in Nat /\ Sum(s \ {a}) \in Nat /\ Sum(B) \in Nat
      BY <2>1, <2>2, SumIsNat
  <2>8. Sum(s \cup B) = Sum(s) + Sum(B)
    <3> HIDE DEF Sum
    <3> QED BY <2>4, <2>5, <2>6, <2>7
  <2> QED BY <2>8
<1>3. SUBSET A \subseteq T
  <2> HIDE DEF T
  <2> QED BY <1>1, <1>2, SubsetsByInduction
<1> QED BY <1>3

(* A part of a set sums to no more than the set.                            *)
LEMMA SumOfPart ==
    ASSUME NEW f, NEW S, NEW U, IsFiniteSet(S), \A x \in S : f[x] \in Nat,
           U \subseteq S
    PROVE  SumFunctionOnSet(f, U) <= SumFunctionOnSet(f, S)
<1>1. IsFiniteSet(U) /\ IsFiniteSet(S \ U) /\ U \cup (S \ U) = S
    BY FS_Subset
<1>2. SumFunctionOnSet(f, S) = SumFunctionOnSet(f, U) + SumFunctionOnSet(f, S \ U)
    BY <1>1, SumOfUnion
<1>3. SumFunctionOnSet(f, U) \in Nat /\ SumFunctionOnSet(f, S \ U) \in Nat
    BY <1>1, SumIsNat
<1> QED BY <1>2, <1>3

-----------------------------------------------------------------------------
(* The history of admitted requests, taken apart.                           *)
Of(h, o)          == {i \in 1 .. Len(h) : h[i].org = o}
Since(h, o, i)    == {k \in Of(h, o) : i <= k}
Between(h, o, i, j) == {k \in Of(h, o) : i <= k /\ k <= j}
InWindow(h, o, w) == {k \in Of(h, o) : h[k].window = w}
SpansIn(h, S)     == SumFunctionOnSet([i \in S |-> h[i].spans], S)
BytesIn(h, S)     == SumFunctionOnSet([i \in S |-> h[i].bytes], S)

Requests   == [org : Orgs, spans : Nat, bytes : Nat, at : Clock, window : Clock]
History(h) == h \in Seq(Requests)

(* What org o spent since its i-th request, and what is left in its bucket  *)
(* (full), is covered by a bucket and the refill since that request.        *)
SpansCovered(h, o, full, refill) ==
    \A i \in Of(h, o) :
        /\ h[i].at <= refill
        /\ SpansIn(h, Since(h, o, i)) * Second + full
             <= BucketSize + SpansPerSec * (refill - h[i].at)

(* What a bucket lacks is what the requests since some one took from it.    *)
AccountedFor(h, o, full, refill) ==
    \/ full = BucketSize
    \/ \E i \in Of(h, o) :
         SpansIn(h, Since(h, o, i)) * Second + full
           = BucketSize + SpansPerSec * (refill - h[i].at)

BurstKept(h, o) ==
    \A i, j \in Of(h, o) : i <= j =>
        SpansIn(h, Between(h, o, i, j)) * Second
          <= BucketSize + SpansPerSec * (h[j].at - h[i].at)

(* A request lies in the day of the window it counts against, no two        *)
(* windows of an org overlap, and the open one is the last.                 *)
WindowsApart(h, o, open, refill) ==
    /\ open <= refill /\ refill < open + Day
    /\ \A i \in Of(h, o) :
         /\ h[i].window <= h[i].at /\ h[i].at < h[i].window + Day
         /\ h[i].window = open \/ h[i].window + Day <= open
    /\ \A i, j \in Of(h, o) :
         \/ h[i].window = h[j].window
         \/ h[i].window + Day <= h[j].window
         \/ h[j].window + Day <= h[i].window

BudgetKept(h, o) ==
    \A i \in Of(h, o) : BytesIn(h, InWindow(h, o, h[i].window)) <= BytesPerDay

(* The inductive invariant of the history.                                  *)
Limits ==
    /\ History(admitted)
    /\ \A o \in Orgs \ known : Of(admitted, o) = {}
    /\ \A o \in known :
         /\ SpansCovered(admitted, o, spansBucket[o], spansLastRefill[o])
         /\ AccountedFor(admitted, o, spansBucket[o], spansLastRefill[o])
         /\ WindowsApart(admitted, o, bytesDayStartedAt[o], spansLastRefill[o])
         /\ bytesUsedDay[o] = BytesIn(admitted, InWindow(admitted, o, bytesDayStartedAt[o]))
    /\ \A o \in Orgs : BurstKept(admitted, o) /\ BudgetKept(admitted, o)

-----------------------------------------------------------------------------
(* Sums over a history.                                                     *)
LEMMA Positions ==
    ASSUME NEW h, History(h), NEW S, S \subseteq 1 .. Len(h)
    PROVE  /\ IsFiniteSet(S)
           /\ \A i \in S : h[i] \in Requests /\ h[i].spans \in Nat /\ h[i].bytes \in Nat
           /\ SpansIn(h, S) \in Nat /\ BytesIn(h, S) \in Nat
<1>1. Len(h) \in Nat
    BY DEF History
<1>2. IsFiniteSet(S)
  <2>1. IsFiniteSet(1 .. Len(h))
      BY <1>1, FS_Interval
  <2> QED BY <2>1, FS_Subset
<1>3. \A i \in S : h[i] \in Requests
    BY DEF History
<1>4. \A i \in S : h[i].spans \in Nat /\ h[i].bytes \in Nat
    BY <1>3 DEF Requests
<1>5. SpansIn(h, S) \in Nat
  <2> DEFINE f == [i \in S |-> h[i].spans]
  <2>1. \A i \in S : f[i] \in Nat
      BY <1>4
  <2> HIDE DEF f
  <2>2. SumFunctionOnSet(f, S) \in Nat
      BY <1>2, <2>1, SumIsNat
  <2> QED BY <2>2 DEF f, SpansIn
<1>6. BytesIn(h, S) \in Nat
  <2> DEFINE f == [i \in S |-> h[i].bytes]
  <2>1. \A i \in S : f[i] \in Nat
      BY <1>4
  <2> HIDE DEF f
  <2>2. SumFunctionOnSet(f, S) \in Nat
      BY <1>2, <2>1, SumIsNat
  <2> QED BY <2>2 DEF f, BytesIn
<1> QED BY <1>2, <1>3, <1>4, <1>5, <1>6

(* Appending a request leaves the earlier ones where they are.              *)
LEMMA Appended ==
    ASSUME NEW h, History(h), NEW r \in Requests
    PROVE  /\ History(Append(h, r))
           /\ Len(h) \in Nat /\ Len(Append(h, r)) = Len(h) + 1
           /\ \A i \in 1 .. Len(h) : Append(h, r)[i] = h[i]
           /\ Append(h, r)[Len(h) + 1] = r
           /\ Of(Append(h, r), r.org) = Of(h, r.org) \cup {Len(h) + 1}
           /\ \A o : o # r.org => Of(Append(h, r), o) = Of(h, o)
<1> DEFINE g == Append(h, r)
<1>1. /\ g \in Seq(Requests) /\ Len(h) \in Nat /\ Len(g) = Len(h) + 1
      /\ \A i \in 1 .. Len(h) : g[i] = h[i]
      /\ g[Len(h) + 1] = r
    BY DEF History
<1>2. 1 .. Len(g) = (1 .. Len(h)) \cup {Len(h) + 1}
    BY <1>1
<1> HIDE DEF g
<1>3. Of(g, r.org) = Of(h, r.org) \cup {Len(h) + 1}
    BY <1>1, <1>2 DEF Of
<1>4. ASSUME NEW o, o # r.org
      PROVE  Of(g, o) = Of(h, o)
    BY <1>1, <1>2, <1>4 DEF Of
<1> QED BY <1>1, <1>3, <1>4 DEF g, History

(* The sums over the earlier requests do not change, and the sum over a set *)
(* with the new one is theirs and the new request's.                        *)
LEMMA AppendedSums ==
    ASSUME NEW h, History(h), NEW r \in Requests, NEW S, S \subseteq 1 .. Len(h)
    PROVE  /\ SpansIn(Append(h, r), S) = SpansIn(h, S)
           /\ BytesIn(Append(h, r), S) = BytesIn(h, S)
           /\ SpansIn(Append(h, r), S \cup {Len(h) + 1}) = r.spans + SpansIn(h, S)
           /\ BytesIn(Append(h, r), S \cup {Len(h) + 1}) = r.bytes + BytesIn(h, S)
<1> DEFINE g == Append(h, r)
           m == Len(h) + 1
           U == S \cup {m}
<1>1. /\ History(g) /\ Len(h) \in Nat /\ Len(g) = m /\ g[m] = r
      /\ \A i \in 1 .. Len(h) : g[i] = h[i]
    BY Appended
<1> HIDE DEF g
<1>2. /\ U \subseteq 1 .. Len(g) /\ S \subseteq 1 .. Len(g) /\ U \ {m} = S
      /\ m \in U
  <2>1. m \notin S /\ m \in 1 .. Len(g) /\ 1 .. Len(h) \subseteq 1 .. Len(g)
      BY <1>1
  <2> QED BY <2>1
<1> HIDE DEF m
<1>3. /\ IsFiniteSet(S) /\ IsFiniteSet(U)
      /\ \A i \in U : g[i].spans \in Nat /\ g[i].bytes \in Nat
    BY <1>1, <1>2, Positions
<1>4. SpansIn(g, S) = SpansIn(h, S)
  <2> DEFINE f == [i \in S |-> g[i].spans]
             e == [i \in S |-> h[i].spans]
  <2>1. f = e
      BY <1>1
  <2> QED BY <2>1 DEF SpansIn
<1>5. BytesIn(g, S) = BytesIn(h, S)
  <2> DEFINE f == [i \in S |-> g[i].bytes]
             e == [i \in S |-> h[i].bytes]
  <2>1. f = e
      BY <1>1
  <2> QED BY <2>1 DEF BytesIn
<1>6. SpansIn(g, U) = r.spans + SpansIn(g, S)
  <2> DEFINE f == [i \in U |-> g[i].spans]
             e == [i \in S |-> g[i].spans]
  <2>1. (\A i \in U : f[i] \in Nat) /\ (\A i \in S : f[i] = e[i]) /\ f[m] = r.spans
      BY <1>1, <1>2, <1>3
  <2>2. SpansIn(g, U) = SumFunctionOnSet(f, U) /\ SpansIn(g, S) = SumFunctionOnSet(e, S)
      BY DEF SpansIn
  <2> HIDE DEF f, e, U
  <2>3. SumFunctionOnSet(f, U) = f[m] + SumFunctionOnSet(f, U \ {m})
      BY <1>2, <1>3, <2>1, SumTakesOne
  <2>4. SumFunctionOnSet(f, S) = SumFunctionOnSet(e, S)
      BY <1>3, <2>1, SumOfSame
  <2> QED BY <1>2, <2>1, <2>2, <2>3, <2>4
<1>7. BytesIn(g, U) = r.bytes + BytesIn(g, S)
  <2> DEFINE f == [i \in U |-> g[i].bytes]
             e == [i \in S |-> g[i].bytes]
  <2>1. (\A i \in U : f[i] \in Nat) /\ (\A i \in S : f[i] = e[i]) /\ f[m] = r.bytes
      BY <1>1, <1>2, <1>3
  <2>2. BytesIn(g, U) = SumFunctionOnSet(f, U) /\ BytesIn(g, S) = SumFunctionOnSet(e, S)
      BY DEF BytesIn
  <2> HIDE DEF f, e, U
  <2>3. SumFunctionOnSet(f, U) = f[m] + SumFunctionOnSet(f, U \ {m})
      BY <1>2, <1>3, <2>1, SumTakesOne
  <2>4. SumFunctionOnSet(f, S) = SumFunctionOnSet(e, S)
      BY <1>3, <2>1, SumOfSame
  <2> QED BY <1>2, <2>1, <2>2, <2>3, <2>4
<1> QED BY <1>4, <1>5, <1>6, <1>7 DEF g, m

-----------------------------------------------------------------------------
(* The steps of the spans half of the invariant.                            *)
LEMMA OfHistory ==
    ASSUME NEW h, History(h), NEW o
    PROVE  /\ Of(h, o) \subseteq 1 .. Len(h) /\ Len(h) \in Nat
           /\ \A i \in Of(h, o) :
                /\ i \in Nat /\ i <= Len(h) /\ i # Len(h) + 1
                /\ h[i].at \in Int /\ h[i].window \in Int /\ h[i].bytes \in Nat
           /\ \A i : /\ SpansIn(h, Since(h, o, i)) \in Nat
                     /\ \A j : SpansIn(h, Between(h, o, i, j)) \in Nat
                     /\ BytesIn(h, InWindow(h, o, i)) \in Nat
<1>1. Len(h) \in Nat /\ Of(h, o) \subseteq 1 .. Len(h)
    BY DEF History, Of
<1>2. \A i \in Of(h, o) : h[i] \in Requests
    BY <1>1, Positions
<1>3. ASSUME NEW i
      PROVE  /\ Since(h, o, i) \subseteq 1 .. Len(h)
             /\ \A j : Between(h, o, i, j) \subseteq 1 .. Len(h)
             /\ InWindow(h, o, i) \subseteq 1 .. Len(h)
    BY <1>1 DEF Since, Between, InWindow
<1>4. \A i \in Of(h, o) : h[i].at \in Int /\ h[i].window \in Int /\ h[i].bytes \in Nat
    BY <1>2 DEF Requests, Clock
<1>5. \A i \in Of(h, o) : i \in Nat /\ i <= Len(h) /\ i # Len(h) + 1
    BY <1>1
<1> QED BY <1>1, <1>3, <1>4, <1>5, Positions

(* Refilling the bucket keeps the cover.                                    *)
LEMMA CoverRefilled ==
    ASSUME NEW h, History(h), NEW o, NEW full \in Int, NEW refill \in Int,
           SpansCovered(h, o, full, refill), NEW full2 \in Int, NEW refill2 \in Int,
           refill <= refill2, full2 <= full + SpansPerSec * (refill2 - refill)
    PROVE  SpansCovered(h, o, full2, refill2)
<1> SUFFICES ASSUME NEW i \in Of(h, o)
             PROVE  /\ h[i].at <= refill2
                    /\ SpansIn(h, Since(h, o, i)) * Second + full2
                         <= BucketSize + SpansPerSec * (refill2 - h[i].at)
    BY DEF SpansCovered
<1> DEFINE at == h[i].at
           sum == SpansIn(h, Since(h, o, i)) * Second
<1>1. /\ at \in Int /\ sum \in Int /\ BucketSize \in Int /\ SpansPerSec \in Int
  <2>1. SpansIn(h, Since(h, o, i)) \in Nat /\ at \in Int
      BY OfHistory
  <2> QED BY <2>1, LimitsAssumption, BucketSizeNat
<1>2. at <= refill /\ sum + full <= BucketSize + SpansPerSec * (refill - at)
    BY DEF SpansCovered
<1> HIDE DEF at, sum
<1>3. SpansPerSec * (refill2 - at)
        = SpansPerSec * (refill - at) + SpansPerSec * (refill2 - refill)
    BY ONLY <1>1, refill \in Int, refill2 \in Int, Distribute
<1>4. /\ SpansPerSec * (refill2 - at) \in Int /\ SpansPerSec * (refill - at) \in Int
      /\ SpansPerSec * (refill2 - refill) \in Int
    BY <1>1
<1>5. sum + full2 <= BucketSize + SpansPerSec * (refill2 - at)
    BY <1>1, <1>2, <1>3, <1>4
<1>6. at <= refill2
    BY <1>1, <1>2
<1> QED BY <1>5, <1>6 DEF at, sum

(* So does taking an admitted request's spans out of it.                    *)
LEMMA CoverSpent ==
    ASSUME NEW h, History(h), NEW r \in Requests, NEW full \in Int,
           SpansCovered(h, r.org, full, r.at), full <= BucketSize
    PROVE  SpansCovered(Append(h, r), r.org, full - r.spans * Second, r.at)
<1> DEFINE g == Append(h, r)
           o == r.org
           m == Len(h) + 1
           left == full - r.spans * Second
<1>1. /\ r.spans \in Nat /\ r.at \in Int /\ Second \in Nat /\ BucketSize \in Int
      /\ r.spans * Second \in Int
  <2>1. r.spans \in Nat /\ r.at \in Int
      BY DEF Requests, Clock
  <2> QED BY <2>1, LimitsAssumption, BucketSizeNat
<1>2. /\ Len(h) \in Nat /\ Of(g, o) = Of(h, o) \cup {m} /\ g[m] = r
      /\ \A i \in 1 .. Len(h) : g[i] = h[i]
    BY Appended
<1>3. Of(h, o) \subseteq 1 .. Len(h)
    BY OfHistory
<1> HIDE DEF g
<1>4. ASSUME NEW i \in Of(h, o)
      PROVE  /\ g[i].at <= r.at
             /\ SpansIn(g, Since(g, o, i)) * Second + left
                  <= BucketSize + SpansPerSec * (r.at - g[i].at)
  <2> DEFINE S == Since(h, o, i)
             sum == SpansIn(h, S)
             bound == BucketSize + SpansPerSec * (r.at - h[i].at)
  <2>1. Since(g, o, i) = S \cup {m}
    <3>1. i <= m
        BY <1>2, <1>3
    <3> QED BY <1>2, <3>1 DEF Since
  <2>2. S \subseteq 1 .. Len(h)
      BY <1>3 DEF Since
  <2>3. SpansIn(g, Since(g, o, i)) = r.spans + sum
      BY <2>1, <2>2, AppendedSums DEF g
  <2>4. h[i].at <= r.at /\ sum * Second + full <= bound
      BY DEF SpansCovered
  <2>5. g[i] = h[i] /\ sum \in Nat /\ h[i].at \in Int
      BY <1>2, <1>3, OfHistory
  <2>6. bound \in Int
      BY <1>1, <2>5, LimitsAssumption
  <2> HIDE DEF sum, bound
  <2>7. (r.spans + sum) * Second = r.spans * Second + sum * Second
      BY <1>1, <2>5
  <2>8. sum * Second \in Int
      BY <1>1, <2>5
  <2>9. (r.spans + sum) * Second + left <= bound
      BY <1>1, <2>4, <2>6, <2>7, <2>8
  <2> QED BY <2>3, <2>4, <2>5, <2>9 DEF bound
<1>5. /\ g[m].at <= r.at
      /\ SpansIn(g, Since(g, o, m)) * Second + left
           <= BucketSize + SpansPerSec * (r.at - g[m].at)
  <2>1. Since(g, o, m) = {m}
    <3>1. m <= m /\ \A i \in Of(h, o) : ~(m <= i)
        BY <1>2, <1>3
    <3> QED BY <1>2, <3>1 DEF Since
  <2>2. SpansIn(g, {m}) = r.spans
    <3>1. {} \subseteq 1 .. Len(h) /\ {} \cup {m} = {m}
        OBVIOUS
    <3>2. SpansIn(g, {m}) = r.spans + SpansIn(h, {})
        BY <3>1, AppendedSums DEF g
    <3>3. SpansIn(h, {}) = 0
        BY SumOfNone DEF SpansIn
    <3> QED BY <1>1, <3>2, <3>3
  <2>3. SpansPerSec * (r.at - r.at) = 0
      BY <1>1, LimitsAssumption
  <2> HIDE DEF m
  <2> QED BY <1>1, <1>2, <2>1, <2>2, <2>3
<1>6. \A i \in Of(g, o) :
        /\ g[i].at <= r.at
        /\ SpansIn(g, Since(g, o, i)) * Second + left
             <= BucketSize + SpansPerSec * (r.at - g[i].at)
    BY <1>2, <1>4, <1>5
<1> QED BY <1>6 DEF SpansCovered, g

(* A refill either fills the bucket or leaves the same requests to account  *)
(* for what it lacks.                                                       *)
LEMMA AccountRefilled ==
    ASSUME NEW h, History(h), NEW o, NEW full \in 0 .. BucketSize, NEW refill \in Int,
           AccountedFor(h, o, full, refill), NEW full2 \in 0 .. BucketSize,
           NEW refill2 \in Int, refill <= refill2,
           full2 = BucketSize \/ full2 = full + SpansPerSec * (refill2 - refill)
    PROVE  AccountedFor(h, o, full2, refill2)
<1> SUFFICES ASSUME full2 # BucketSize PROVE AccountedFor(h, o, full2, refill2)
    BY DEF AccountedFor
<1>1. BucketSize \in Nat /\ SpansPerSec \in Nat
    BY LimitsAssumption, BucketSizeNat
<1>2. SpansPerSec * (refill2 - refill) \in Nat
    BY <1>1
<1>3. full2 = full + SpansPerSec * (refill2 - refill) /\ full # BucketSize
    BY <1>1, <1>2
<1>4. PICK i \in Of(h, o) : SpansIn(h, Since(h, o, i)) * Second + full
                              = BucketSize + SpansPerSec * (refill - h[i].at)
    BY <1>3 DEF AccountedFor
<1> DEFINE at == h[i].at
           sum == SpansIn(h, Since(h, o, i)) * Second
<1>5. at \in Int /\ sum \in Int
  <2>1. SpansIn(h, Since(h, o, i)) \in Nat /\ at \in Int
      BY OfHistory
  <2> QED BY <2>1, LimitsAssumption
<1>6. sum + full = BucketSize + SpansPerSec * (refill - at)
    BY <1>4
<1> HIDE DEF at, sum
<1>7. SpansPerSec * (refill2 - at)
        = SpansPerSec * (refill - at) + SpansPerSec * (refill2 - refill)
    BY ONLY <1>1, <1>5, refill \in Int, refill2 \in Int, Distribute
<1>8. SpansPerSec * (refill2 - at) \in Int /\ SpansPerSec * (refill - at) \in Int
    BY <1>1, <1>5
<1>9. sum + full2 = BucketSize + SpansPerSec * (refill2 - at)
    BY <1>1, <1>2, <1>3, <1>5, <1>6, <1>7, <1>8
<1> QED BY <1>9 DEF AccountedFor, at, sum

(* An admitted request accounts for what it takes, ...                      *)
LEMMA AccountSpent ==
    ASSUME NEW h, History(h), NEW r \in Requests, NEW full \in Int,
           AccountedFor(h, r.org, full, r.at)
    PROVE  AccountedFor(Append(h, r), r.org, full - r.spans * Second, r.at)
<1> DEFINE g == Append(h, r)
           o == r.org
           m == Len(h) + 1
           left == full - r.spans * Second
<1>1. /\ r.spans \in Nat /\ r.at \in Int /\ Second \in Nat /\ BucketSize \in Int
      /\ r.spans * Second \in Int
  <2>1. r.spans \in Nat /\ r.at \in Int
      BY DEF Requests, Clock
  <2> QED BY <2>1, LimitsAssumption, BucketSizeNat
<1>2. /\ Len(h) \in Nat /\ Of(g, o) = Of(h, o) \cup {m} /\ g[m] = r
      /\ \A i \in 1 .. Len(h) : g[i] = h[i]
    BY Appended
<1>3. Of(h, o) \subseteq 1 .. Len(h)
    BY OfHistory
<1> HIDE DEF g
<1>4. CASE full = BucketSize
  <2>1. Since(g, o, m) = {m}
    <3>1. m <= m /\ \A i \in Of(h, o) : ~(m <= i)
        BY <1>2, <1>3
    <3> QED BY <1>2, <3>1 DEF Since
  <2>2. SpansIn(g, {m}) = r.spans
    <3>1. {} \subseteq 1 .. Len(h) /\ {} \cup {m} = {m}
        OBVIOUS
    <3>2. SpansIn(g, {m}) = r.spans + SpansIn(h, {})
        BY <3>1, AppendedSums DEF g
    <3>3. SpansIn(h, {}) = 0
        BY SumOfNone DEF SpansIn
    <3> QED BY <1>1, <3>2, <3>3
  <2>3. SpansPerSec * (r.at - r.at) = 0
      BY <1>1, LimitsAssumption
  <2> HIDE DEF m
  <2>4. SpansIn(g, Since(g, o, m)) * Second + left
          = BucketSize + SpansPerSec * (r.at - g[m].at)
      BY <1>1, <1>2, <1>4, <2>1, <2>2, <2>3
  <2> QED BY <1>2, <2>4 DEF AccountedFor, g
<1>5. CASE full # BucketSize
  <2>1. PICK i \in Of(h, o) : SpansIn(h, Since(h, o, i)) * Second + full
                                = BucketSize + SpansPerSec * (r.at - h[i].at)
      BY <1>5 DEF AccountedFor
  <2> DEFINE S == Since(h, o, i)
             sum == SpansIn(h, S)
             bound == BucketSize + SpansPerSec * (r.at - h[i].at)
  <2>2. Since(g, o, i) = S \cup {m}
    <3>1. i <= m
        BY <1>2, <1>3
    <3> QED BY <1>2, <3>1 DEF Since
  <2>3. S \subseteq 1 .. Len(h)
      BY <1>3 DEF Since
  <2>4. SpansIn(g, Since(g, o, i)) = r.spans + sum
      BY <2>2, <2>3, AppendedSums DEF g
  <2>5. g[i] = h[i] /\ sum \in Nat /\ i \in Of(g, o)
      BY <1>2, <1>3, OfHistory
  <2>6. sum * Second + full = bound
      BY <2>1
  <2> HIDE DEF sum, bound
  <2>7. (r.spans + sum) * Second = r.spans * Second + sum * Second
        /\ sum * Second \in Int
      BY <1>1, <2>5
  <2>8. (r.spans + sum) * Second + left = bound
      BY <1>1, <2>6, <2>7
  <2> QED BY <2>4, <2>5, <2>8 DEF AccountedFor, bound, g
<1> QED BY <1>4, <1>5

(* The bound between any two requests follows, the new one being the later. *)
LEMMA BurstAppended ==
    ASSUME NEW h, History(h), NEW r \in Requests, NEW left \in Nat,
           BurstKept(h, r.org),
           SpansCovered(Append(h, r), r.org, left, r.at)
    PROVE  BurstKept(Append(h, r), r.org)
<1> DEFINE g == Append(h, r)
           o == r.org
           m == Len(h) + 1
<1>1. /\ Len(h) \in Nat /\ Of(g, o) = Of(h, o) \cup {m} /\ g[m] = r
      /\ History(g) /\ \A i \in 1 .. Len(h) : g[i] = h[i]
    BY Appended
<1>2. Of(h, o) \subseteq 1 .. Len(h)
    BY OfHistory
<1> HIDE DEF g
<1> SUFFICES ASSUME NEW i \in Of(g, o), NEW j \in Of(g, o), i <= j
             PROVE  SpansIn(g, Between(g, o, i, j)) * Second
                      <= BucketSize + SpansPerSec * (g[j].at - g[i].at)
    BY DEF BurstKept, g
<1>3. CASE j = m
  <2>1. Between(g, o, i, j) = Since(g, o, i)
    <3>1. \A k \in Of(g, o) : k <= m
        BY <1>1, <1>2
    <3> QED BY <1>3, <3>1 DEF Between, Since
  <2> DEFINE sum == SpansIn(g, Since(g, o, i)) * Second
             bound == BucketSize + SpansPerSec * (r.at - g[i].at)
  <2>2. sum + left <= bound
      BY DEF SpansCovered, g
  <2>3. sum \in Int /\ bound \in Int
    <3>1. SpansIn(g, Since(g, o, i)) \in Nat /\ g[i].at \in Int /\ r.at \in Int
        BY <1>1, OfHistory DEF Requests, Clock
    <3> QED BY <3>1, LimitsAssumption, BucketSizeNat
  <2> HIDE DEF sum, bound
  <2>4. sum <= bound
      BY <2>2, <2>3
  <2> QED BY <1>1, <1>3, <2>1, <2>4 DEF sum, bound
<1>4. CASE j # m
  <2>1. i \in Of(h, o) /\ j \in Of(h, o) /\ g[i] = h[i] /\ g[j] = h[j]
    <3>1. j \in Of(h, o) /\ j < m /\ i \in Int /\ j \in Int /\ m \in Int
        BY <1>1, <1>2, <1>4
    <3>2. i # m
        BY <3>1
    <3> QED BY <1>1, <1>2, <3>1, <3>2
  <2>2. Between(g, o, i, j) = Between(h, o, i, j)
    <3>1. ~(m <= j)
        BY <1>1, <1>2, <2>1
    <3> QED BY <1>1, <3>1 DEF Between
  <2>3. Between(h, o, i, j) \subseteq 1 .. Len(h)
      BY <1>2 DEF Between
  <2>4. SpansIn(g, Between(h, o, i, j)) = SpansIn(h, Between(h, o, i, j))
      BY <2>3, AppendedSums DEF g
  <2> QED BY <2>1, <2>2, <2>4 DEF BurstKept
<1> QED BY <1>3, <1>4

-----------------------------------------------------------------------------
(* The steps of the bytes half.                                             *)
LEMMA WindowKept ==
    ASSUME NEW h, History(h), NEW o, NEW open \in Int, NEW refill \in Int,
           WindowsApart(h, o, open, refill), NEW refill2 \in Int,
           refill <= refill2, refill2 < open + Day
    PROVE  WindowsApart(h, o, open, refill2)
<1>1. Day \in Int
    BY LimitsAssumption
<1>2. open <= refill2
    BY DEF WindowsApart
<1> QED BY <1>2 DEF WindowsApart

(* A window that opens finds the earlier ones a day or more before it, and  *)
(* nothing counted against it yet.                                          *)
LEMMA WindowOpens ==
    ASSUME NEW h, History(h), NEW o, NEW open \in Int, NEW refill \in Int,
           WindowsApart(h, o, open, refill), NEW open2 \in Int,
           open + Day <= open2
    PROVE  WindowsApart(h, o, open2, open2) /\ InWindow(h, o, open2) = {}
<1>1. Day \in Int /\ Day > 0
    BY LimitsAssumption
<1>2. ASSUME NEW i \in Of(h, o)
      PROVE  h[i].window + Day <= open2
  <2>1. h[i].window \in Int /\ (h[i].window = open \/ h[i].window + Day <= open)
      BY OfHistory DEF WindowsApart
  <2> QED BY <1>1, <2>1
<1>3. InWindow(h, o, open2) = {}
  <2>1. \A i \in Of(h, o) : h[i].window # open2
      BY <1>1, <1>2, OfHistory
  <2> QED BY <2>1 DEF InWindow
<1>4. open2 < open2 + Day
    BY <1>1
<1> QED BY <1>2, <1>3, <1>4 DEF WindowsApart

(* An admitted request is in the open window.                               *)
LEMMA WindowAppended ==
    ASSUME NEW h, History(h), NEW r \in Requests,
           WindowsApart(h, r.org, r.window, r.at)
    PROVE  WindowsApart(Append(h, r), r.org, r.window, r.at)
<1> DEFINE g == Append(h, r)
           o == r.org
           m == Len(h) + 1
<1>1. /\ Of(g, o) = Of(h, o) \cup {m} /\ g[m] = r
      /\ \A i \in 1 .. Len(h) : g[i] = h[i]
    BY Appended
<1>2. Of(h, o) \subseteq 1 .. Len(h)
    BY OfHistory
<1>3. \A i \in Of(h, o) : g[i] = h[i]
    BY <1>1, <1>2
<1> HIDE DEF g, m
<1>4. r.window <= r.at /\ r.at < r.window + Day
    BY DEF WindowsApart
<1>5. \A i \in Of(g, o) :
        /\ g[i].window <= g[i].at /\ g[i].at < g[i].window + Day
        /\ g[i].window = r.window \/ g[i].window + Day <= r.window
    BY <1>1, <1>3, <1>4 DEF WindowsApart
<1>6. ASSUME NEW i \in Of(g, o), NEW j \in Of(g, o)
      PROVE  \/ g[i].window = g[j].window
             \/ g[i].window + Day <= g[j].window
             \/ g[j].window + Day <= g[i].window
  <2>1. CASE i = m \/ j = m
      BY <1>1, <1>5, <2>1
  <2>2. CASE i # m /\ j # m
      BY <1>1, <1>3, <2>2 DEF WindowsApart
  <2> QED BY <2>1, <2>2
<1> QED BY <1>4, <1>5, <1>6 DEF WindowsApart, g

(* It counts against that window and no other.                              *)
LEMMA BytesAppended ==
    ASSUME NEW h, History(h), NEW r \in Requests, NEW w
    PROVE  BytesIn(Append(h, r), InWindow(Append(h, r), r.org, w))
             = BytesIn(h, InWindow(h, r.org, w)) + (IF w = r.window THEN r.bytes ELSE 0)
<1> DEFINE g == Append(h, r)
           o == r.org
           m == Len(h) + 1
           S == InWindow(h, o, w)
<1>1. /\ Of(g, o) = Of(h, o) \cup {m} /\ g[m] = r
      /\ \A i \in 1 .. Len(h) : g[i] = h[i]
    BY Appended
<1>2. Of(h, o) \subseteq 1 .. Len(h) /\ BytesIn(h, S) \in Nat
    BY OfHistory
<1>3. S \subseteq 1 .. Len(h) /\ \A i \in Of(h, o) : g[i] = h[i]
    BY <1>1, <1>2 DEF InWindow
<1>4. r.bytes \in Nat
    BY DEF Requests
<1> HIDE DEF g, S
<1>5. CASE w = r.window
  <2>1. InWindow(g, o, w) = S \cup {m}
      BY <1>1, <1>3, <1>5 DEF InWindow, S
  <2>2. BytesIn(g, S \cup {m}) = r.bytes + BytesIn(h, S)
      BY <1>3, AppendedSums DEF g
  <2> HIDE DEF m, o
  <2>3. BytesIn(g, InWindow(g, o, w)) = BytesIn(h, S) + r.bytes
      BY <1>2, <1>4, <2>1, <2>2
  <2> QED BY <1>5, <2>3 DEF S, g, o
<1>6. CASE w # r.window
  <2>1. InWindow(g, o, w) = S
      BY <1>1, <1>3, <1>6 DEF InWindow, S
  <2>2. BytesIn(g, S) = BytesIn(h, S)
      BY <1>3, AppendedSums DEF g
  <2> HIDE DEF m, o
  <2>3. BytesIn(g, InWindow(g, o, w)) = BytesIn(h, S) + 0
      BY <1>2, <2>1, <2>2
  <2> QED BY <1>6, <2>3 DEF S, g, o
<1> QED BY <1>5, <1>6

(* A request that fits its window keeps every window and every day in       *)
(* budget.                                                                  *)
LEMMA BudgetAppended ==
    ASSUME NEW h, History(h), NEW r \in Requests, BudgetKept(h, r.org),
           BytesIn(h, InWindow(h, r.org, r.window)) + r.bytes <= BytesPerDay
    PROVE  BudgetKept(Append(h, r), r.org)
<1> DEFINE g == Append(h, r)
           o == r.org
           m == Len(h) + 1
<1>1. /\ Of(g, o) = Of(h, o) \cup {m} /\ g[m] = r
      /\ \A i \in 1 .. Len(h) : g[i] = h[i]
    BY Appended
<1>2. Of(h, o) \subseteq 1 .. Len(h)
    BY OfHistory
<1> SUFFICES ASSUME NEW i \in Of(g, o)
             PROVE  BytesIn(g, InWindow(g, o, g[i].window)) <= BytesPerDay
    BY DEF BudgetKept
<1> DEFINE w == g[i].window
<1>3. CASE w = r.window
  <2>1. BytesIn(g, InWindow(g, o, w)) = BytesIn(h, InWindow(h, o, w)) + r.bytes
      BY <1>3, BytesAppended
  <2> HIDE DEF g, w
  <2>2. BytesIn(h, InWindow(h, o, w)) + r.bytes <= BytesPerDay
      BY <1>3
  <2> QED BY <2>1, <2>2 DEF w
<1>4. CASE w # r.window
  <2>1. i \in Of(h, o) /\ h[i].window = w
    <3>1. i # m
        BY <1>1, <1>4
    <3> QED BY <1>1, <1>2, <3>1
  <2>2. BytesIn(g, InWindow(g, o, w)) = BytesIn(h, InWindow(h, o, w)) + 0
      BY <1>4, BytesAppended
  <2>3. BytesIn(h, InWindow(h, o, w)) \in Nat
      BY OfHistory
  <2> HIDE DEF g, w
  <2>4. BytesIn(h, InWindow(h, o, w)) <= BytesPerDay
      BY <2>1 DEF BudgetKept
  <2>5. BytesIn(g, InWindow(g, o, w)) <= BytesPerDay
      BY <2>2, <2>3, <2>4
  <2> QED BY <2>5 DEF w
<1> QED BY <1>3, <1>4

(* A stretch of one day touches two windows at most.                        *)
LEMMA TwoWindows ==
    ASSUME NEW h, History(h), NEW o, NEW open \in Int, NEW refill \in Int,
           WindowsApart(h, o, open, refill), BudgetKept(h, o), NEW t \in Int
    PROVE  BytesIn(h, {k \in Of(h, o) : h[k].at >= t /\ h[k].at < t + Day})
             <= 2 * BytesPerDay
<1> DEFINE D == {k \in Of(h, o) : h[k].at >= t /\ h[k].at < t + Day}
           A == {k \in D : h[k].window <= t}
           B == {k \in D : h[k].window > t}
<1>1. Day \in Int /\ BytesPerDay \in Nat
    BY LimitsAssumption
<1>2. ASSUME NEW k \in D
      PROVE  /\ k \in Of(h, o) /\ h[k].window \in Int
             /\ t - Day < h[k].window /\ h[k].window < t + Day
  <2>1. /\ h[k].at \in Int /\ h[k].window \in Int /\ h[k].window <= h[k].at
        /\ h[k].at < h[k].window + Day
      BY OfHistory DEF WindowsApart
  <2> QED BY <1>1, <2>1
<1>3. D \subseteq 1 .. Len(h)
    BY OfHistory
<1>4. ASSUME NEW S \in SUBSET D,
             \A i, j \in S : h[i].window = h[j].window
      PROVE  BytesIn(h, S) \in Nat /\ BytesIn(h, S) <= BytesPerDay
  <2>1. BytesIn(h, S) \in Nat
      BY <1>3, Positions
  <2>2. CASE S = {}
    <3>1. BytesIn(h, S) = 0
        BY <2>2, SumOfNone DEF BytesIn
    <3> QED BY <1>1, <3>1
  <2>3. CASE S # {}
    <3>1. PICK i \in S : TRUE
        BY <2>3
    <3> DEFINE W == InWindow(h, o, h[i].window)
    <3>2. S \subseteq W /\ W \subseteq 1 .. Len(h)
        BY <1>2, <1>4, OfHistory DEF InWindow
    <3>3. BytesIn(h, W) <= BytesPerDay /\ BytesIn(h, W) \in Nat
        BY <1>2, OfHistory DEF BudgetKept
    <3> HIDE DEF W
    <3>4. BytesIn(h, S) <= BytesIn(h, W)
      <4> DEFINE f == [k \in W |-> h[k].bytes]
                 e == [k \in S |-> h[k].bytes]
      <4>1. /\ \A k \in W : f[k] \in Nat
            /\ \A k \in S : f[k] = e[k]
            /\ IsFiniteSet(W) /\ IsFiniteSet(S)
          BY <1>3, <3>2, Positions
      <4>2. BytesIn(h, W) = SumFunctionOnSet(f, W) /\ BytesIn(h, S) = SumFunctionOnSet(e, S)
          BY DEF BytesIn
      <4> HIDE DEF f, e
      <4>3. SumFunctionOnSet(f, S) <= SumFunctionOnSet(f, W)
          BY <3>2, <4>1, SumOfPart
      <4>4. SumFunctionOnSet(f, S) = SumFunctionOnSet(e, S)
          BY <4>1, SumOfSame
      <4> QED BY <4>2, <4>3, <4>4
    <3> QED BY <1>1, <2>1, <3>3, <3>4
  <2> QED BY <2>1, <2>2, <2>3
<1>5. ASSUME NEW i \in D, NEW j \in D,
             (i \in A /\ j \in A) \/ (i \in B /\ j \in B)
      PROVE  h[i].window = h[j].window
  <2>1. \/ h[i].window = h[j].window
        \/ h[i].window + Day <= h[j].window
        \/ h[j].window + Day <= h[i].window
      BY <1>2 DEF WindowsApart
  <2> QED BY <1>1, <1>2, <1>5, <2>1
<1>6. /\ BytesIn(h, A) \in Nat /\ BytesIn(h, A) <= BytesPerDay
      /\ BytesIn(h, B) \in Nat /\ BytesIn(h, B) <= BytesPerDay
  <2>1. A \in SUBSET D /\ B \in SUBSET D
      OBVIOUS
  <2> HIDE DEF A, B, D
  <2>2. \A i, j \in A : h[i].window = h[j].window
      BY <1>5, <2>1
  <2>3. \A i, j \in B : h[i].window = h[j].window
      BY <1>5, <2>1
  <2> QED BY <1>4, <2>1, <2>2, <2>3
<1>7. BytesIn(h, D) = BytesIn(h, A) + BytesIn(h, B)
  <2>1. D = A \cup B /\ A \cap B = {}
      BY <1>2
  <2> HIDE DEF A, B
  <2> DEFINE f == [k \in D |-> h[k].bytes]
             a == [k \in A |-> h[k].bytes]
             b == [k \in B |-> h[k].bytes]
  <2>2. /\ \A k \in D : f[k] \in Nat
        /\ \A k \in A : f[k] = a[k]
        /\ \A k \in B : f[k] = b[k]
        /\ IsFiniteSet(A) /\ IsFiniteSet(B)
    <3> HIDE DEF D
    <3> QED BY <1>3, <2>1, Positions
  <2>3. /\ BytesIn(h, D) = SumFunctionOnSet(f, D)
        /\ BytesIn(h, A) = SumFunctionOnSet(a, A)
        /\ BytesIn(h, B) = SumFunctionOnSet(b, B)
      BY DEF BytesIn
  <2> HIDE DEF f, a, b, D
  <2>4. SumFunctionOnSet(f, D) = SumFunctionOnSet(f, A) + SumFunctionOnSet(f, B)
      BY <2>1, <2>2, SumOfUnion
  <2>5. /\ SumFunctionOnSet(f, A) = SumFunctionOnSet(a, A)
        /\ SumFunctionOnSet(f, B) = SumFunctionOnSet(b, B)
      BY <2>2, SumOfSame
  <2> QED BY <2>3, <2>4, <2>5
<1> HIDE DEF A, B
<1>8. BytesIn(h, D) <= 2 * BytesPerDay
    BY <1>1, <1>6, <1>7
<1> QED BY <1>8

-----------------------------------------------------------------------------
(* What check finds for an org once the bucket is refilled and the window   *)
(* rolled still satisfies the invariant, and nothing else has changed yet.  *)
FoundByCheck(h, o, full, refill, open, used) ==
    /\ SpansCovered(h, o, full, refill) /\ AccountedFor(h, o, full, refill)
    /\ WindowsApart(h, o, open, refill)
    /\ used = BytesIn(h, InWindow(h, o, open))

(* What a refill and a roll of the window leave fits what was admitted.     *)
LEMMA AfterRefill ==
    ASSUME TypeOK, Limits, NEW o \in Orgs
    PROVE  FoundByCheck(admitted, o, Refilled(o), RefilledAt(o),
                        WindowStart(o), BytesUsed(o))
<1> DEFINE h == admitted
<1>1. /\ now \in Int /\ Day \in Nat \ {0}
      /\ Refilled(o) \in Int /\ RefilledAt(o) \in Int
      /\ spansBucket[o] \in Int /\ spansLastRefill[o] \in Int
      /\ bytesDayStartedAt[o] \in Int
  <2>1. /\ now \in Clock /\ spansLastRefill[o] \in Clock
        /\ bytesDayStartedAt[o] \in Clock /\ spansBucket[o] \in 0 .. BucketSize
        /\ Refilled(o) \in 0 .. BucketSize /\ RefilledAt(o) \in Clock
      BY RefillFacts DEF TypeOK
  <2> QED BY <2>1, LimitsAssumption DEF Clock
<1>2. History(h)
    BY DEF Limits
<1>3. CASE o \in known
  <2> DEFINE full == spansBucket[o]  refill == spansLastRefill[o]
             open == bytesDayStartedAt[o]
  <2>1. /\ SpansCovered(h, o, full, refill) /\ WindowsApart(h, o, open, refill)
        /\ AccountedFor(h, o, full, refill)
        /\ bytesUsedDay[o] = BytesIn(h, InWindow(h, o, open))
      BY <1>3 DEF Limits
  <2>2. /\ refill <= RefilledAt(o)
        /\ Refilled(o) <= full + SpansPerSec * (RefilledAt(o) - refill)
        /\ RefilledAt(o) = MaxOf(refill, now)
    <3>1. RefilledAt(o) >= refill
        BY <1>3, RefillFacts
    <3> QED BY <1>1, <1>3, <3>1, RefillFacts DEF RefilledAt
  <2>3. open <= refill /\ refill < open + Day
      BY <2>1 DEF WindowsApart
  <2> HIDE DEF h
  <2>4. SpansCovered(h, o, Refilled(o), RefilledAt(o))
      BY <1>1, <1>2, <2>1, <2>2, CoverRefilled
  <2>7. AccountedFor(h, o, Refilled(o), RefilledAt(o))
    <3>1. full \in 0 .. BucketSize /\ Refilled(o) \in 0 .. BucketSize
        BY RefillFacts DEF TypeOK
    <3>2. \/ Refilled(o) = BucketSize
          \/ Refilled(o) = full + SpansPerSec * (RefilledAt(o) - refill)
        BY <1>3, RefillFacts
    <3> QED BY <1>1, <1>2, <2>1, <2>2, <3>1, <3>2, AccountRefilled
  <2>5. CASE now - open < Day
    <3>1. WindowStart(o) = open /\ BytesUsed(o) = bytesUsedDay[o]
        BY <1>3, <2>5 DEF WindowStart, BytesUsed, WindowOpen
    <3>2. RefilledAt(o) < open + Day
        BY <1>1, <2>2, <2>3, <2>5 DEF MaxOf
    <3>3. WindowsApart(h, o, open, RefilledAt(o))
        BY <1>1, <1>2, <2>1, <2>2, <3>2, WindowKept
    <3> QED BY <2>1, <2>4, <2>7, <3>1, <3>3 DEF FoundByCheck, h
  <2>6. CASE ~(now - open < Day)
    <3>1. WindowStart(o) = now /\ BytesUsed(o) = 0
        BY <1>3, <2>6 DEF WindowStart, BytesUsed, WindowOpen
    <3>2. open + Day <= now /\ RefilledAt(o) = now
        BY <1>1, <2>2, <2>3, <2>6 DEF MaxOf
    <3>3. WindowsApart(h, o, now, now) /\ InWindow(h, o, now) = {}
        BY <1>1, <1>2, <2>1, <3>2, WindowOpens
    <3>4. BytesIn(h, {}) = 0
        BY SumOfNone DEF BytesIn
    <3> QED BY <2>4, <2>7, <3>1, <3>2, <3>3, <3>4 DEF FoundByCheck, h
  <2> QED BY <2>5, <2>6
<1>4. CASE o \notin known
  <2>1. Of(h, o) = {} /\ InWindow(h, o, now) = {}
      BY <1>4 DEF Limits, InWindow
  <2>2. /\ WindowStart(o) = now /\ BytesUsed(o) = 0 /\ RefilledAt(o) = now
      BY <1>4 DEF WindowStart, BytesUsed, WindowOpen, RefilledAt
  <2>3. BytesIn(h, {}) = 0
      BY SumOfNone DEF BytesIn
  <2>4. now <= now /\ now < now + Day
      BY <1>1
  <2>5. Refilled(o) = BucketSize
      BY <1>4, RefillFacts
  <2> QED BY <2>1, <2>2, <2>3, <2>4, <2>5
          DEF FoundByCheck, SpansCovered, AccountedFor, WindowsApart
<1> QED BY <1>3, <1>4

(* The entry of one org is replaced, and the other orgs' requests are where *)
(* they were: the invariant holds if it holds for that org.                 *)
LEMMA OneOrg ==
    ASSUME TypeOK, Limits, NEW o \in Orgs,
           NEW full, NEW refill, NEW open, NEW used,
           known' = known \cup {o},
           spansBucket' = [spansBucket EXCEPT ![o] = full],
           spansLastRefill' = [spansLastRefill EXCEPT ![o] = refill],
           bytesDayStartedAt' = [bytesDayStartedAt EXCEPT ![o] = open],
           bytesUsedDay' = [bytesUsedDay EXCEPT ![o] = used],
           NEW g, admitted' = g, History(g),
           \A q \in Orgs : q # o => Of(g, q) = Of(admitted, q),
           \A q \in Orgs : q # o => \A i \in Of(g, q) : g[i] = admitted[i],
           FoundByCheck(g, o, full, refill, open, used),
           BurstKept(g, o), BudgetKept(g, o)
    PROVE  Limits'
<1>1. ASSUME NEW q \in Orgs, q # o
      PROVE  /\ \A i : Since(g, q, i) = Since(admitted, q, i)
             /\ \A i, j : Between(g, q, i, j) = Between(admitted, q, i, j)
             /\ \A w : InWindow(g, q, w) = InWindow(admitted, q, w)
    BY <1>1 DEF Since, Between, InWindow
<1>2. ASSUME NEW q \in Orgs, q # o, NEW S \in SUBSET Of(g, q)
      PROVE  SpansIn(g, S) = SpansIn(admitted, S) /\ BytesIn(g, S) = BytesIn(admitted, S)
  <2>1. \A i \in S : g[i] = admitted[i]
      BY <1>2
  <2>2. [i \in S |-> g[i].spans] = [i \in S |-> admitted[i].spans]
      BY <2>1
  <2>3. [i \in S |-> g[i].bytes] = [i \in S |-> admitted[i].bytes]
      BY <2>1
  <2> QED BY <2>2, <2>3 DEF SpansIn, BytesIn
<1>3. ASSUME NEW q \in Orgs, q # o
      PROVE  /\ \A i : SpansIn(g, Since(g, q, i)) = SpansIn(admitted, Since(admitted, q, i))
             /\ \A i, j : SpansIn(g, Between(g, q, i, j))
                            = SpansIn(admitted, Between(admitted, q, i, j))
             /\ \A w : BytesIn(g, InWindow(g, q, w))
                         = BytesIn(admitted, InWindow(admitted, q, w))
  <2>1. /\ \A i : Since(g, q, i) \in SUBSET Of(g, q)
        /\ \A i, j : Between(g, q, i, j) \in SUBSET Of(g, q)
        /\ \A w : InWindow(g, q, w) \in SUBSET Of(g, q)
      BY DEF Since, Between, InWindow
  <2>2. \A i : SpansIn(g, Since(g, q, i)) = SpansIn(admitted, Since(admitted, q, i))
      BY <1>1, <1>2, <1>3, <2>1
  <2>3. \A i, j : SpansIn(g, Between(g, q, i, j))
                    = SpansIn(admitted, Between(admitted, q, i, j))
      BY <1>1, <1>2, <1>3, <2>1
  <2>4. \A w : BytesIn(g, InWindow(g, q, w)) = BytesIn(admitted, InWindow(admitted, q, w))
      BY <1>1, <1>2, <1>3, <2>1
  <2> QED BY <2>2, <2>3, <2>4
<1>4. ASSUME NEW q \in Orgs, q # o
      PROVE  BurstKept(g, q) /\ BudgetKept(g, q)
  <2>1. BurstKept(admitted, q) /\ BudgetKept(admitted, q)
      BY DEF Limits
  <2>2. BurstKept(g, q)
      BY <1>3, <1>4, <2>1 DEF BurstKept
  <2>3. BudgetKept(g, q)
      BY <1>3, <1>4, <2>1 DEF BudgetKept
  <2> QED BY <2>2, <2>3
<1>5. ASSUME NEW q \in known'
      PROVE  FoundByCheck(g, q, spansBucket'[q], spansLastRefill'[q],
                          bytesDayStartedAt'[q], bytesUsedDay'[q])
  <2>1. CASE q = o
      BY <2>1 DEF TypeOK
  <2>2. CASE q # o
    <3>1. q \in known /\ q \in Orgs
        BY <1>5, <2>2 DEF TypeOK
    <3>2. /\ spansBucket'[q] = spansBucket[q] /\ spansLastRefill'[q] = spansLastRefill[q]
          /\ bytesDayStartedAt'[q] = bytesDayStartedAt[q]
          /\ bytesUsedDay'[q] = bytesUsedDay[q]
        BY <2>2, <3>1 DEF TypeOK
    <3> DEFINE h == admitted
    <3>3. /\ SpansCovered(h, q, spansBucket[q], spansLastRefill[q])
          /\ AccountedFor(h, q, spansBucket[q], spansLastRefill[q])
          /\ WindowsApart(h, q, bytesDayStartedAt[q], spansLastRefill[q])
          /\ bytesUsedDay[q] = BytesIn(h, InWindow(h, q, bytesDayStartedAt[q]))
        BY <3>1 DEF Limits
    <3>4. SpansCovered(g, q, spansBucket[q], spansLastRefill[q])
        BY <1>3, <2>2, <3>1, <3>3 DEF SpansCovered
    <3>7. AccountedFor(g, q, spansBucket[q], spansLastRefill[q])
        BY <1>3, <2>2, <3>1, <3>3 DEF AccountedFor
    <3>5. WindowsApart(g, q, bytesDayStartedAt[q], spansLastRefill[q])
        BY <2>2, <3>1, <3>3 DEF WindowsApart
    <3>6. bytesUsedDay[q] = BytesIn(g, InWindow(g, q, bytesDayStartedAt[q]))
        BY <1>3, <2>2, <3>1, <3>3
    <3> QED BY <3>2, <3>4, <3>5, <3>6, <3>7 DEF FoundByCheck
  <2> QED BY <2>1, <2>2
<1>6. \A q \in Orgs \ known' : Of(g, q) = {}
    BY DEF Limits
<1> QED BY <1>4, <1>5, <1>6 DEF Limits, FoundByCheck

(* A denied request: the refill and the roll of the window alone.           *)
LEMMA LimitsDenied ==
    ASSUME TypeOK, Limits, NEW o \in Orgs, Store(o, 0, 0), admitted' = admitted
    PROVE  Limits'
<1>1. Refilled(o) - 0 * Second = Refilled(o) /\ BytesUsed(o) + 0 = BytesUsed(o)
    BY LimitsAssumption, BucketSizeNat, RefillFacts, WindowFacts
<1>2. /\ known' = known \cup {o}
      /\ spansBucket' = [spansBucket EXCEPT ![o] = Refilled(o)]
      /\ spansLastRefill' = [spansLastRefill EXCEPT ![o] = RefilledAt(o)]
      /\ bytesDayStartedAt' = [bytesDayStartedAt EXCEPT ![o] = WindowStart(o)]
      /\ bytesUsedDay' = [bytesUsedDay EXCEPT ![o] = BytesUsed(o)]
    BY <1>1 DEF Store
<1>3. History(admitted) /\ BurstKept(admitted, o) /\ BudgetKept(admitted, o)
    BY DEF Limits
<1> QED BY <1>2, <1>3, AfterRefill, OneOrg

(* An admitted request.                                                     *)
LEMMA LimitsAdmitted ==
    ASSUME TypeOK, Limits, NEW o \in Orgs, NEW n \in Nat, NEW b \in Nat,
           Admit(o, n, b)
    PROVE  Limits'
<1> DEFINE h == admitted
           r == [org |-> o, spans |-> n, bytes |-> b,
                 at |-> RefilledAt(o), window |-> WindowStart(o)]
           g == Append(h, r)
           left == Refilled(o) - n * Second
           used == BytesUsed(o) + b
<1>1. /\ known' = known \cup {o}
      /\ spansBucket' = [spansBucket EXCEPT ![o] = left]
      /\ spansLastRefill' = [spansLastRefill EXCEPT ![o] = RefilledAt(o)]
      /\ bytesDayStartedAt' = [bytesDayStartedAt EXCEPT ![o] = WindowStart(o)]
      /\ bytesUsedDay' = [bytesUsedDay EXCEPT ![o] = used]
      /\ admitted' = g
      /\ Refilled(o) >= n * Second /\ used <= BytesPerDay
    BY DEF Admit, Store
<1>2. History(h) /\ BurstKept(h, o) /\ BudgetKept(h, o)
    BY DEF Limits
<1>3. r \in Requests
    BY RefillFacts, WindowFacts DEF Requests
<1>4. /\ r.org = o /\ r.spans = n /\ r.bytes = b /\ r.at = RefilledAt(o)
      /\ r.window = WindowStart(o)
    OBVIOUS
<1>5. /\ Refilled(o) \in Int /\ Refilled(o) <= BucketSize /\ left \in Nat
  <2>1. Refilled(o) \in 0 .. BucketSize /\ BucketSize \in Nat /\ n * Second \in Nat
      BY LimitsAssumption, BucketSizeNat, RefillFacts
  <2> QED BY <1>1, <2>1
<1>6. FoundByCheck(h, o, Refilled(o), RefilledAt(o), WindowStart(o), BytesUsed(o))
    BY AfterRefill
<1> HIDE DEF r
<1>7. SpansCovered(g, o, left, RefilledAt(o))
  <2>1. SpansCovered(h, r.org, Refilled(o), r.at)
      BY <1>4, <1>6 DEF FoundByCheck
  <2> HIDE DEF h
  <2>2. SpansCovered(Append(h, r), r.org, Refilled(o) - r.spans * Second, r.at)
      BY <1>2, <1>3, <1>5, <2>1, CoverSpent
  <2> QED BY <1>4, <2>2
<1>14. AccountedFor(g, o, left, RefilledAt(o))
  <2>1. AccountedFor(h, r.org, Refilled(o), r.at)
      BY <1>4, <1>6 DEF FoundByCheck
  <2> HIDE DEF h
  <2>2. AccountedFor(Append(h, r), r.org, Refilled(o) - r.spans * Second, r.at)
      BY <1>2, <1>3, <1>5, <2>1, AccountSpent
  <2> QED BY <1>4, <2>2
<1>8. WindowsApart(g, o, WindowStart(o), RefilledAt(o))
  <2>1. WindowsApart(h, r.org, r.window, r.at)
      BY <1>4, <1>6 DEF FoundByCheck
  <2> HIDE DEF h
  <2>2. WindowsApart(Append(h, r), r.org, r.window, r.at)
      BY <1>2, <1>3, <2>1, WindowAppended
  <2> QED BY <1>4, <2>2
<1>9. used = BytesIn(g, InWindow(g, o, WindowStart(o)))
  <2> HIDE DEF h
  <2>1. BytesIn(Append(h, r), InWindow(Append(h, r), r.org, r.window))
          = BytesIn(h, InWindow(h, r.org, r.window)) + r.bytes
      BY <1>2, <1>3, BytesAppended
  <2> QED BY <1>4, <1>6, <2>1 DEF FoundByCheck
<1>10. BurstKept(g, o)
  <2> HIDE DEF h
  <2>1. SpansCovered(Append(h, r), r.org, left, r.at) /\ BurstKept(h, r.org)
      BY <1>2, <1>4, <1>7
  <2> HIDE DEF left
  <2>2. BurstKept(Append(h, r), r.org)
      BY <1>2, <1>3, <1>5, <2>1, BurstAppended
  <2> QED BY <1>4, <2>2
<1>11. BudgetKept(g, o)
  <2> HIDE DEF h
  <2>1. /\ BytesIn(h, InWindow(h, r.org, r.window)) + r.bytes <= BytesPerDay
        /\ BudgetKept(h, r.org)
      BY <1>1, <1>2, <1>4, <1>6 DEF FoundByCheck
  <2>2. BudgetKept(Append(h, r), r.org)
      BY <1>2, <1>3, <2>1, BudgetAppended
  <2> QED BY <1>4, <2>2
<1>12. /\ History(g)
       /\ \A q \in Orgs : q # o => Of(g, q) = Of(h, q)
       /\ \A q \in Orgs : q # o => \A i \in Of(g, q) : g[i] = h[i]
  <2>1. /\ \A i \in 1 .. Len(h) : g[i] = h[i]
        /\ History(g) /\ \A q \in Orgs : q # o => Of(g, q) = Of(h, q)
      BY <1>2, <1>3, <1>4, Appended
  <2> HIDE DEF g, h
  <2>2. \A q : Of(h, q) \subseteq 1 .. Len(h)
      BY <1>2, OfHistory
  <2> QED BY <2>1, <2>2
<1> HIDE DEF g, left, used
<1>13. FoundByCheck(g, o, left, RefilledAt(o), WindowStart(o), used)
    BY <1>7, <1>8, <1>9, <1>14 DEF FoundByCheck
<1> QED BY <1>1, <1>10, <1>11, <1>12, <1>13, OneOrg

(* Every call, reset and movement of the clock keeps it.                    *)
LEMMA LimitsStep == Inv /\ Limits /\ [Next]_vars => Limits'
<1> SUFFICES ASSUME Inv, Limits, [Next]_vars PROVE Limits'
    OBVIOUS
<1>0. TypeOK
    BY DEF Inv
<1>1. ASSUME NEW o \in Orgs, NEW n \in SpanCounts, NEW b \in ByteCounts,
             check(o, n, b)
      PROVE  Limits'
  <2>1. n \in Nat /\ b \in Nat
      BY LimitsAssumption
  <2>2. CASE DenySpans(o, n, b) \/ DenyBytes(o, n, b)
      BY <1>0, <2>2, LimitsDenied DEF DenySpans, DenyBytes, Deny
  <2>3. CASE Admit(o, n, b)
      BY <1>0, <2>1, <2>3, LimitsAdmitted
  <2> QED BY <1>1, <2>2, <2>3 DEF check
<1>2. CASE reset
  <2>1. admitted' = <<>> /\ known' = {}
      BY <1>2 DEF reset
  <2>2. \A o : Of(<<>>, o) = {}
      BY DEF Of
  <2>3. History(<<>>)
      BY DEF History
  <2> QED BY <2>1, <2>2, <2>3 DEF Limits, BurstKept, BudgetKept
<1>3. CASE ClockMoves \/ UNCHANGED vars
  <2>1. UNCHANGED <<known, spansBucket, spansLastRefill, bytesUsedDay,
                    bytesDayStartedAt, admitted>>
      BY <1>3 DEF ClockMoves, vars, bucketVars, byteVars
  <2> QED BY <2>1 DEF Limits
<1> QED BY <1>1, <1>2, <1>3 DEF Next

(* rateLimit.ts check: for any rate, budget, request and clock movement,    *)
(* over every interval an org is let through one bucket and the refill at   *)
(* most, every window keeps to the budget and counts what it admitted, and  *)
(* a stretch of a day sees two budgets at most.                             *)
THEOREM LimitsHold == Spec => []AdmittedWithinLimits
<1>1. Init => Limits
  <2>1. \A o : Of(<<>>, o) = {}
      BY DEF Of
  <2>2. History(<<>>)
      BY DEF History
  <2> QED BY <2>1, <2>2 DEF Init, Limits, BurstKept, BudgetKept
<1>2. Limits /\ Inv => AdmittedWithinLimits
  <2> SUFFICES ASSUME Limits, Inv PROVE AdmittedWithinLimits
      OBVIOUS
  <2>1. ASSUME NEW o \in Orgs
        PROVE  BurstBound(o) /\ DayBound(o)
    <3>1. OfOrg(o) = Of(admitted, o)
        BY DEF OfOrg, Of
    <3>2. History(admitted) /\ BurstKept(admitted, o) /\ BudgetKept(admitted, o)
        BY DEF Limits
    <3>3. BurstBound(o)
        BY <3>1, <3>2 DEF BurstBound, BurstKept, SpansOver, SpansIn, Between
    <3>4. ASSUME NEW i \in Of(admitted, o)
          PROVE  BytesOver({k \in OfOrg(o) : /\ admitted[k].at >= admitted[i].at
                                             /\ admitted[k].at < admitted[i].at + Day})
                   <= 2 * BytesPerDay
      <4>1. o \in known
          BY <3>4 DEF Limits
      <4>2. /\ WindowsApart(admitted, o, bytesDayStartedAt[o], spansLastRefill[o])
            /\ bytesDayStartedAt[o] \in Int /\ spansLastRefill[o] \in Int
          BY <4>1 DEF Limits, Inv, TypeOK, Clock
      <4>3. admitted[i].at \in Int
          BY <3>2, OfHistory
      <4> DEFINE t == admitted[i].at
      <4> HIDE DEF t
      <4>4. BytesIn(admitted, {k \in Of(admitted, o) :
                    admitted[k].at >= t /\ admitted[k].at < t + Day}) <= 2 * BytesPerDay
          BY <3>2, <4>2, <4>3, TwoWindows DEF t
      <4> QED BY <3>1, <4>4 DEF t, BytesOver, BytesIn
    <3>5. ASSUME NEW i \in Of(admitted, o)
          PROVE  BytesOver({k \in OfOrg(o) : admitted[k].window = admitted[i].window})
                   <= BytesPerDay
        BY <3>1, <3>2 DEF BudgetKept, BytesOver, BytesIn, InWindow
    <3> QED BY <3>1, <3>3, <3>4, <3>5 DEF DayBound
  <2>2. ASSUME NEW o \in known
        PROVE  bytesUsedDay[o]
                 = BytesOver({k \in OfOrg(o) : admitted[k].window = bytesDayStartedAt[o]})
    <3>1. OfOrg(o) = Of(admitted, o)
        BY DEF OfOrg, Of
    <3> QED BY <3>1 DEF Limits, BytesOver, BytesIn, InWindow
  <2>3. ASSUME NEW o \in known
        PROVE  SpansAccounted(o)
    <3>1. OfOrg(o) = Of(admitted, o) /\ AccountedFor(admitted, o, spansBucket[o], spansLastRefill[o])
        BY DEF OfOrg, Of, Limits
    <3> QED BY <3>1 DEF AccountedFor, SpansAccounted, SpansOver, SpansIn, Since
  <2> QED BY <2>1, <2>2, <2>3 DEF AdmittedWithinLimits
<1> QED BY <1>1, <1>2, InvInit, InvStep, LimitsStep, PTL DEF Spec
=============================================================================
