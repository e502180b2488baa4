----------------------------- MODULE IatProofs -----------------------------
(***************************************************************************)
(* Proofs about IatGenerator, for every length of the minute, every rate   *)
(* and every sequence of samples: which IATs of the Poisson, of the        *)
(* equidistant and of the uniform generator a Worker that loses no time    *)
(* issues.                                                                 *)
(***************************************************************************)
EXTENDS IatGenerator, SumTheorems, TLAPS

USE IatAssumption DEF IatAssumption

-----------------------------------------------------------------------------
(* Arithmetic *)

\* Cutting to whole microseconds never lengthens a sample.
LEMMA Cut ==
  ASSUME NEW x \in Nat, NEW g \in Nat \ {0}
  PROVE  /\ x \div g \in Nat
         /\ (x \div g) * g <= x
         /\ x % g \in Nat
         /\ x = (x \div g) * g + (x % g)
  BY SMT

\* A product does not depend on the order of its factors.
LEMMA TimesCommutes ==
  ASSUME NEW a \in Nat, NEW b \in Nat
  PROVE  /\ a * b = b * a /\ a * b \in Nat
         /\ (a + 1) * b = a * b + b
  OBVIOUS

\* Multiplying by a positive number keeps the order.
LEMMA TimesMonotone ==
  ASSUME NEW a \in Nat, NEW b \in Nat, NEW g \in Nat, a <= b
  PROVE  a * g <= b * g
<1>1. PICK d \in Nat : b = a + d
  BY b - a \in Nat
<1>2. b * g = a * g + d * g /\ d * g \in Nat
  BY <1>1
<1> QED
  BY <1>2

-----------------------------------------------------------------------------
(* The Poisson generator *)

\* While the Worker sleeps an IAT, what has passed of the minute and the IAT are
\* within the sum of the samples, which is within the minute; the fallback is as
\* long as the minute.
PoissonInv ==
  gen = "poisson" =>
    /\ sum \in Nat /\ now \in Nat /\ iat \in Nat /\ got \in Nat /\ issued \in Nat
    /\ sum < Minute * Grain
    /\ now * Grain <= sum
    /\ pc = "next" => issued = got
    /\ pc = "sleep" => \/ (now + iat) * Grain <= sum /\ got = issued + 1
                       \/ iat = Minute /\ issued = got
    /\ pc = "over" => issued = got

\* The Worker starts in it.
LEMMA PoissonInit == Init => PoissonInv
<1>1. 0 < Minute * Grain /\ 0 * Grain = 0
  OBVIOUS
<1> QED
  BY <1>1 DEF Init, PoissonInv

\* Taking the next IAT keeps it.
LEMMA PoissonTake == PoissonInv /\ NextIat => PoissonInv'
<1> SUFFICES ASSUME PoissonInv, NextIat, gen = "poisson" PROVE PoissonInv'
  BY DEF PoissonInv, NextIat
<1>1. /\ sum \in Nat /\ now \in Nat /\ got \in Nat /\ issued \in Nat
      /\ sum < Minute * Grain /\ now * Grain <= sum /\ issued = got
      /\ NextPoisson /\ pc' = "sleep"
      /\ UNCHANGED <<gen, now, issued>>
  BY DEF PoissonInv, NextIat
<1>2. CASE Exhausted
  BY <1>1, <1>2 DEF PoissonInv, Exhausted
<1>3. ASSUME NEW x \in Samples, sum + x < Minute * Grain,
             iat' = x \div Grain, sum' = sum + x, got' = got + 1
      PROVE  PoissonInv'
  <2>1. x \in Nat /\ x \div Grain \in Nat /\ (x \div Grain) * Grain <= x
    BY Cut
  <2>2. (now + iat') * Grain = now * Grain + iat' * Grain
    BY <1>1, <1>3, <2>1
  <2>3. now * Grain \in Nat /\ iat' * Grain \in Nat
    BY <1>1, <1>3, <2>1
  <2>4. (now + iat') * Grain <= sum'
    BY <1>1, <1>3, <2>1, <2>2, <2>3
  <2> QED
    BY <1>1, <1>3, <2>1, <2>3, <2>4 DEF PoissonInv
<1> QED
  BY <1>1, <1>2, <1>3 DEF NextPoisson, TakeWhile

\* A sleep that ends with the minute or later was the fallback; one that ends
\* before it was an IAT.
LEMMA PoissonSleep == PoissonInv /\ (MinuteElapses \/ Issue) => PoissonInv'
<1> SUFFICES ASSUME PoissonInv, MinuteElapses \/ Issue, gen = "poisson"
             PROVE  PoissonInv'
  BY DEF PoissonInv, MinuteElapses, Issue
<1>1. /\ sum \in Nat /\ now \in Nat /\ iat \in Nat /\ got \in Nat /\ issued \in Nat
      /\ sum < Minute * Grain /\ now * Grain <= sum
      /\ \/ (now + iat) * Grain <= sum /\ got = issued + 1
         \/ iat = Minute /\ issued = got
  BY DEF PoissonInv, MinuteElapses, Issue
<1>2. CASE MinuteElapses
  <2>1. Minute * Grain <= (now + iat) * Grain
    BY <1>1, <1>2, TimesMonotone DEF MinuteElapses
  <2>2. (now + iat) * Grain \in Nat /\ Minute * Grain \in Nat
    BY <1>1
  <2>3. issued = got
    BY <1>1, <2>1, <2>2
  <2> QED
    BY <1>1, <1>2, <2>3 DEF MinuteElapses, PoissonInv
<1>3. CASE Issue
  <2>1. (now + iat) * Grain <= sum /\ got = issued + 1
    BY <1>1, <1>3 DEF Issue
  <2> QED
    BY <1>1, <1>3, <2>1 DEF Issue, PoissonInv
<1> QED
  BY <1>2, <1>3

\* Everything the Poisson generator produces is issued, whatever it samples,
\* though the samples are cut and the select! of the Worker is biased.
THEOREM PoissonIssued == Spec => []PoissonFits
<1>1. PoissonInv /\ [Next]_vars => PoissonInv'
  <2> SUFFICES ASSUME PoissonInv, [Next]_vars PROVE PoissonInv'
    OBVIOUS
  <2>1. CASE UNCHANGED vars
    BY <2>1 DEF vars, PoissonInv
  <2> QED
    BY <2>1, PoissonTake, PoissonSleep DEF Next, Terminating
<1>2. PoissonInv => PoissonFits
  BY DEF PoissonInv, PoissonFits
<1> QED
  BY <1>1, <1>2, PoissonInit, PTL DEF Spec

-----------------------------------------------------------------------------
(* The equidistant generator *)

Step == Minute \div rpm

\* What is left of the iterator, and how much of the minute has passed: as many
\* steps as requests were issued.
EquidistantInv ==
  gen = "equidistant" =>
    /\ rpm \in Nat /\ got \in 0 .. rpm /\ issued \in 0 .. rpm
    /\ queued \in Seq(Nat) /\ Len(queued) = rpm - got
    /\ \A k \in 1 .. Len(queued) : queued[k] = Step
    /\ now \in Nat /\ now < Minute
    /\ IF rpm = 0 THEN now = 0 ELSE now = Step * issued
    /\ pc \in {"next", "sleep", "over"}
    /\ pc = "next" => issued = got
    /\ pc = "sleep" => \/ rpm > 0 /\ iat = Step /\ got = issued + 1
                       \/ iat = Minute /\ issued = rpm /\ got = rpm
    /\ EquidistantLosesLast

\* The Worker starts in it.
LEMMA EquidistantInit == Init => EquidistantInv
<1> SUFFICES ASSUME Init, gen = "equidistant" PROVE EquidistantInv
  BY DEF EquidistantInv
<1>1. rpm \in Nat /\ queued = [k \in 1 .. rpm |-> Step]
  BY DEF Init, EquidistantIats, Step
<1>2. queued \in Seq(Nat) /\ Len(queued) = rpm
  <2>1. CASE rpm = 0
    BY <1>1, <2>1
  <2>2. CASE rpm # 0
    <3>1. Step \in Nat
      BY <1>1, <2>2, Cut DEF Step
    <3> QED
      BY <1>1, <3>1
  <2> QED
    BY <2>1, <2>2
<1>3. \A k \in 1 .. Len(queued) : queued[k] = Step
  BY <1>1, <1>2
<1>4. rpm # 0 => Step * 0 = 0
  BY <1>1, Cut DEF Step
<1> QED
  BY <1>1, <1>2, <1>3, <1>4 DEF Init, EquidistantInv, EquidistantLosesLast

\* Taking the next IAT keeps it.
LEMMA EquidistantTake == EquidistantInv /\ NextIat => EquidistantInv'
<1> SUFFICES ASSUME EquidistantInv, NextIat, gen = "equidistant"
             PROVE  EquidistantInv'
  BY DEF EquidistantInv, NextIat
<1>1. /\ rpm \in Nat /\ got \in 0 .. rpm /\ issued = got
      /\ queued \in Seq(Nat) /\ Len(queued) = rpm - got
      /\ \A k \in 1 .. Len(queued) : queued[k] = Step
      /\ now \in Nat /\ now < Minute
      /\ IF rpm = 0 THEN now = 0 ELSE now = Step * issued
      /\ NextCollected /\ pc' = "sleep"
      /\ UNCHANGED <<gen, rpm, now, issued>> /\ Step' = Step
  BY DEF EquidistantInv, NextIat, Step
<1>2. EquidistantLosesLast'
  BY <1>1 DEF EquidistantLosesLast
<1>3. CASE queued = << >>
  BY <1>1, <1>2, <1>3 DEF NextCollected, Exhausted, EquidistantInv
<1>4. CASE queued # << >>
  <2>1. iat' = Head(queued) /\ queued' = Tail(queued) /\ got' = got + 1
    BY <1>1, <1>4 DEF NextCollected
  <2>2. Len(queued) > 0 /\ Head(queued) = Step
    BY <1>1, <1>4
  <2>3. /\ queued' \in Seq(Nat) /\ Len(queued') = rpm - got'
        /\ \A k \in 1 .. Len(queued') : queued'[k] = Step
    BY <1>1, <2>1, <2>2
  <2> QED
    BY <1>1, <1>2, <2>1, <2>2, <2>3 DEF EquidistantInv
<1> QED
  BY <1>3, <1>4

\* Fewer than rpm steps do not fill the minute; rpm steps do when the rate
\* divides it.
LEMMA StepsFill ==
  ASSUME NEW r \in Nat \ {0}, NEW n \in 1 .. r, Minute <= (Minute \div r) * n
  PROVE  n = r /\ Minute % r = 0
<1> DEFINE d == Minute \div r
<1>1. d \in Nat /\ d * r <= Minute /\ (Minute % r) \in Nat /\ Minute = d * r + (Minute % r)
  BY Cut
<1> HIDE DEF d
<1>2. n = r
  <2> SUFFICES ASSUME n # r PROVE FALSE
    OBVIOUS
  <2>1. n + 1 <= r
    OBVIOUS
  <2>2. (n + 1) * d <= r * d
    BY <1>1, <2>1, TimesMonotone
  <2>3. (n + 1) * d = d * n + d /\ r * d = d * r
    BY <1>1
  <2>4. d * n \in Nat /\ Minute <= d * n
    BY <1>1 DEF d
  <2>5. d = 0
    BY <1>1, <2>2, <2>3, <2>4
  <2> QED
    BY <2>4, <2>5
<1>3. Minute <= d * r
  BY <1>2 DEF d
<1> QED
  BY <1>1, <1>2, <1>3

\* The end of a sleep keeps it.
LEMMA EquidistantSleep == EquidistantInv /\ (MinuteElapses \/ Issue) => EquidistantInv'
<1> SUFFICES ASSUME EquidistantInv, MinuteElapses \/ Issue, gen = "equidistant"
             PROVE  EquidistantInv'
  BY DEF EquidistantInv, MinuteElapses, Issue
<1>1. /\ rpm \in Nat /\ got \in 0 .. rpm /\ issued \in 0 .. rpm
      /\ queued \in Seq(Nat) /\ Len(queued) = rpm - got
      /\ \A k \in 1 .. Len(queued) : queued[k] = Step
      /\ now \in Nat /\ now < Minute
      /\ IF rpm = 0 THEN now = 0 ELSE now = Step * issued
      /\ \/ rpm > 0 /\ iat = Step /\ got = issued + 1
         \/ iat = Minute /\ issued = rpm /\ got = rpm
      /\ UNCHANGED <<gen, rpm, queued, got, iat>> /\ Step' = Step
  BY DEF EquidistantInv, MinuteElapses, Issue, Step
<1>2. rpm # 0 => Step \in Nat /\ Step * rpm <= Minute /\ Step * (issued + 1) = Step * issued + Step
  <2> SUFFICES ASSUME rpm # 0
               PROVE  Step \in Nat /\ Step * rpm <= Minute /\ Step * (issued + 1) = Step * issued + Step
    OBVIOUS
  <2>1. Step \in Nat /\ Step * rpm <= Minute
    BY <1>1, Cut DEF Step
  <2>2. issued \in Nat
    BY <1>1
  <2> QED
    BY <2>1, <2>2
<1>3. CASE MinuteElapses
  <2>1. EquidistantLosesLast'
    <3>1. CASE rpm > 0 /\ iat = Step /\ got = issued + 1
      <4>1. issued + 1 \in 1 .. rpm /\ Minute <= Step * (issued + 1)
        BY <1>1, <1>2, <1>3, <3>1 DEF MinuteElapses
      <4>2. issued + 1 = rpm /\ Minute % rpm = 0
        BY <1>1, <3>1, <4>1, StepsFill DEF Step
      <4> QED
        BY <1>1, <1>3, <3>1, <4>2 DEF EquidistantLosesLast, MinuteElapses
    <3>2. CASE iat = Minute /\ issued = rpm /\ got = rpm
      <4>1. rpm # 0 => Minute % rpm # 0
        <5> SUFFICES ASSUME rpm # 0, Minute % rpm = 0 PROVE FALSE
          OBVIOUS
        <5>1. Minute = (Minute \div rpm) * rpm + (Minute % rpm)
          BY <1>1, Cut
        <5>2. Step * rpm < Minute
          BY <1>1, <3>2
        <5> QED
          BY <1>1, <1>2, <5>1, <5>2 DEF Step
      <4> QED
        BY <1>1, <1>3, <3>2, <4>1 DEF EquidistantLosesLast, MinuteElapses
    <3> QED
      BY <1>1, <3>1, <3>2
  <2> QED
    BY <1>1, <1>3, <2>1 DEF MinuteElapses, EquidistantInv
<1>4. CASE Issue
  <2>1. rpm > 0 /\ iat = Step /\ got = issued + 1
    BY <1>1, <1>4 DEF Issue
  <2>2. now' = Step * issued'
    BY <1>1, <1>2, <1>4, <2>1 DEF Issue
  <2> QED
    BY <1>1, <1>2, <1>4, <2>1, <2>2 DEF Issue, EquidistantInv, EquidistantLosesLast
<1> QED
  BY <1>3, <1>4

\* A rate that divides the minute loses its last request in every minute: a
\* function with one request a minute is never invoked.
THEOREM EquidistantIssued == Spec => []EquidistantLosesLast
<1>1. EquidistantInv /\ [Next]_vars => EquidistantInv'
  <2> SUFFICES ASSUME EquidistantInv, [Next]_vars PROVE EquidistantInv'
    OBVIOUS
  <2>1. CASE UNCHANGED vars
    BY <2>1 DEF vars, EquidistantInv, EquidistantLosesLast, Step
  <2> QED
    BY <2>1, EquidistantTake, EquidistantSleep DEF Next, Terminating
<1>2. EquidistantInv => EquidistantLosesLast
  BY DEF EquidistantInv, EquidistantLosesLast
<1> QED
  BY <1>1, <1>2, EquidistantInit, PTL DEF Spec
-----------------------------------------------------------------------------
(* The uniform generator *)

\* What the samples are scaled to is within the minute: each is cut, never
\* rounded up, and their shares of the total add up to the whole.
LEMMA ScaledFits ==
  ASSUME NEW n \in Nat, NEW x, \A k \in 1 .. n : x[k] \in Nat,
         NEW T, T = SumFunctionOnSet(x, 1 .. n),
         NEW g, \A k \in 1 .. n : g[k] = Scaled(x[k], T)
  PROVE  /\ \A k \in 1 .. n : g[k] \in Nat
         /\ SumFunctionOnSet(g, 1 .. n) <= Minute
<1>. DEFINE S == 1 .. n
<1>1. IsFiniteSet(S)
  BY FS_Interval
<1>0. /\ \A k \in S : x[k] \in Nat /\ g[k] = Scaled(x[k], T)
      /\ T = SumFunctionOnSet(x, S)
  OBVIOUS
<1>. HIDE DEF S
<1>2. T \in Nat
  BY <1>0, <1>1, SumNat
<1>3. CASE T = 0
  <2>1. \A k \in S : g[k] = 0
    BY <1>0, <1>3 DEF Scaled
  <2>2. SumFunctionOnSet(g, S) = Cardinality(S) * 0
    BY <1>1, <2>1, 0 \in Int, SumConstant
  <2>3. Cardinality(S) \in Nat
    BY <1>1, FS_CardinalityType
  <2>. QED
    BY <2>1, <2>2, <2>3 DEF S
<1>4. CASE T # 0
  <2>. DEFINE tg == [k \in S |-> T * g[k]]
              mx == [k \in S |-> Minute * x[k]]
  <2>1. ASSUME NEW k \in S
        PROVE  g[k] \in Nat /\ T * g[k] \in Nat /\ Minute * x[k] \in Nat
               /\ T * g[k] <= Minute * x[k]
    <3>. DEFINE p == x[k] * Minute
    <3>1. p \in Nat /\ p = Minute * x[k]
      BY <1>0, TimesCommutes
    <3>2. g[k] = p \div T
      BY <1>0, <1>4 DEF Scaled
    <3>. HIDE DEF p
    <3>3. g[k] \in Nat /\ g[k] * T <= p
      BY <1>2, <1>4, <3>1, <3>2, Cut
    <3>4. g[k] * T = T * g[k] /\ T * g[k] \in Nat
      BY <1>2, <3>3, TimesCommutes
    <3>. QED
      BY <3>1, <3>3, <3>4
  <2>2. SumFunctionOnSet(tg, S) = T * SumFunctionOnSet(g, S)
    <3>1. T \in Int /\ \A k \in S : g[k] \in Int /\ tg[k] = T * g[k]
      BY <1>2, <2>1
    <3>. HIDE DEF tg
    <3>. QED
      BY <1>1, <3>1, SumTimes
  <2>3. SumFunctionOnSet(mx, S) = Minute * T
    <3>1. Minute \in Int /\ \A k \in S : x[k] \in Int /\ mx[k] = Minute * x[k]
      BY <1>0
    <3>. HIDE DEF mx
    <3>. QED
      BY <1>0, <1>1, <3>1, SumTimes
  <2>4. SumFunctionOnSet(tg, S) <= SumFunctionOnSet(mx, S)
    <3>1. \A k \in S : tg[k] \in Int /\ mx[k] \in Int /\ tg[k] <= mx[k]
      BY <2>1
    <3>. HIDE DEF tg, mx
    <3>. QED
      BY <1>1, <3>1, SumOrder
  <2>5. SumFunctionOnSet(g, S) \in Nat
    BY <1>1, <2>1, SumNat
  <2>. DEFINE s == SumFunctionOnSet(g, S)
  <2>6. s \in Nat /\ T * s <= Minute * T
    BY <2>2, <2>3, <2>4, <2>5
  <2>. HIDE DEF s
  <2>7. s <= Minute
    <3>. SUFFICES ASSUME Minute + 1 <= s PROVE FALSE
      BY <2>6
    <3>1. (Minute + 1) * T <= s * T
      BY <1>2, <2>6, TimesMonotone
    <3>2. s * T = T * s /\ (Minute + 1) * T = Minute * T + T /\ Minute * T \in Nat
      BY <1>2, <2>6, TimesCommutes
    <3>. QED
      BY <1>2, <1>4, <2>6, <3>1, <3>2
  <2>. QED
    BY <2>1, <2>7 DEF s, S
<1>. QED
  BY <1>2, <1>3, <1>4

\* What the iterator still has.
Queue == SumFunctionOnSet(queued, 1 .. Len(queued))

\* A sum is its first term and the rest.
LEMMA SumFirst ==
  ASSUME NEW n \in Nat, NEW f, \A k \in 1 .. 1 + n : f[k] \in Int,
         NEW g, \A m \in 1 .. n : g[m] = f[1 + m]
  PROVE  SumFunctionOnSet(f, 1 .. 1 + n) = f[1] + SumFunctionOnSet(g, 1 .. n)
<1>1. PICK d \in Nat : d = 1
  OBVIOUS
<1>2. (\A k \in 1 .. d + n : f[k] \in Int) /\ (\A m \in 1 .. n : g[m] = f[d + m])
  BY <1>1
<1>3. SumFunctionOnSet(f, 1 .. d + n)
        = SumFunctionOnSet(f, 1 .. d) + SumFunctionOnSet(g, 1 .. n)
  BY ONLY <1>2, SumShifted, n \in Nat, d \in Nat
<1>4. PICK z \in Nat : z = 0
  OBVIOUS
<1>5. \A k \in 1 .. z + 1 : f[k] \in Int
  BY <1>4
<1>6. SumFunctionOnSet(f, 1 .. z + 1) = SumFunctionOnSet(f, 1 .. z) + f[z + 1]
  BY ONLY <1>5, SumUpTo, z \in Nat
<1>7. 1 .. z = {} /\ z + 1 = d /\ d = 1 /\ f[1] \in Int
  BY <1>1, <1>4
<1>8. SumFunctionOnSet(f, {}) = 0
  BY SumEmpty
<1>9. SumFunctionOnSet(f, 1 .. d) = f[1]
  <2>1. SumFunctionOnSet(f, 1 .. z) = 0
    BY <1>7, <1>8
  <2>2. SumFunctionOnSet(f, 1 .. d) = 0 + f[1]
    BY <1>6, <1>7, <2>1, Zenon
  <2>. QED
    BY <1>7, <2>2
<1>. QED
  BY <1>3, <1>7, <1>9

\* The sum of a sequence of natural numbers is one.
LEMMA SeqSum ==
  ASSUME NEW s \in Seq(Nat)
  PROVE  SumFunctionOnSet(s, 1 .. Len(s)) \in Nat
<1>. DEFINE n == Len(s)
<1>1. n \in Nat /\ \A k \in 1 .. n : s[k] \in Nat
  OBVIOUS
<1>. HIDE DEF n
<1>2. IsFiniteSet(1 .. n)
  BY <1>1, FS_Interval
<1>. QED
  BY <1>1, <1>2, SumNat DEF n

\* It is the next IAT and what the iterator has after it.
LEMMA QueueShifts ==
  ASSUME NEW s \in Seq(Nat), s # << >>
  PROVE  /\ Head(s) \in Nat /\ Tail(s) \in Seq(Nat) /\ Len(Tail(s)) = Len(s) - 1
         /\ SumFunctionOnSet(s, 1 .. Len(s))
              = Head(s) + SumFunctionOnSet(Tail(s), 1 .. Len(Tail(s)))
<1>. DEFINE q == Tail(s)
            n == Len(s) - 1
<1>1. /\ n \in Nat /\ Len(s) = 1 + n /\ s[1] \in Nat /\ Head(s) = s[1]
      /\ q \in Seq(Nat) /\ Len(q) = n
      /\ \A k \in 1 .. 1 + n : s[k] \in Int
      /\ \A m \in 1 .. n : q[m] = s[1 + m]
  OBVIOUS
<1>. HIDE DEF q, n
<1>2. SumFunctionOnSet(s, 1 .. 1 + n) = s[1] + SumFunctionOnSet(q, 1 .. n)
  BY <1>1, SumFirst
<1>. QED
  BY <1>1, <1>2 DEF q

\* Natural numbers that sum to nothing are all 0.
LEMMA ZeroSum ==
  ASSUME NEW n \in Nat, NEW f, \A k \in 1 .. n : f[k] \in Nat,
         SumFunctionOnSet(f, 1 .. n) = 0
  PROVE  \A k \in 1 .. n : f[k] = 0
<1>1. IsFiniteSet(1 .. n)
  BY FS_Interval
<1>. TAKE k \in 1 .. n
<1>2. SumFunctionOnSet(f, 1 .. n) = f[k] + SumFunctionOnSet(f, (1 .. n) \ {k})
  BY <1>1, SumRemove
<1>3. SumFunctionOnSet(f, (1 .. n) \ {k}) \in Nat
  BY <1>1, FS_Subset, SumNat
<1>. QED
  BY <1>2, <1>3

\* What has passed of the minute, what is being slept and what is left are within
\* the minute; the fallback is for a Worker that has issued everything.
UniformInv ==
  gen = "uniform" =>
    /\ rpm \in Nat /\ got \in Nat /\ issued \in Nat /\ now \in Nat
    /\ queued \in Seq(Nat) /\ Len(queued) = rpm - got
    /\ pc = "next" => issued = got /\ now + Queue <= Minute
    /\ pc = "sleep" => \/ iat \in Nat /\ now + iat + Queue <= Minute /\ got = issued + 1
                       \/ iat = Minute /\ issued = rpm
    /\ UniformFits

\* The Worker starts in it.
LEMMA UniformInit == Init => UniformInv
<1>. SUFFICES ASSUME Init, gen = "uniform" PROVE UniformInv
  BY DEF UniformInv
<1>1. PICK draws \in [1 .. rpm -> 0 .. Unit - 1] :
        queued = [k \in 1 .. rpm |-> Scaled(draws[k], Total(draws))]
  BY DEF Init
<1>2. rpm \in Nat /\ \A k \in 1 .. rpm : draws[k] \in Nat
  BY <1>1 DEF Init
<1>3. Total(draws) = SumFunctionOnSet(draws, 1 .. rpm)
  BY DEF Total, SumFunction
<1>4. \A k \in 1 .. rpm : queued[k] = Scaled(draws[k], Total(draws))
  BY <1>1
<1>5. /\ \A k \in 1 .. rpm : queued[k] \in Nat
      /\ SumFunctionOnSet(queued, 1 .. rpm) <= Minute
  BY <1>2, <1>3, <1>4, ScaledFits
<1>6. queued \in Seq(Nat) /\ Len(queued) = rpm
  BY <1>1, <1>2, <1>4, <1>5
<1>7. Queue \in Nat
  BY <1>2, <1>5, <1>6, FS_Interval, SumNat DEF Queue
<1>. QED
  BY <1>2, <1>5, <1>6, <1>7 DEF Init, UniformInv, UniformFits, Queue

\* Taking the next IAT keeps it.
LEMMA UniformTake == UniformInv /\ NextIat => UniformInv'
<1>. SUFFICES ASSUME UniformInv, NextIat, gen = "uniform" PROVE UniformInv'
  BY DEF UniformInv, NextIat
<1>1. /\ rpm \in Nat /\ got \in Nat /\ issued \in Nat /\ now \in Nat
      /\ queued \in Seq(Nat) /\ Len(queued) = rpm - got
      /\ issued = got /\ now + Queue <= Minute
      /\ NextCollected /\ pc' = "sleep"
      /\ UNCHANGED <<gen, rpm, now, issued>>
  BY DEF UniformInv, NextIat
<1>2. UniformFits'
  BY <1>1 DEF UniformFits
<1>3. CASE queued = << >>
  BY <1>1, <1>2, <1>3 DEF NextCollected, Exhausted, UniformInv
<1>4. CASE queued # << >>
  <2>1. iat' = Head(queued) /\ queued' = Tail(queued) /\ got' = got + 1
    BY <1>1, <1>4 DEF NextCollected
  <2>2. /\ iat' \in Nat /\ queued' \in Seq(Nat) /\ Len(queued') = Len(queued) - 1
        /\ Queue = iat' + Queue'
    BY <1>1, <1>4, <2>1, QueueShifts DEF Queue
  <2>3. Queue' \in Nat
    BY <2>2, SeqSum DEF Queue
  <2>. QED
    BY <1>1, <1>2, <2>1, <2>2, <2>3 DEF UniformInv
<1>. QED
  BY <1>3, <1>4

\* A sleep ends before the minute unless nothing was cut and nothing is left.
LEMMA UniformSleep == UniformInv /\ (MinuteElapses \/ Issue) => UniformInv'
<1>. SUFFICES ASSUME UniformInv, MinuteElapses \/ Issue, gen = "uniform"
              PROVE  UniformInv'
  BY DEF UniformInv, MinuteElapses, Issue
<1>1. /\ rpm \in Nat /\ got \in Nat /\ issued \in Nat /\ now \in Nat
      /\ queued \in Seq(Nat) /\ Len(queued) = rpm - got
      /\ \/ iat \in Nat /\ now + iat + Queue <= Minute /\ got = issued + 1
         \/ iat = Minute /\ issued = rpm
      /\ UNCHANGED <<gen, rpm, queued, got, iat>> /\ Queue' = Queue
  BY DEF UniformInv, MinuteElapses, Issue, Queue
<1>2. Len(queued) \in Nat /\ \A k \in 1 .. Len(queued) : queued[k] \in Nat
  BY <1>1
<1>3. Queue \in Nat
  BY <1>1, SeqSum DEF Queue
<1>4. CASE MinuteElapses
  <2>1. UNCHANGED <<now, issued>> /\ pc' = "over" /\ now + iat >= Minute
    BY <1>4 DEF MinuteElapses
  <2>2. UniformFits'
    <3>. SUFFICES ASSUME issued < rpm
                  PROVE  now + iat = Minute /\ \A k \in DOMAIN queued : queued[k] = 0
      BY <1>1, <2>1 DEF UniformFits
    <3>1. now + iat = Minute /\ Queue = 0
      BY <1>1, <1>3, <2>1
    <3>2. DOMAIN queued = 1 .. Len(queued)
      BY <1>1
    <3>. QED
      BY <1>2, <3>1, <3>2, ZeroSum DEF Queue
  <2>. QED
    BY <1>1, <2>1, <2>2 DEF UniformInv
<1>5. CASE Issue
  BY <1>1, <1>3, <1>5 DEF Issue, UniformInv, UniformFits
<1>. QED
  BY <1>4, <1>5

\* Whatever is drawn, the uniform IATs of a minute are within it, so a punctual
\* Worker misses requests only when they are due at its very end.
THEOREM UniformIssued == Spec => []UniformFits
<1>1. UniformInv /\ [Next]_vars => UniformInv'
  <2>. SUFFICES ASSUME UniformInv, [Next]_vars PROVE UniformInv'
    OBVIOUS
  <2>1. CASE UNCHANGED vars
    BY <2>1 DEF vars, UniformInv, UniformFits, Queue
  <2>. QED
    BY <2>1, UniformTake, UniformSleep DEF Next, Terminating
<1>2. UniformInv => UniformFits
  BY DEF UniformInv, UniformFits
<1>. QED
  BY <1>1, <1>2, UniformInit, PTL DEF Spec
=============================================================================
