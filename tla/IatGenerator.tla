---------------------------- MODULE IatGenerator ----------------------------
(***************************************************************************)
(* The inter-arrival times of one minute (source/iat.rs), and what a       *)
(* FunctionWorker makes of them that loses no time: it sleeps them one     *)
(* after the other until the minute ends, and a sleep that ends with the   *)
(* minute loses, because the select! of the Worker is biased.              *)
(*                                                                         *)
(* Floats are whole numbers of grains, Grain of them to a microsecond.     *)
(***************************************************************************)
EXTENDS Integers, Sequences, FiniteSetsExt

CONSTANTS
  Minute,  \* MICROSECONDS_PER_MINUTE
  Grain,   \* grains in a microsecond
  Rates,   \* the rates, rpm, of a row
  Samples, \* what the exponential distribution may yield, in grains
  Unit,    \* the uniform distribution yields one of 0 .. Unit - 1, over Unit
  MaxIats  \* bound: the most IATs the Poisson generator is asked for

ASSUME IatAssumption ==
  /\ Minute \in Nat \ {0} /\ Grain \in Nat \ {0} /\ Unit \in Nat \ {0}
  /\ Rates \subseteq Nat /\ Samples \subseteq Nat /\ MaxIats \in Nat

VARIABLES
  gen,    \* "poisson", "uniform", "equidistant"
  rpm,
  queued, \* the IATs a collected iterator still has (not "poisson")
  sum,    \* iats_sum of take_while, in grains
  got,    \* IATs the iterator has produced
  pc,     \* the Worker: "next", "sleep", "over"
  iat,    \* the time it sleeps, in microseconds
  now,    \* microseconds of the minute that have passed
  issued  \* requests issued

vars == <<gen, rpm, queued, sum, got, pc, iat, now, issued>>

-----------------------------------------------------------------------------
(* The generators *)

\* Mutant: rounded to the nearest microsecond.
ScaledRounded(x, total) == IF total = 0 THEN 0 ELSE (2 * x * Minute + total) \div (2 * total)

\* A uniform sample scaled so that all of them fill the minute, cut to whole
\* microseconds.  (0 / 0 is NaN, and NaN as u64 is 0.)
Scaled(x, total) == IF total = 0 THEN 0 ELSE (x * Minute) \div total

Total(s) == SumFunction(s)

\* Mutant: one more than fits.
EquidistantIatsUp(n) == [k \in 1 .. n |-> (Minute + n - 1) \div n]

\* The same IAT n times; none if n is 0.
EquidistantIats(n) == [k \in 1 .. n |-> Minute \div n]

Init ==
  /\ rpm \in Rates
  /\ \/ gen = "poisson" /\ queued = << >>
     \/ /\ gen = "uniform"
        /\ \E draws \in [1 .. rpm -> 0 .. Unit - 1] :
             queued = [k \in 1 .. rpm |-> Scaled(draws[k], Total(draws))]
     \/ gen = "equidistant" /\ queued = EquidistantIats(rpm)
  /\ sum = 0 /\ got = 0
  /\ pc = "next" /\ iat = 0 /\ now = 0 /\ issued = 0

\* The fallback when the iterator is exhausted.
Exhausted == iat' = Minute /\ UNCHANGED <<queued, sum, got>>

\* Mutant: a sample that fills the minute is taken too.
TakeWhileLoose(x) ==
  IF sum + x <= Minute * Grain
  THEN iat' = x \div Grain /\ sum' = sum + x /\ got' = got + 1 /\ UNCHANGED queued
  ELSE Exhausted

\* One sample: taken while the sum is within the minute.
TakeWhile(x) ==
  IF sum + x < Minute * Grain
  THEN iat' = x \div Grain /\ sum' = sum + x /\ got' = got + 1 /\ UNCHANGED queued
  ELSE Exhausted

\* With a rate of 0 every sample is infinite.
NextPoisson ==
  \/ rpm > 0 /\ got < MaxIats /\ \E x \in Samples : TakeWhile(x)
  \/ rpm = 0 /\ Exhausted

NextCollected ==
  IF queued = << >> THEN Exhausted
  ELSE /\ iat' = Head(queued)
       /\ queued' = Tail(queued)
       /\ got' = got + 1
       /\ UNCHANGED sum

-----------------------------------------------------------------------------
(* The Worker's inner loop *)

NextIat ==
  /\ pc = "next"
  /\ IF gen = "poisson" THEN NextPoisson ELSE NextCollected
  /\ pc' = "sleep"
  /\ UNCHANGED <<gen, rpm, now, issued>>

\* The minute ends before the sleep does, or with it.
MinuteElapses ==
  /\ pc = "sleep"
  /\ now + iat >= Minute
  /\ pc' = "over"
  /\ UNCHANGED <<gen, rpm, queued, sum, got, iat, now, issued>>

Issue ==
  /\ pc = "sleep"
  /\ now + iat < Minute
  /\ pc' = "next"
  /\ now' = now + iat
  /\ issued' = issued + 1
  /\ UNCHANGED <<gen, rpm, queued, sum, got, iat>>

Terminating ==
  /\ \/ pc = "over"
     \/ pc = "next" /\ gen = "poisson" /\ rpm > 0 /\ got = MaxIats
  /\ UNCHANGED vars

Next == NextIat \/ MinuteElapses \/ Issue \/ Terminating

Spec == Init /\ [][Next]_vars

-----------------------------------------------------------------------------
(* Correctness *)

\* All that the Poisson generator produces ends before the minute does, cut to
\* microseconds or not, so a Worker that loses no time issues all of it.
PoissonFits == gen = "poisson" /\ pc = "over" => issued = got

\* The uniform IATs never reach beyond the minute: a Worker misses some only if
\* none was cut and they end with it.
UniformFits ==
  gen = "uniform" /\ pc = "over" /\ issued < rpm =>
    /\ now + iat = Minute
    /\ \A k \in DOMAIN queued : queued[k] = 0

\* The last equidistant IAT ends with the minute, and its request is never
\* issued, exactly when the rate divides the minute; all others are issued.
EquidistantLosesLast ==
  gen = "equidistant" /\ pc = "over" =>
    issued = IF rpm # 0 /\ Minute % rpm = 0 THEN rpm - 1 ELSE rpm
=============================================================================
