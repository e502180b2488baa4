---------------------------- MODULE OwPlanProofs ----------------------------
(***************************************************************************)
(* Proofs about OwPlan, for every trace and every option: the plan of a    *)
(* run is a timetable of its blocks, and the grand total that is printed   *)
(* benchmark by benchmark is that of the invocations of its phases.        *)
(***************************************************************************)
EXTENDS OwPlan, SumTheorems

-----------------------------------------------------------------------------
(* The numbers of a plan *)

\* A set of natural numbers that is not empty has a least one.
LEMMA LeastIn ==
  ASSUME NEW S \in SUBSET Nat, S # {}
  PROVE  Min(S) \in S
<1>. DEFINE R == OpToRel(<, Nat)
<1>1. IsWellFoundedOn(R, Nat)
  BY NatLessThanWellFounded
<1>. HIDE DEF R
<1>2. PICK n \in S : \A m \in S : <<m, n>> \notin R
  BY <1>1, WFMin
<1>3. \A m \in Nat : m < n => m \notin S
  BY <1>2 DEF OpToRel, R
<1>4. \A m \in S : n =< m
  BY <1>3
<1>. QED
  BY <1>4 DEF Min

\* The rows: there are finitely many, and their entries are natural numbers.
LEMMA RowsTyped ==
  /\ KnownRecords \in SUBSET Nat /\ IsFiniteSet(KnownRecords)
  /\ DOMAIN Rows = KnownRecords
  /\ \A r \in KnownRecords :
       /\ Len(Rows[r].rpm) \in Nat
       /\ \A m \in DOMAIN Rows[r].rpm : Rows[r].rpm[m] \in Nat
<1>1. KnownRecords \subseteq 1 .. Len(Records) /\ Len(Records) \in Nat
  BY PlanAssumption DEF KnownRecords
<1>2. IsFiniteSet(KnownRecords)
  <2>1. IsFiniteSet(1 .. Len(Records))
    BY <1>1, FS_Interval
  <2>. QED
    BY <1>1, <2>1, FS_Subset
<1>3. ASSUME NEW r \in KnownRecords
      PROVE  /\ Len(Rows[r].rpm) \in Nat
             /\ \A m \in DOMAIN Rows[r].rpm : Rows[r].rpm[m] \in Nat
  <2>. DEFINE q == Records[r].rpm
  <2>1. q \in Seq(Nat \union {-1})
    BY PlanAssumption DEF KnownRecords
  <2>2. Rows[r].rpm = [m \in DOMAIN q |-> ParseU32(q[m])]
    BY DEF Rows
  <2>. HIDE DEF q
  <2>3. \A m \in DOMAIN q : ParseU32(q[m]) \in Nat
    BY PlanAssumption DEF ParseU32
  <2>4. Rows[r].rpm \in Seq(Nat)
    BY <2>1, <2>2, <2>3
  <2>. QED
    BY <2>2, <2>3, <2>4
<1>. QED
  BY <1>1, <1>2, <1>3 DEF Rows

\* A rate is a natural number, scaled and cut for the ramp or not.
LEMMA ScaledNat ==
  ASSUME NEW n \in Nat
  PROVE  ScaledRpm(n) \in Nat /\ \A id : ScaledRampCount(n, id) \in Nat
<1>. DEFINE r == (2 * n * ScaleNum + ScaleDen) \div (2 * ScaleDen)
<1>1. r \in Nat
  <2>1. ScaleNum \in Nat /\ ScaleDen \in Nat \ {0}
    BY PlanAssumption
  <2>2. 2 * n * ScaleNum \in Nat
    BY <2>1
  <2>3. \A a \in Nat : \A b \in Nat \ {0} : a \div b \in Nat
    BY SMT
  <2>. QED
    BY <2>1, <2>2, <2>3
<1>2. ScaledRpm(n) \in Nat
  BY <1>1, PlanAssumption DEF ScaledRpm
<1>. HIDE DEF r
<1>. QED
  BY <1>2 DEF ScaledRampCount

\* How many invocations each kept row has in a phase.
LEMMA CountsTyped ==
  /\ Kept \subseteq KnownRecords /\ IsFiniteSet(Kept)
  /\ \A id : DOMAIN RampCounts(id) = Kept /\ \A r \in Kept : RampCounts(id)[r] \in Nat
  /\ \A m : DOMAIN MinuteCounts(m) = Kept /\ \A r \in Kept : MinuteCounts(m)[r] \in Nat
<1>1. Kept \subseteq KnownRecords /\ IsFiniteSet(Kept)
  BY RowsTyped, FS_Subset DEF Kept
<1>2. ASSUME NEW r \in Kept, NEW m PROVE Entry(r, m) \in Nat
  BY <1>1, RowsTyped DEF Entry
<1>. QED
  BY <1>1, <1>2, ScaledNat DEF RampCounts, MinuteCounts

\* A phase has as many invocations as its rows have in its segment or minute.
LEMMA PhaseCountIs ==
  ASSUME NEW p
  PROVE  /\ PhaseCount(p) \in Nat
         /\ p.block = 0 => PhaseCount(p) = SumFunctionOnSet(RampCounts(p.id), Kept)
         /\ p.block # 0 => PhaseCount(p) = SumFunctionOnSet(MinuteCounts(p.block), Kept)
BY CountsTyped, SumNat DEF PhaseCount, SumFunction

\* The first row has a length.
LEMMA MinutesNat == MinutesToRun \in Nat
<1>1. TotalMinutes \in Nat
  <2>1. KnownRecords # {} => Min(KnownRecords) \in KnownRecords
    BY RowsTyped, LeastIn
  <2>. QED
    BY <2>1, RowsTyped DEF TotalMinutes
<1>. QED
  BY <1>1, PlanAssumption DEF MinutesToRun

-----------------------------------------------------------------------------
(* The timetable *)

PhaseType == [block : Nat, offset : Nat, len : Nat \ {0}, count : Nat]

EndOf(p, k) == p.phases[k].offset + p.phases[k].len

\* The phases of a block follow each other without a gap, from the start of the
\* block to its end.
Timetable(p) ==
  /\ p.phases \in Seq(PhaseType)
  /\ p.phases # << >> =>
       p.phases[1].offset = 0 /\ EndOf(p, Len(p.phases)) = 2 * Half
  /\ \A k \in 1 .. Len(p.phases) - 1 :
       IF p.phases[k + 1].block = p.phases[k].block
       THEN p.phases[k + 1].offset = EndOf(p, k)
       ELSE p.phases[k + 1].offset = 0 /\ EndOf(p, k) = 2 * Half

\* What is before the seam of two sequences, and what is after it.
LEMMA Joined ==
  ASSUME NEW S, NEW u \in Seq(S), NEW v \in Seq(S)
  PROVE  /\ Len(u \o v) = Len(u) + Len(v) /\ DOMAIN (u \o v) = 1 .. Len(u) + Len(v)
         /\ \A k \in 1 .. Len(u) : (u \o v)[k] = u[k]
         /\ \A k \in Len(u) + 1 .. Len(u) + Len(v) : (u \o v)[k] = v[k - Len(u)]
OBVIOUS

\* The phases of a run: the two of the ramp, if any, and one for each minute.
LEMMA PhasesAre ==
  LET lead == IF Ramp /\ MinutesToRun > 0 THEN 2 ELSE 0
  IN  /\ Len(Phases) = lead + MinutesToRun
      /\ DOMAIN Phases = 1 .. lead + MinutesToRun
      /\ \A k \in 1 .. lead + MinutesToRun :
           Phases[k] =
             IF k <= lead
             THEN [block |-> 0, id |-> k - 1,
                   offset |-> IF k = 1 THEN 0 ELSE Half, len |-> Half]
             ELSE [block |-> k - lead, id |-> 2, offset |-> 0, len |-> 2 * Half]
<1>. DEFINE Part == [block : Int, id : Int, offset : Int, len : Int]
<1>1. MinutesToRun \in Nat
  BY MinutesNat
<1>2. /\ SteadyPhases \in Seq(Part)
      /\ Len(SteadyPhases) = MinutesToRun
      /\ \A m \in 1 .. MinutesToRun :
           SteadyPhases[m] = [block |-> m, id |-> 2, offset |-> 0, len |-> 2 * Half]
  BY <1>1, PlanAssumption DEF SteadyPhases
<1>3. CASE Ramp /\ MinutesToRun > 0
  <2>. HIDE DEF Part
  <2>1. RampPhases = <<[block |-> 0, id |-> 0, offset |-> 0, len |-> Half],
                       [block |-> 0, id |-> 1, offset |-> Half, len |-> Half]>>
    BY <1>3 DEF RampPhases
  <2>2. /\ RampPhases \in Seq(Part)
        /\ Len(RampPhases) = 2
    BY <2>1, PlanAssumption DEF Part
  <2>3. /\ Len(Phases) = 2 + MinutesToRun /\ DOMAIN Phases = 1 .. 2 + MinutesToRun
        /\ \A k \in 1 .. 2 : Phases[k] = RampPhases[k]
        /\ \A k \in 3 .. 2 + MinutesToRun : Phases[k] = SteadyPhases[k - 2]
    <3>1. /\ Len(Phases) = Len(RampPhases) + Len(SteadyPhases)
          /\ DOMAIN Phases = 1 .. Len(RampPhases) + Len(SteadyPhases)
          /\ \A k \in 1 .. Len(RampPhases) : Phases[k] = RampPhases[k]
          /\ \A k \in Len(RampPhases) + 1 .. Len(RampPhases) + Len(SteadyPhases) :
               Phases[k] = SteadyPhases[k - Len(RampPhases)]
      BY <1>2, <2>2, Joined DEF Phases
    <3>. QED
      BY <1>2, <2>2, <3>1
  <2>. QED
    BY <1>1, <1>2, <1>3, <2>1, <2>3
<1>4. CASE ~(Ramp /\ MinutesToRun > 0)
  <2>1. RampPhases = << >>
    BY <1>4 DEF RampPhases
  <2>2. Phases = SteadyPhases
    BY <1>2, <2>1 DEF Phases
  <2>3. DOMAIN SteadyPhases = 1 .. MinutesToRun
    BY DEF SteadyPhases
  <2>. QED
    BY <1>1, <1>2, <1>4, <2>2, <2>3
<1>. QED
  BY <1>3, <1>4

\* Every block of a plan is filled by its phases: the two of the ramp, or the one of
\* a minute.
THEOREM PlanIsTimetable == Timetable(PlanOfRun)
<1>. DEFINE lead  == IF Ramp /\ MinutesToRun > 0 THEN 2 ELSE 0
            total == lead + MinutesToRun
            phases == PlanOfRun.phases
<1>1. /\ lead \in {0, 2} /\ MinutesToRun \in Nat /\ total \in Nat
      /\ lead = 2 => MinutesToRun > 0
  BY MinutesNat
<1>2. /\ Len(Phases) = total /\ DOMAIN Phases = 1 .. total
      /\ \A k \in 1 .. total :
           Phases[k] = IF k <= lead
                       THEN [block |-> 0, id |-> k - 1,
                             offset |-> IF k = 1 THEN 0 ELSE Half, len |-> Half]
                       ELSE [block |-> k - lead, id |-> 2, offset |-> 0,
                             len |-> 2 * Half]
  BY PhasesAre
<1>. HIDE DEF lead
<1>3. phases = [k \in 1 .. total |->
                  [block |-> Phases[k].block, offset |-> Phases[k].offset,
                   len   |-> Phases[k].len,   count  |-> PhaseCount(Phases[k])]]
  BY <1>2 DEF PlanOfRun
<1>. HIDE DEF total, phases
<1>4. ASSUME NEW k \in 1 .. total
      PROVE  /\ phases[k].block = (IF k <= lead THEN 0 ELSE k - lead)
             /\ phases[k].offset = (IF k = 2 /\ k <= lead THEN Half ELSE 0)
             /\ phases[k].len = (IF k <= lead THEN Half ELSE 2 * Half)
             /\ phases[k] \in PhaseType
  <2>1. PhaseCount(Phases[k]) \in Nat
    BY PhaseCountIs
  <2>2. Half \in Nat \ {0} /\ k \in Nat /\ k \in 1 .. total
    BY <1>1, PlanAssumption
  <2>3. CASE k <= lead
    BY <1>1, <1>2, <1>3, <2>1, <2>2, <2>3 DEF PhaseType
  <2>4. CASE ~(k <= lead)
    BY <1>1, <1>2, <1>3, <2>1, <2>2, <2>4 DEF PhaseType
  <2>. QED
    BY <2>3, <2>4
<1>5. phases \in Seq(PhaseType) /\ Len(phases) = total /\ DOMAIN phases = 1 .. total
  <2>1. \A k \in 1 .. total : phases[k] \in PhaseType
    BY <1>4
  <2>2. phases \in [1 .. total -> PhaseType]
    BY <1>3, <2>1
  <2>3. total \in Nat
    BY <1>1
  <2>. QED
    BY <2>2, <2>3
<1>6. ASSUME phases # << >>
      PROVE  phases[1].offset = 0 /\ EndOf(PlanOfRun, Len(phases)) = 2 * Half
  <2>1. total > 0 /\ 1 \in 1 .. total /\ total \in 1 .. total /\ ~(total <= lead)
    BY <1>1, <1>5, <1>6 DEF total
  <2>2. EndOf(PlanOfRun, total) = 0 + 2 * Half
    BY <1>1, <1>4, <2>1 DEF EndOf, phases
  <2>. QED
    BY <1>1, <1>4, <1>5, <2>1, <2>2, PlanAssumption
<1>7. ASSUME NEW k \in 1 .. total - 1
      PROVE  IF phases[k + 1].block = phases[k].block
             THEN phases[k + 1].offset = EndOf(PlanOfRun, k)
             ELSE phases[k + 1].offset = 0 /\ EndOf(PlanOfRun, k) = 2 * Half
  <2>1. k \in 1 .. total /\ k + 1 \in 1 .. total /\ k \in Nat
    BY <1>1
  <2>2. EndOf(PlanOfRun, k) = phases[k].offset + phases[k].len
    BY DEF EndOf, phases
  <2>3. CASE k + 1 <= lead
    BY <1>1, <1>4, <2>1, <2>2, <2>3, PlanAssumption
  <2>4. CASE k = lead
    BY <1>1, <1>4, <2>1, <2>2, <2>4, PlanAssumption
  <2>5. CASE k > lead
    BY <1>1, <1>4, <2>1, <2>2, <2>5, PlanAssumption
  <2>. QED
    BY <1>1, <2>1, <2>3, <2>4, <2>5
<1>. QED
  BY <1>5, <1>6, <1>7 DEF Timetable, phases
-----------------------------------------------------------------------------
(* The total *)

\* The invocations of the first n phases of a plan.
CountTo(p, n) == SumFunctionOnSet([k \in DOMAIN p.phases |-> p.phases[k].count], 1 .. n)

\* Adding up over the benchmarks what the kept rows of each have adds up every kept
\* row once.
LEMMA OverBenchesIs ==
  ASSUME NEW counts, \A r \in Kept : counts[r] \in Nat
  PROVE  OverBenches(counts) = SumFunctionOnSet(counts, Kept)
<1>. DEFINE part == [b \in Benches |-> KeptOf(b)]
            g == [b \in Benches |-> SumFunctionOnSet(counts, KeptOf(b))]
<1>1. IsFiniteSet(Kept)
  BY CountsTyped
<1>2. IsFiniteSet(Benches)
  <2>. DEFINE bench == [r \in Kept |-> Rows[r].bench]
  <2>1. bench \in Surjection(Kept, Benches)
    BY DEF Benches, Surjection
  <2>. HIDE DEF bench
  <2>. QED
    BY <1>1, <2>1, FS_Surjection
<1>3. \A b \in Benches : part[b] \subseteq Kept /\ IsFiniteSet(part[b])
  BY <1>1, FS_Subset DEF KeptOf
<1>4. \A b, c \in Benches : b # c => part[b] \intersect part[c] = {}
  BY DEF KeptOf
<1>5. UNION {part[b] : b \in Benches} = Kept
  <2>1. \A r \in Kept : Rows[r].bench \in Benches /\ r \in part[Rows[r].bench]
    BY DEF KeptOf, Benches
  <2>. HIDE DEF part
  <2>. QED
    BY <1>3, <2>1
<1>6. \A b \in Benches : g[b] = SumFunctionOnSet(counts, part[b])
  OBVIOUS
<1>7. OverBenches(counts) = SumFunctionOnSet(g, Benches)
  BY DEF OverBenches, SumFunction
<1>. HIDE DEF part, g
<1>8. \A b \in Benches : \A r \in part[b] : counts[r] \in Int
  BY <1>3
<1>9. SumFunctionOnSet(g, Benches)
        = SumFunctionOnSet(counts, UNION {part[b] : b \in Benches})
  BY <1>2, <1>3, <1>4, <1>6, <1>8, SumPartition
<1>. QED
  BY <1>5, <1>7, <1>9

\* The phases of the plan, as counted.
LEMMA PlanCounts ==
  /\ Len(PlanOfRun.phases) = Len(Phases) /\ DOMAIN PlanOfRun.phases = DOMAIN Phases
  /\ DOMAIN Phases = 1 .. Len(Phases) /\ Len(Phases) \in Nat
  /\ \A k \in DOMAIN Phases : PlanOfRun.phases[k].count = PhaseCount(Phases[k])
<1>1. DOMAIN Phases = 1 .. Len(Phases) /\ Len(Phases) \in Nat
  BY PhasesAre, MinutesNat
<1>. DEFINE phases == [k \in DOMAIN Phases |->
                         [block |-> Phases[k].block, offset |-> Phases[k].offset,
                          len   |-> Phases[k].len,   count  |-> PhaseCount(Phases[k])]]
<1>2. PlanOfRun.phases = phases
  BY DEF PlanOfRun
<1>3. Len(phases) = Len(Phases) /\ DOMAIN phases = DOMAIN Phases
  BY <1>1
<1>. QED
  BY <1>1, <1>2, <1>3

\* The grand total that is printed before the run starts, added up benchmark by
\* benchmark for each phase, is the number of invocations that the phases have.
THEOREM TotalIsSum == PlanOfRun.total = CountTo(PlanOfRun, Len(PlanOfRun.phases))
<1>. DEFINE lead == IF Ramp /\ MinutesToRun > 0 THEN 2 ELSE 0
            c == [k \in DOMAIN PlanOfRun.phases |-> PlanOfRun.phases[k].count]
            h == [m \in 1 .. MinutesToRun |-> MinuteTotal(m)]
<1>1. MinutesToRun \in Nat /\ lead \in {0, 2} /\ lead \in Nat
  BY MinutesNat
<1>2. /\ Len(Phases) = lead + MinutesToRun /\ DOMAIN Phases = 1 .. lead + MinutesToRun
      /\ \A k \in 1 .. lead + MinutesToRun :
           Phases[k] = IF k <= lead
                       THEN [block |-> 0, id |-> k - 1,
                             offset |-> IF k = 1 THEN 0 ELSE Half, len |-> Half]
                       ELSE [block |-> k - lead, id |-> 2, offset |-> 0,
                             len |-> 2 * Half]
  BY PhasesAre
<1>3. GrandTotal = (IF lead = 2 THEN RampTotal(0) + RampTotal(1) ELSE 0)
                     + SumFunctionOnSet(h, 1 .. MinutesToRun)
  BY DEF GrandTotal, SumFunction
<1>. HIDE DEF lead
<1>4. \A k \in 1 .. lead + MinutesToRun : c[k] = PhaseCount(Phases[k]) /\ c[k] \in Nat
  BY <1>2, PlanCounts, PhaseCountIs
<1>5. /\ PlanOfRun.total = GrandTotal
      /\ CountTo(PlanOfRun, Len(PlanOfRun.phases))
           = SumFunctionOnSet(c, 1 .. lead + MinutesToRun)
  BY <1>2, PlanCounts DEF PlanOfRun, CountTo
<1>6. ASSUME NEW m \in 1 .. MinutesToRun PROVE h[m] = c[lead + m]
  <2>1. lead + m \in 1 .. lead + MinutesToRun /\ ~(lead + m <= lead) /\ m # 0
    BY <1>1
  <2>2. Phases[lead + m].block = m
    BY <1>1, <1>2, <2>1
  <2>3. c[lead + m] = SumFunctionOnSet(MinuteCounts(m), Kept)
    BY <1>4, <2>1, <2>2, PhaseCountIs
  <2>4. MinuteTotal(m) = SumFunctionOnSet(MinuteCounts(m), Kept)
    BY CountsTyped, OverBenchesIs DEF MinuteTotal
  <2>. QED
    BY <2>3, <2>4
<1>7. ASSUME lead = 2 PROVE c[1] = RampTotal(0) /\ c[2] = RampTotal(1)
  <2>1. 1 \in 1 .. lead + MinutesToRun /\ 2 \in 1 .. lead + MinutesToRun
    BY <1>1, <1>7
  <2>2. /\ Phases[1].block = 0 /\ Phases[1].id = 0
        /\ Phases[2].block = 0 /\ Phases[2].id = 1
    BY <1>2, <1>7, <2>1
  <2>3. /\ c[1] = SumFunctionOnSet(RampCounts(0), Kept)
        /\ c[2] = SumFunctionOnSet(RampCounts(1), Kept)
    BY <1>4, <2>1, <2>2, PhaseCountIs
  <2>. QED
    BY <2>3, CountsTyped, OverBenchesIs DEF RampTotal
<1>. HIDE DEF c, h
<1>8. SumFunctionOnSet(c, 1 .. lead + MinutesToRun)
        = SumFunctionOnSet(c, 1 .. lead) + SumFunctionOnSet(h, 1 .. MinutesToRun)
  BY <1>1, <1>4, <1>6, SumShifted
<1>9. SumFunctionOnSet(c, 1 .. lead) = IF lead = 2 THEN RampTotal(0) + RampTotal(1) ELSE 0
  <2>0. SumFunctionOnSet(c, 1 .. 0) = 0
    <3>1. 1 .. 0 = {}
      OBVIOUS
    <3>. QED
      BY <3>1, SumEmpty
  <2>1. CASE lead = 0
    BY <2>0, <2>1
  <2>2. CASE lead = 2
    <3>1. c[1] \in Nat /\ c[2] \in Nat /\ \A k \in 1 .. 2 : c[k] \in Int
      BY <1>1, <1>4, <2>2
    <3>2. ASSUME NEW n \in {0, 1}
          PROVE  SumFunctionOnSet(c, 1 .. n + 1) = SumFunctionOnSet(c, 1 .. n) + c[n + 1]
      <4>1. n \in Nat /\ \A k \in 1 .. n + 1 : c[k] \in Int
        BY <3>1
      <4>. QED
        BY <4>1, SumUpTo
    <3>3. 0 + 1 = 1 /\ 1 + 1 = 2
      OBVIOUS
    <3>4. SumFunctionOnSet(c, 1 .. 1) = c[1]
      BY <2>0, <3>1, <3>2, <3>3
    <3>5. SumFunctionOnSet(c, 1 .. 2) = c[1] + c[2]
      BY <3>2, <3>3, <3>4
    <3>. QED
      BY <1>7, <2>2, <3>5
  <2>. QED
    BY <1>1, <2>1, <2>2
<1>. QED
  BY <1>3, <1>5, <1>8, <1>9
=============================================================================
