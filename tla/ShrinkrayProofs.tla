-------------------------- MODULE ShrinkrayProofs --------------------------
(***************************************************************************)
(* Theorems about Shrinkray and its parts, for every day of the trace,     *)
(* every file of workloads and every command line.                         *)
(*                                                                         *)
(*   - Mapping: the linear scan of _pick_candidates collects exactly the   *)
(*     suitable workloads, every function is mapped to one of them, and    *)
(*     the tallies of _greedy_glb balance.                                 *)
(*   - Generation: the scaled minutes lose nothing, the rounded rates stay *)
(*     near the scaled ones, the sampled durations come in proportion.     *)
(*   - Preprocessing: every usable invocation of a day is counted once,    *)
(*     and what the mapper gets is in the order its loops rely on.         *)
(***************************************************************************)
EXTENDS Shrinkray, SumTheorems, SequenceTheorems, TLAPS

\* What IsTrace says of the trace's length and durations.
LEMMA TraceType ==
  ASSUME IsTrace(trace)
  PROVE  /\ Len(trace) \in Nat \ {0}
         /\ Jobs = 1 .. Len(trace)
         /\ \A i \in Jobs : Dur(i) \in Nat
         /\ \A i, j \in Jobs : i < j => Dur(i) < Dur(j)
<1> DEFINE Fns == [dur : Nat, rpm : Seq(Nat), inv : Nat]
<1>1. trace \in Seq(Fns) /\ trace # << >>
  BY DEF IsTrace
<1>2. Len(trace) \in Nat \ {0} /\ DOMAIN trace = 1 .. Len(trace)
  BY <1>1, EmptySeq, LenProperties
<1>3. \A i \in 1 .. Len(trace) : trace[i] \in Fns
  BY <1>1, ElementOfSeq
<1> QED
  BY <1>2, <1>3 DEF IsTrace, Jobs, Dur

\* What IsTable says of the table's length and times.
LEMMA TableType ==
  ASSUME IsTable(table)
  PROVE  /\ N \in Nat \ {0}
         /\ DOMAIN table = 1 .. N
         /\ \A k \in 1 .. N : Time(k) \in Nat
         /\ \A j, k \in 1 .. N : j < k => Time(j) < Time(k)
<1> DEFINE Groups == [time : Nat, wls : Seq(STRING) \ {<< >>}]
<1>1. table \in Seq(Groups) /\ table # << >>
  BY DEF IsTable
<1>2. N \in Nat \ {0} /\ DOMAIN table = 1 .. N
  BY <1>1, EmptySeq, LenProperties DEF N
<1>3. \A k \in 1 .. N : table[k] \in Groups
  BY <1>1, ElementOfSeq DEF N
<1> QED
  BY <1>2, <1>3 DEF IsTable, N, Time

\* The concatenations Closest builds.
LEMMA ShortSequences ==
  ASSUME NEW a, NEW b
  PROVE  /\ <<a>> \o <<b>> = <<a, b>>
         /\ <<a>> \o << >> = <<a>>
         /\ << >> \o <<b>> = <<b>>
<1> DEFINE S == {a, b}
<1>1. <<a>> \in Seq(S) /\ <<b>> \in Seq(S) /\ << >> \in Seq(S) /\ <<a, b>> \in Seq(S)
  OBVIOUS
<1>2. <<a>> \o <<b>> = <<a, b>>
  <2> DEFINE ab == <<a>> \o <<b>>
  <2>1. ab \in Seq(S) /\ Len(ab) = 2 /\ ab[1] = a /\ ab[2] = b
    BY <1>1, ConcatProperties
  <2> HIDE DEF ab
  <2>2. ab = <<a, b>>
    BY <1>1, <2>1, SeqEqual
  <2> QED
    BY <2>2 DEF ab
<1> QED
  BY <1>1, <1>2, ConcatEmptySeq

\* What the scan has established when it leaves function i at group s, having
\* collected a .. s - 1.
Stopped(a, s, i) ==
  /\ s \in 1 .. N + 1
  /\ a \in 1 .. s
  /\ \A k \in 1 .. a - 1 : 100 * Time(k) < 99 * Dur(i)
  /\ \A k \in a .. s - 1 : 99 * Dur(i) <= 100 * Time(k) /\ 100 * Time(k) <= 101 * Dur(i)
  /\ s # N + 1 => 101 * Dur(i) < 100 * Time(s)

\* Then the groups of the radius are those it has collected.
LEMMA RadiusCollected ==
  ASSUME IsTrace(trace), IsTable(table), NEW i \in Jobs,
         NEW a, NEW s, Stopped(a, s, i)
  PROVE  InRadius(i) = a .. s - 1
<1>1. /\ N \in Nat \ {0} /\ Dur(i) \in Nat
      /\ \A k \in 1 .. N : Time(k) \in Nat
      /\ \A j, k \in 1 .. N : j < k => Time(j) < Time(k)
  BY TraceType, TableType
<1>2. /\ s \in Int /\ a \in Int /\ 1 <= a /\ a <= s /\ s <= N + 1
  BY <1>1 DEF Stopped
<1>3. ASSUME NEW k \in 1 .. N
      PROVE  100 * Dist(k, i) <= Dur(i) <=>
               99 * Dur(i) <= 100 * Time(k) /\ 100 * Time(k) <= 101 * Dur(i)
  BY <1>1 DEF Dist
<1>4. ASSUME NEW k \in 1 .. N, s <= k
      PROVE  101 * Dur(i) < 100 * Time(k)
  <2>1. s \in 1 .. N /\ 101 * Dur(i) < 100 * Time(s)
    BY <1>1, <1>2, <1>4 DEF Stopped
  <2>2. Time(s) <= Time(k)
    BY <1>1, <1>2, <1>4, <2>1
  <2> QED
    BY <1>1, <2>1, <2>2
<1>5. ASSUME NEW k \in 1 .. N
      PROVE  100 * Dist(k, i) <= Dur(i) <=> k \in a .. s - 1
  <2>1. CASE k < a
    BY <1>1, <1>2, <1>3, <2>1 DEF Stopped
  <2>2. CASE k \in a .. s - 1
    BY <1>1, <1>2, <1>3, <2>2 DEF Stopped
  <2>3. CASE s <= k
    BY <1>1, <1>2, <1>3, <1>4, <2>3
  <2> QED
    BY <1>1, <1>2, <2>1, <2>2, <2>3
<1> QED
  BY <1>1, <1>2, <1>5 DEF InRadius

\* And when it has collected none, the nearest groups are those of Closest.
LEMMA ClosestNearest ==
  ASSUME IsTrace(trace), IsTable(table), NEW i \in Jobs,
         NEW s, Stopped(s, s, i)
  PROVE  {Closest(s, i)[j] : j \in DOMAIN Closest(s, i)} = Nearest(i)
<1>1. /\ N \in Nat \ {0} /\ Dur(i) \in Nat
      /\ \A k \in 1 .. N : Time(k) \in Nat
      /\ \A j, k \in 1 .. N : j < k => Time(j) < Time(k)
  BY TraceType, TableType
<1>2. s \in 1 .. N + 1
  BY DEF Stopped
<1> DEFINE left  == s # 1 /\ (s = N + 1 \/ Dur(i) - Time(s - 1) <= Time(s) - Dur(i))
           right == s # N + 1 /\ (s = 1 \/ Dur(i) - Time(s - 1) >= Time(s) - Dur(i))
<1>3. {Closest(s, i)[j] : j \in DOMAIN Closest(s, i)}
        = {k \in {s - 1} : left} \union {k \in {s} : right}
  <2>1. CASE left /\ right
    <3>1. Closest(s, i) = <<s - 1, s>>
      BY <2>1, ShortSequences DEF Closest
    <3> QED
      BY <2>1, <3>1
  <2>2. CASE left /\ ~right
    <3>1. Closest(s, i) = <<s - 1>>
      BY <2>2, ShortSequences DEF Closest
    <3> QED
      BY <2>2, <3>1
  <2>3. CASE ~left /\ right
    <3>1. Closest(s, i) = <<s>>
      BY <2>3, ShortSequences DEF Closest
    <3> QED
      BY <2>3, <3>1
  <2>4. CASE ~left /\ ~right
    <3>1. Closest(s, i) = << >>
      BY <2>4 DEF Closest
    <3> QED
      BY <2>4, <3>1
  <2> QED
    BY <2>1, <2>2, <2>3, <2>4
<1>4. ASSUME NEW k \in 1 .. N, k < s
      PROVE  /\ Time(k) <= Dur(i) /\ Dist(k, i) = Dur(i) - Time(k)
             /\ s - 1 \in 1 .. N
             /\ k # s - 1 => Dist(s - 1, i) < Dist(k, i)
  <2>1. \A q \in 1 .. N : q < s => Time(q) <= Dur(i) /\ Dist(q, i) = Dur(i) - Time(q)
    BY <1>1, <1>2 DEF Stopped, Dist
  <2>2. s - 1 \in 1 .. N
    BY <1>1, <1>2, <1>4
  <2>3. k # s - 1 => Time(k) < Time(s - 1)
    BY <1>1, <1>2, <1>4, <2>2
  <2> QED
    BY <1>1, <1>2, <1>4, <2>1, <2>2, <2>3
<1>5. ASSUME NEW k \in 1 .. N, s <= k
      PROVE  /\ Time(k) > Dur(i) /\ Dist(k, i) = Time(k) - Dur(i)
             /\ s \in 1 .. N
             /\ k # s => Dist(s, i) < Dist(k, i)
  <2>1. s \in 1 .. N /\ Time(s) > Dur(i)
    BY <1>1, <1>2, <1>5 DEF Stopped
  <2>2. k # s => Time(s) < Time(k)
    BY <1>1, <1>2, <1>5, <2>1
  <2> QED
    BY <1>1, <2>1, <2>2 DEF Dist
<1>6. \A k \in 1 .. N : Dist(k, i) \in Nat
  BY <1>1 DEF Dist
<1>7. ASSUME NEW k \in Nearest(i)
      PROVE  k \in {k_1 \in {s - 1} : left} \union {k_1 \in {s} : right}
  <2>1. k \in 1 .. N /\ \A q \in 1 .. N : Dist(k, i) <= Dist(q, i)
    BY DEF Nearest
  <2>2. CASE k < s
    BY <1>1, <1>2, <1>4, <1>5, <1>6, <2>1, <2>2
  <2>3. CASE s <= k
    BY <1>1, <1>2, <1>4, <1>5, <1>6, <2>1, <2>3
  <2> QED
    BY <1>1, <1>2, <2>1, <2>2, <2>3
<1>8. ASSUME left PROVE s - 1 \in Nearest(i)
  <2>1. s - 1 \in 1 .. N
    BY <1>1, <1>2, <1>8
  <2>2. ASSUME NEW q \in 1 .. N PROVE Dist(s - 1, i) <= Dist(q, i)
    <3>1. CASE q < s
      BY <1>1, <1>2, <1>4, <1>6, <2>1, <3>1
    <3>2. CASE s <= q
      BY <1>1, <1>2, <1>4, <1>5, <1>6, <1>8, <2>1, <3>2
    <3> QED
      BY <1>1, <1>2, <3>1, <3>2
  <2> QED
    BY <2>1, <2>2 DEF Nearest
<1>9. ASSUME right PROVE s \in Nearest(i)
  <2>1. s \in 1 .. N
    BY <1>1, <1>2, <1>9
  <2>2. ASSUME NEW q \in 1 .. N PROVE Dist(s, i) <= Dist(q, i)
    <3>1. CASE q < s
      BY <1>1, <1>2, <1>4, <1>5, <1>6, <1>9, <2>1, <3>1
    <3>2. CASE s <= q
      BY <1>1, <1>2, <1>5, <1>6, <2>1, <3>2
    <3> QED
      BY <1>1, <1>2, <3>1, <3>2
  <2> QED
    BY <2>1, <2>2 DEF Nearest
<1> QED
  BY <1>3, <1>7, <1>8, <1>9

\* Closest returns indices of the table, in ascending order.
LEMMA ClosestType ==
  ASSUME N \in Nat \ {0}, NEW s \in 1 .. N + 1, NEW i
  PROVE  /\ Closest(s, i) \in Seq(1 .. N)
         /\ \A j, l \in DOMAIN Closest(s, i) :
              j < l => Closest(s, i)[j] < Closest(s, i)[l]
<1> DEFINE left  == s # 1 /\ (s = N + 1 \/ Dur(i) - Time(s - 1) <= Time(s) - Dur(i))
           right == s # N + 1 /\ (s = 1 \/ Dur(i) - Time(s - 1) >= Time(s) - Dur(i))
<1>1. CASE left /\ right
  <2>1. Closest(s, i) = <<s - 1, s>> /\ s - 1 \in 1 .. N /\ s \in 1 .. N
    BY <1>1, ShortSequences DEF Closest
  <2> QED
    BY <2>1
<1>2. CASE left /\ ~right
  <2>1. Closest(s, i) = <<s - 1>>
    BY <1>2, ShortSequences DEF Closest
  <2>2. s - 1 \in 1 .. N
    BY <1>2
  <2> QED
    BY <2>1, <2>2
<1>3. CASE ~left /\ right
  <2>1. Closest(s, i) = <<s>>
    BY <1>3, ShortSequences DEF Closest
  <2>2. s \in 1 .. N
    BY <1>3
  <2> QED
    BY <2>1, <2>2
<1>4. CASE ~left /\ ~right
  <2>1. Closest(s, i) = << >>
    BY <1>4, ShortSequences DEF Closest
  <2> QED
    BY <2>1
<1> QED
  BY <1>1, <1>2, <1>3, <1>4

-----------------------------------------------------------------------------
(* The inductive invariant *)

\* What the scan has collected for function i when it is at group s: a .. s - 1.
Collected(c, a, s, i) ==
  /\ s \in 1 .. N + 1 /\ a \in 1 .. s
  /\ \A j \in 1 .. Len(c) : c[j] = a + j - 1
  /\ \A k \in 1 .. a - 1 : 100 * Time(k) < 99 * Dur(i)
  /\ \A k \in a .. s - 1 : 99 * Dur(i) <= 100 * Time(k) /\ 100 * Time(k) <= 101 * Dur(i)
  /\ a # N + 1 => 99 * Dur(i) <= 100 * Time(a)

\* While the scan is at a function: what it knows about the groups before s_idx.
ScanInv ==
  /\ fpc \in Scanning =>
       /\ t_idx \in Jobs
       /\ \A i \in Jobs : i > t_idx => candidates[i] = << >>
  /\ fpc \in {"back", "forward"} => candidates[t_idx] = << >>
  /\ fpc = "forward" => \A k \in 1 .. s_idx - 1 : 100 * Time(k) < 99 * Dur(t_idx)
  /\ fpc = "collect" =>
       Collected(candidates[t_idx], s_idx - Len(candidates[t_idx]), s_idx, t_idx)
  /\ fpc \notin Scanning => t_idx = Len(trace) + 1

\* Every function that has been assigned was given a benchmark of one of its
\* candidates.
AssignInv ==
  /\ fpc \in {"balance", "pick", "mapped"} =>
       /\ DOMAIN scheduling = Jobs
       /\ \A i \in Jobs \ todo : scheduling[i] \in Permitted(i)
  /\ fpc \in {"pick", "mapped"} => todo = {}
  /\ fpc \in Scanning \union {"quota", "balance"} => mapping = << >>
  /\ Len(mapping) <= Len(trace)

MapInv == FMTypeOK /\ CandidatesRight /\ ScanInv /\ AssignInv /\ MappingRight

\* The mapper starts in the invariant.
LEMMA MapInit ==
  ASSUME FMStart, IsTrace(trace), IsTable(table)
  PROVE  MapInv
<1>2. /\ Len(trace) \in Nat \ {0} /\ Jobs = 1 .. Len(trace) /\ N \in Nat \ {0}
  BY TraceType, TableType
<1>3. FMTypeOK
  BY <1>2 DEF FMStart, FMTypeOK, Scanning
<1>4. CandidatesRight
  BY <1>2 DEF FMStart, CandidatesRight
<1>5. ScanInv
  BY <1>2 DEF FMStart, ScanInv, Scanning
<1>6. AssignInv /\ MappingRight
  BY <1>2 DEF FMStart, AssignInv, MappingRight, Scanning
<1> QED
  BY <1>3, <1>4, <1>5, <1>6 DEF MapInv

\* The facts about the inputs that every step uses; steps change neither.
LEMMA Basics ==
  ASSUME FMTypeOK
  PROVE  /\ Len(trace) \in Nat \ {0} /\ Jobs = 1 .. Len(trace)
         /\ N \in Nat \ {0} /\ DOMAIN table = 1 .. N
         /\ \A i \in Jobs : Dur(i) \in Nat
         /\ \A k \in 1 .. N : Time(k) \in Nat
         /\ \A j, k \in 1 .. N : j < k => Time(j) < Time(k)
         /\ t_idx \in Int /\ s_idx \in Int
         /\ \A i \in Jobs : /\ candidates[i] \in Seq(1 .. N)
                            /\ Len(candidates[i]) \in Nat
                            /\ DOMAIN candidates[i] = 1 .. Len(candidates[i])
<1>1. Len(trace) \in Nat /\ N \in Nat
  BY TraceType, TableType DEF FMTypeOK
<1>2. \A i \in Jobs : /\ candidates[i] \in Seq(1 .. N)
                      /\ Len(candidates[i]) \in Nat
                      /\ DOMAIN candidates[i] = 1 .. Len(candidates[i])
  BY LenProperties DEF FMTypeOK
<1> QED
  BY <1>1, <1>2, TraceType, TableType DEF FMTypeOK

\* The first while loop of _pick_candidates keeps the invariant.
LEMMA GoBackStep == MapInv /\ GoBack => MapInv'
<1> SUFFICES ASSUME MapInv, GoBack PROVE MapInv'
  OBVIOUS
<1> USE DEF MapInv
<1>1. /\ N \in Nat \ {0} /\ t_idx \in Jobs /\ s_idx \in Int /\ Jobs = 1 .. Len(trace)
      /\ Dur(t_idx) \in Nat
      /\ \A k \in 1 .. N : Time(k) \in Nat
      /\ \A j, k \in 1 .. N : j < k => Time(j) < Time(k)
  BY Basics DEF GoBack, ScanInv, Scanning
<1>2. UNCHANGED <<trace, table, t_idx, candidates, todo, scheduling, mapping>>
      /\ fpc = "back" /\ fpc' \in {"back", "forward"}
  BY DEF GoBack
<1>3. s_idx' \in 0 .. N + 1
  BY <1>1 DEF GoBack, AboveLeft, FMTypeOK
<1>4. FMTypeOK'
  BY <1>2, <1>3 DEF FMTypeOK, Scanning, Jobs, N
<1>5. ASSUME fpc' = "forward", NEW k \in 1 .. s_idx - 1
      PROVE  100 * Time(k) < 99 * Dur(t_idx)
  <2>1. ~AboveLeft(s_idx, t_idx) /\ s_idx \in 0 .. N + 1
    BY <1>2, <1>5 DEF GoBack, FMTypeOK
  <2>2. s_idx \in 1 .. N /\ 100 * Time(s_idx) <= 99 * Dur(t_idx)
    BY <1>1, <1>5, <2>1 DEF AboveLeft
  <2>3. k \in 1 .. N /\ Time(k) < Time(s_idx)
    BY <1>1, <1>5, <2>2
  <2> QED
    BY <1>1, <2>2, <2>3
<1>6. ScanInv'
  <2>1. s_idx' = s_idx \/ fpc' = "back"
    BY DEF GoBack
  <2>2. /\ t_idx \in Jobs /\ candidates[t_idx] = << >>
        /\ \A i \in Jobs : i > t_idx => candidates[i] = << >>
    BY <1>2 DEF ScanInv, Scanning
  <2>3. fpc' = "forward" => \A k \in 1 .. s_idx' - 1 : 100 * Time(k) < 99 * Dur(t_idx)
    BY <1>5, <2>1
  <2> QED
    BY <1>2, <2>2, <2>3 DEF ScanInv, Scanning, Jobs, Time, Dur
<1>7. CandidatesRight' /\ AssignInv' /\ MappingRight'
  BY <1>2 DEF CandidatesRight, AssignInv, MappingRight, Scanning, Jobs, N, Permitted,
              Benches, Suitable, InRadius, Nearest, Dist, Time, Dur
<1> QED
  BY <1>4, <1>6, <1>7

\* The inputs do not change, and neither does what is defined from them.
LEMMA Unchanging ==
  ASSUME UNCHANGED <<trace, table>>
  PROVE  /\ N' = N /\ Jobs' = Jobs
         /\ \A i : Dur(i)' = Dur(i) /\ Suitable(i)' = Suitable(i)
         /\ \A k : Time(k)' = Time(k) /\ Benches(k)' = Benches(k)
         /\ \A c, a, s, i : Collected(c, a, s, i)' = Collected(c, a, s, i)
BY DEF N, Jobs, Dur, Time, Benches, Suitable, InRadius, Nearest, Dist, Collected

\* So does the second.
LEMMA GoForwardStep == MapInv /\ GoForward => MapInv'
<1> SUFFICES ASSUME MapInv, GoForward PROVE MapInv'
  OBVIOUS
<1> USE DEF MapInv
<1>1. /\ N \in Nat \ {0} /\ t_idx \in Jobs /\ s_idx \in Int /\ Jobs = 1 .. Len(trace)
      /\ Dur(t_idx) \in Nat
      /\ \A k \in 1 .. N : Time(k) \in Nat
      /\ \A j, k \in 1 .. N : j < k => Time(j) < Time(k)
  BY Basics DEF GoForward, ScanInv, Scanning
<1>2. UNCHANGED <<trace, table, t_idx, candidates, todo, scheduling, mapping>>
      /\ fpc = "forward" /\ fpc' \in {"forward", "collect"}
  BY DEF GoForward
<1>3. s_idx' \in 0 .. N + 1
  BY <1>1 DEF GoForward, BelowLeft, FMTypeOK
<1>4. FMTypeOK'
  BY <1>2, <1>3 DEF FMTypeOK, Scanning, Jobs, N
<1>5. /\ \A k \in 1 .. s_idx - 1 : 100 * Time(k) < 99 * Dur(t_idx)
      /\ candidates[t_idx] = << >>
      /\ \A i \in Jobs : i > t_idx => candidates[i] = << >>
  BY <1>2 DEF ScanInv, Scanning
<1>6. ASSUME BelowLeft(s_idx, t_idx) PROVE ScanInv'
  <2>1. s_idx' = s_idx + 1 /\ fpc' = "forward"
    BY <1>2, <1>6 DEF GoForward
  <2>2. \A k \in 1 .. s_idx' - 1 : 100 * Time(k) < 99 * Dur(t_idx)
    BY <1>1, <1>5, <1>6, <2>1 DEF BelowLeft
  <2>3. (\A k \in 1 .. s_idx - 1 : 100 * Time(k) < 99 * Dur(t_idx))'
    BY <1>2, <2>2, Unchanging
  <2>4. (/\ t_idx \in Jobs /\ candidates[t_idx] = << >>
         /\ \A i \in Jobs : i > t_idx => candidates[i] = << >>)'
    BY <1>1, <1>2, <1>5, Unchanging
  <2>5. fpc' \in Scanning /\ fpc' # "collect"
    BY <2>1 DEF Scanning
  <2> QED
    BY <2>3, <2>4, <2>5 DEF ScanInv, Scanning
<1>7. ASSUME ~BelowLeft(s_idx, t_idx) PROVE ScanInv'
  <2>1. s_idx' = s_idx /\ fpc' = "collect"
    BY <1>2, <1>7 DEF GoForward
  <2>2. s_idx \in 1 .. N + 1 /\ (s_idx # N + 1 => 99 * Dur(t_idx) <= 100 * Time(s_idx))
    BY <1>1, <1>7 DEF BelowLeft, FMTypeOK
  <2>3. Collected(<< >>, s_idx, s_idx, t_idx)
    BY <1>1, <1>5, <2>2 DEF Collected
  <2>4. s_idx - Len(candidates[t_idx]) = s_idx
    BY <1>1, <1>5
  <2>5. Collected(candidates[t_idx], s_idx - Len(candidates[t_idx]), s_idx, t_idx)
    BY <1>5, <2>3, <2>4
  <2>6. Collected(candidates[t_idx], s_idx - Len(candidates[t_idx]), s_idx, t_idx)'
    BY <1>2, <2>1, <2>5, Unchanging
  <2>7. (t_idx \in Jobs /\ \A i \in Jobs : i > t_idx => candidates[i] = << >>)'
    BY <1>1, <1>2, <1>5, Unchanging
  <2>8. fpc' \in Scanning /\ fpc' \notin {"back", "forward"}
    BY <2>1 DEF Scanning
  <2> QED
    BY <2>6, <2>7, <2>8 DEF ScanInv, Scanning
<1>8. CandidatesRight' /\ AssignInv' /\ MappingRight'
  BY <1>2 DEF CandidatesRight, AssignInv, MappingRight, Scanning, Jobs, N, Permitted,
              Benches, Suitable, InRadius, Nearest, Dist, Time, Dur
<1>9. ScanInv'
  BY <1>6, <1>7
<1> QED
  BY <1>4, <1>8, <1>9

\* Collecting one more group of the radius.
LEMMA CollectMore ==
  ASSUME FMTypeOK, NEW c \in Seq(1 .. N), NEW a, NEW s, NEW i \in Jobs,
         Collected(c, a, s, i), a = s - Len(c), UpToRight(s, i)
  PROVE  /\ s \in 1 .. N
         /\ Append(c, s) \in Seq(1 .. N)
         /\ Collected(Append(c, s), s + 1 - Len(Append(c, s)), s + 1, i)
<1>1. /\ N \in Nat \ {0} /\ Dur(i) \in Nat /\ \A k \in 1 .. N : Time(k) \in Nat
  BY Basics
<1>2. s \in Int /\ a \in Int /\ 1 <= a /\ a <= s /\ s <= N + 1
  BY <1>1 DEF Collected
<1>3. s \in 1 .. N /\ 100 * Time(s) <= 101 * Dur(i)
  BY <1>1, <1>2 DEF UpToRight
<1> DEFINE d == Append(c, s)
<1>4. /\ d \in Seq(1 .. N) /\ Len(c) \in Nat /\ Len(d) = Len(c) + 1
      /\ \A j \in 1 .. Len(c) : d[j] = c[j]
      /\ d[Len(c) + 1] = s
  BY <1>3, AppendProperties, LenProperties
<1> HIDE DEF d
<1>5. s + 1 - Len(d) = a
  BY <1>2, <1>4
<1>6. 99 * Dur(i) <= 100 * Time(s)
  <2>1. a \in 1 .. N /\ 99 * Dur(i) <= 100 * Time(a)
    BY <1>1, <1>2, <1>3 DEF Collected
  <2>2. a = s \/ Time(a) < Time(s)
    <3>1. \A j, k \in 1 .. N : j < k => Time(j) < Time(k)
      BY Basics
    <3> QED
      BY <1>2, <1>3, <2>1, <3>1
  <2>3. Time(a) \in Nat /\ Time(s) \in Nat
    BY <1>1, <1>3, <2>1
  <2> QED
    BY <1>1, <2>1, <2>2, <2>3
<1>7. ASSUME NEW j \in 1 .. Len(d) PROVE d[j] = a + j - 1
  <2>1. j \in 1 .. Len(c) \/ j = Len(c) + 1
    BY <1>4
  <2>2. CASE j \in 1 .. Len(c)
    BY <1>4, <2>2 DEF Collected
  <2>3. CASE j = Len(c) + 1
    BY <1>2, <1>4, <2>3
  <2> QED
    BY <2>1, <2>2, <2>3
<1>8. ASSUME NEW k \in a .. s
      PROVE  99 * Dur(i) <= 100 * Time(k) /\ 100 * Time(k) <= 101 * Dur(i)
  <2>1. k = s \/ k \in a .. s - 1
    BY <1>2
  <2> QED
    BY <1>3, <1>6, <2>1 DEF Collected
<1>9. /\ s + 1 \in 1 .. N + 1 /\ a \in 1 .. s + 1 /\ s + 1 - 1 = s
  BY <1>1, <1>2, <1>3
<1>10. Collected(d, a, s + 1, i)
  BY <1>7, <1>8, <1>9 DEF Collected
<1> QED
  BY <1>3, <1>4, <1>5, <1>10 DEF d

\* The candidates of function i are the suitable groups, in order.
Right(c, i) ==
  /\ {c[j] : j \in DOMAIN c} = Suitable(i)
  /\ \A j, l \in DOMAIN c : j < l => c[j] < c[l]

\* Leaving the radius of function i: what is kept for it is right.
LEMMA CollectDone ==
  ASSUME FMTypeOK, NEW c \in Seq(1 .. N), NEW s, NEW i \in Jobs,
         Collected(c, s - Len(c), s, i), ~UpToRight(s, i)
  PROVE  /\ c # << >> => Right(c, i)
         /\ c = << >> => Right(Closest(s, i), i) /\ Closest(s, i) \in Seq(1 .. N)
<1> DEFINE a == s - Len(c)
<1>1. /\ N \in Nat \ {0} /\ Dur(i) \in Nat /\ \A k \in 1 .. N : Time(k) \in Nat
      /\ IsTrace(trace) /\ IsTable(table)
  BY Basics DEF FMTypeOK
<1>2. /\ s \in 1 .. N + 1 /\ a \in 1 .. s
      /\ Len(c) \in Nat /\ DOMAIN c = 1 .. Len(c)
  BY LenProperties DEF Collected
<1>3. a = s - Len(c)
  OBVIOUS
<1> HIDE DEF a
<1>4. s \in Int /\ a \in Int /\ Len(c) = s - a
  BY <1>1, <1>2, <1>3
<1>5. Collected(c, a, s, i)
  BY <1>3
<1>6. \A j \in DOMAIN c : c[j] = a + j - 1
  BY <1>2, <1>5 DEF Collected
<1>7. s # N + 1 => 101 * Dur(i) < 100 * Time(s)
  BY <1>1, <1>2 DEF UpToRight
<1>8. Stopped(a, s, i)
  BY <1>2, <1>5, <1>7 DEF Collected, Stopped
<1>9. InRadius(i) = a .. s - 1
  BY <1>1, <1>8, RadiusCollected
<1>10. ASSUME c # << >> PROVE Right(c, i)
  <2>1. Len(c) > 0
    BY <1>2, <1>10, EmptySeq
  <2>2. ASSUME NEW k \in a .. s - 1 PROVE \E j \in DOMAIN c : c[j] = k
    <3>1. k - a + 1 \in DOMAIN c
      BY <1>2, <1>4
    <3>2. c[k - a + 1] = k
      BY <1>4, <1>6, <3>1
    <3> QED
      BY <3>1, <3>2
  <2>3. ASSUME NEW j \in DOMAIN c PROVE c[j] \in a .. s - 1
    BY <1>2, <1>4, <1>6
  <2>4. {c[j] : j \in DOMAIN c} = a .. s - 1
    BY <2>2, <2>3
  <2>5. a \in a .. s - 1
    BY <1>4, <2>1
  <2>6. Suitable(i) = a .. s - 1
    BY <1>9, <2>5 DEF Suitable
  <2>7. ASSUME NEW j \in DOMAIN c, NEW l \in DOMAIN c, j < l PROVE c[j] < c[l]
    <3>1. c[j] = a + j - 1 /\ c[l] = a + l - 1 /\ j \in Int /\ l \in Int
      BY <1>2, <1>6
    <3> QED
      BY <1>4, <2>7, <3>1
  <2> QED
    BY <2>4, <2>6, <2>7 DEF Right
<1>11. ASSUME c = << >>
       PROVE  Right(Closest(s, i), i) /\ Closest(s, i) \in Seq(1 .. N)
  <2>1. Len(c) = 0
    BY <1>11
  <2>2. a = s
    BY <1>4, <2>1
  <2>3. InRadius(i) = {}
    BY <1>4, <1>9, <2>2
  <2>4. {Closest(s, i)[j] : j \in DOMAIN Closest(s, i)} = Suitable(i)
    BY <1>1, <1>8, <2>2, <2>3, ClosestNearest DEF Suitable
  <2>5. /\ Closest(s, i) \in Seq(1 .. N)
        /\ \A j, l \in DOMAIN Closest(s, i) : j < l => Closest(s, i)[j] < Closest(s, i)[l]
    BY <1>1, <1>2, ClosestType
  <2> QED
    BY <2>4, <2>5 DEF Right
<1> QED
  BY <1>10, <1>11

\* And the third, with the choice of the closest after it.
LEMMA CollectStep == MapInv /\ Collect => MapInv'
<1> SUFFICES ASSUME MapInv, Collect PROVE MapInv'
  OBVIOUS
<1> USE DEF MapInv
<1> DEFINE c == candidates[t_idx]
<1>1. /\ N \in Nat \ {0} /\ t_idx \in Jobs /\ s_idx \in Int /\ t_idx \in Int
      /\ Len(trace) \in Nat \ {0} /\ Jobs = 1 .. Len(trace)
      /\ c \in Seq(1 .. N)
  BY Basics DEF Collect, ScanInv, Scanning
<1>2. UNCHANGED <<trace, table, todo, scheduling, mapping>> /\ fpc = "collect"
  BY DEF Collect
<1>3. /\ Collected(c, s_idx - Len(c), s_idx, t_idx)
      /\ \A i \in Jobs : i > t_idx => candidates[i] = << >>
  BY <1>2 DEF ScanInv, Scanning
<1>4. \A i \in Jobs : i < t_idx => Right(candidates[i], i)
  BY DEF CandidatesRight, Right
<1>5. candidates \in [Jobs -> Seq(1 .. N)]
  BY DEF FMTypeOK
<1> HIDE DEF c
<1>c. c = candidates[t_idx]
  BY DEF c
<1>6. AssignInv' /\ MappingRight'
  <2>1. fpc' \in Scanning \union {"quota"} /\ mapping = << >>
    BY <1>2 DEF Collect, AssignInv, Scanning
  <2> QED
    BY <1>1, <1>2, <2>1 DEF AssignInv, MappingRight, Scanning
<1>7. CASE UpToRight(s_idx, t_idx)
  <2> DEFINE d == Append(c, s_idx)
  <2>1. /\ s_idx \in 1 .. N /\ d \in Seq(1 .. N)
        /\ Collected(d, s_idx + 1 - Len(d), s_idx + 1, t_idx)
    BY <1>1, <1>3, <1>7, CollectMore
  <2>2. /\ candidates' = [candidates EXCEPT ![t_idx] = d]
        /\ s_idx' = s_idx + 1 /\ fpc' = "collect" /\ t_idx' = t_idx
    BY <1>2, <1>7, <1>c DEF Collect
  <2> HIDE DEF d
  <2>3. /\ candidates' \in [Jobs -> Seq(1 .. N)] /\ candidates'[t_idx] = d
        /\ \A i \in Jobs : i # t_idx => candidates'[i] = candidates[i]
    BY <1>1, <1>5, <2>1, <2>2
  <2>4. FMTypeOK'
    <3>1. s_idx' \in 0 .. N + 1
      BY <1>1, <2>1, <2>2
    <3> QED
      BY <1>2, <2>2, <2>3, <3>1 DEF FMTypeOK, Scanning, Jobs, N
  <2>5. \A i \in Jobs : i < t_idx => Right(candidates'[i], i)
    BY <1>1, <1>4, <2>3
  <2>6. CandidatesRight'
    BY <1>2, <2>2, <2>5, Unchanging DEF CandidatesRight, Right
  <2>7. Collected(candidates[t_idx], s_idx - Len(candidates[t_idx]), s_idx, t_idx)'
    BY <1>2, <2>1, <2>2, <2>3, Unchanging
  <2>8. (t_idx \in Jobs /\ \A i \in Jobs : i > t_idx => candidates[i] = << >>)'
    BY <1>1, <1>2, <1>3, <2>2, <2>3, Unchanging
  <2>9. ScanInv'
    BY <2>2, <2>7, <2>8 DEF ScanInv, Scanning
  <2> QED
    BY <1>6, <2>4, <2>6, <2>9
<1>8. CASE ~UpToRight(s_idx, t_idx)
  <2>1. /\ s_idx' = s_idx /\ t_idx' = t_idx + 1
        /\ fpc' = IF t_idx = Len(trace) THEN "quota" ELSE "back"
        /\ candidates' = IF c # << >> THEN candidates
                         ELSE [candidates EXCEPT ![t_idx] = Closest(s_idx, t_idx)]
    BY <1>2, <1>8, <1>c DEF Collect
  <2>2. /\ c # << >> => Right(c, t_idx)
        /\ c = << >> => /\ Right(Closest(s_idx, t_idx), t_idx)
                        /\ Closest(s_idx, t_idx) \in Seq(1 .. N)
    BY <1>1, <1>3, <1>8, CollectDone
  <2>3. /\ candidates' \in [Jobs -> Seq(1 .. N)]
        /\ Right(candidates'[t_idx], t_idx)
        /\ \A i \in Jobs : i # t_idx => candidates'[i] = candidates[i]
    BY <1>1, <1>5, <1>c, <2>1, <2>2
  <2>4. FMTypeOK'
    <3>1. t_idx' \in 1 .. Len(trace) + 1 /\ fpc' \in {"quota", "back"}
      BY <1>1, <2>1
    <3> QED
      BY <1>2, <2>1, <2>3, <3>1 DEF FMTypeOK, Scanning, Jobs, N
  <2>5. \A i \in Jobs : i < t_idx' => Right(candidates'[i], i)
    <3>1. \A i \in Jobs : i < t_idx' => i = t_idx \/ i < t_idx
      BY <1>1, <2>1
    <3> QED
      BY <1>1, <1>4, <2>3, <3>1
  <2>6. CandidatesRight'
    BY <1>2, <2>5, Unchanging DEF CandidatesRight, Right
  <2>7. ScanInv'
    <3>1. CASE t_idx = Len(trace)
      BY <1>2, <2>1, <3>1 DEF ScanInv, Scanning
    <3>2. CASE t_idx # Len(trace)
      <4>1. t_idx' \in Jobs /\ t_idx' > t_idx /\ fpc' = "back"
        BY <1>1, <2>1, <3>2
      <4>2. \A i \in Jobs : i >= t_idx' => candidates'[i] = << >>
        <5>1. \A i \in Jobs : i >= t_idx' => i > t_idx /\ i # t_idx
          BY <1>1, <2>1
        <5> QED
          BY <1>1, <1>3, <2>3, <5>1
      <4>3. candidates'[t_idx'] = << >> /\ \A i \in Jobs : i > t_idx' => candidates'[i] = << >>
        BY <1>1, <4>1, <4>2
      <4> QED
        BY <1>2, <4>1, <4>3, Unchanging DEF ScanInv, Scanning
    <3> QED
      BY <3>1, <3>2
  <2> QED
    BY <1>6, <2>4, <2>6, <2>7
<1> QED
  BY <1>7, <1>8

\* What the balancing and the pick use of the candidates: every function has one,
\* each is suitable, and its group has a benchmark.
LEMMA Candidates ==
  ASSUME FMTypeOK, CandidatesRight, t_idx = Len(trace) + 1, NEW i \in Jobs
  PROVE  \A j \in DOMAIN candidates[i] :
           /\ candidates[i][j] \in Suitable(i) /\ candidates[i][j] \in 1 .. N
           /\ table[candidates[i][j]].wls \in Seq(STRING)
<1>1. /\ i < t_idx /\ candidates[i] \in Seq(1 .. N)
      /\ IsTable(table) /\ DOMAIN table = 1 .. N
  BY Basics DEF FMTypeOK
<1> DEFINE Groups == [time : Nat, wls : Seq(STRING) \ {<< >>}]
<1>2. table \in Seq(Groups)
  BY <1>1 DEF IsTable
<1>3. \A k \in 1 .. N : table[k] \in Groups
  BY <1>2, ElementOfSeq DEF N
<1>4. \A k \in 1 .. N : table[k].wls \in Seq(STRING)
  BY <1>3
<1>5. {candidates[i][j] : j \in DOMAIN candidates[i]} = Suitable(i)
  BY <1>1 DEF CandidatesRight
<1>6. \A j \in DOMAIN candidates[i] : candidates[i][j] \in 1 .. N
  BY <1>1, ElementOfSeq, LenProperties
<1> QED
  BY <1>4, <1>5, <1>6

\* The steps after the scan leave all of it alone.
LEMMA AfterScan ==
  ASSUME MapInv, fpc \notin Scanning, fpc' \notin Scanning,
         UNCHANGED <<trace, table, t_idx, s_idx, candidates>>
  PROVE  /\ CandidatesRight' /\ ScanInv'
         /\ \A i : Permitted(i)' = Permitted(i)
         /\ t_idx = Len(trace) + 1
<1>1. CandidatesRight'
  BY Unchanging DEF MapInv, CandidatesRight
<1>2. t_idx = Len(trace) + 1
  BY DEF MapInv, ScanInv
<1>3. ScanInv'
  BY <1>2 DEF ScanInv, Scanning
<1>4. \A i : Permitted(i)' = Permitted(i)
  BY Unchanging DEF Permitted
<1> QED
  BY <1>1, <1>2, <1>3, <1>4

\* The start of _greedy_glb keeps the invariant: nothing is assigned yet.
LEMMA InitialQuotaStep == MapInv /\ InitialQuota => MapInv'
<1> SUFFICES ASSUME MapInv, InitialQuota PROVE MapInv'
  OBVIOUS
<1>1. /\ fpc = "quota" /\ fpc' = "balance" /\ todo' = Jobs
      /\ scheduling' = [i \in Jobs |-> ""]
      /\ UNCHANGED <<trace, table, t_idx, s_idx, candidates, mapping>>
  BY DEF InitialQuota
<1>2. CandidatesRight' /\ ScanInv'
  BY <1>1, AfterScan DEF Scanning
<1>3. FMTypeOK'
  BY <1>1 DEF MapInv, FMTypeOK, Scanning, Jobs, N
<1>4. mapping = << >> /\ Len(mapping) <= Len(trace)
  BY <1>1 DEF MapInv, AssignInv
<1>5. AssignInv'
  <2>1. Jobs' = Jobs /\ Jobs' \ todo' = {} /\ DOMAIN scheduling' = Jobs'
    <3>1. Jobs' = Jobs
      BY <1>1, Unchanging
    <3>2. Jobs' \ todo' = {}
      BY <1>1, <3>1
    <3>3. DOMAIN [i \in Jobs |-> ""] = Jobs
      OBVIOUS
    <3> QED
      BY <1>1, <3>1, <3>2, <3>3
  <2>2. fpc' = "balance" /\ mapping' = << >> /\ Len(mapping') <= Len(trace')
    BY <1>1, <1>4
  <2> QED
    BY <2>1, <2>2 DEF AssignInv
<1>6. MappingRight'
  <2>1. mapping' = << >> /\ fpc' # "unreachable"
    BY <1>1, <1>4
  <2>2. DOMAIN mapping' = {}
    BY <2>1
  <2> QED
    BY <2>1, <2>2 DEF MappingRight
<1> QED
  BY <1>2, <1>3, <1>5, <1>6 DEF MapInv

\* A job's benchmark is one of its candidates'.
LEMMA AssignStep ==
  ASSUME MapInv, NEW i, NEW m, Assign(i, m)
  PROVE  MapInv'
<1>1. /\ fpc = "balance" /\ fpc' = "balance" /\ i \in todo /\ m \in Permitted(i)
      /\ scheduling' = [scheduling EXCEPT ![i] = m] /\ todo' = todo \ {i}
      /\ UNCHANGED <<trace, table, t_idx, s_idx, candidates, mapping>>
  BY DEF Assign
<1>2. /\ CandidatesRight' /\ ScanInv' /\ \A j : Permitted(j)' = Permitted(j)
      /\ t_idx = Len(trace) + 1
  BY <1>1, AfterScan DEF Scanning
<1>3. FMTypeOK'
  BY <1>1 DEF MapInv, FMTypeOK, Scanning, Jobs, N
<1>4. /\ mapping = << >> /\ Len(mapping) <= Len(trace)
      /\ DOMAIN scheduling = Jobs
      /\ \A j \in Jobs \ todo : scheduling[j] \in Permitted(j)
      /\ i \in Jobs
  BY <1>1 DEF MapInv, AssignInv, FMTypeOK
<1>6. /\ DOMAIN scheduling' = Jobs
      /\ \A j \in Jobs \ todo' : scheduling'[j] \in Permitted(j)
  BY <1>1, <1>4
<1>7. AssignInv'
  BY <1>1, <1>2, <1>4, <1>6, Unchanging DEF AssignInv, Scanning
<1>8. MappingRight'
  <2>1. mapping' = << >> /\ fpc' # "unreachable"
    BY <1>1, <1>4
  <2>2. DOMAIN mapping' = {}
    BY <2>1
  <2> QED
    BY <2>1, <2>2 DEF MappingRight
<1> QED
  BY <1>2, <1>3, <1>7, <1>8 DEF MapInv

\* Leaving a loop keeps the invariant.
LEMMA BalancedStep ==
  ASSUME MapInv, Balanced \/ Mapped
  PROVE  MapInv'
<1>1. /\ (fpc = "balance" /\ todo = {} /\ fpc' = "pick") \/ (fpc = "pick" /\ fpc' = "mapped")
      /\ UNCHANGED <<trace, table, t_idx, s_idx, candidates, todo, scheduling, mapping>>
  BY DEF Balanced, Mapped
<1>2. CandidatesRight' /\ ScanInv' /\ \A j : Permitted(j)' = Permitted(j)
  BY <1>1, AfterScan DEF Scanning
<1>3. FMTypeOK'
  BY <1>1 DEF MapInv, FMTypeOK, Scanning, Jobs, N
<1>4. /\ todo = {} /\ Len(mapping) <= Len(trace)
      /\ DOMAIN scheduling = Jobs
      /\ \A j \in Jobs : scheduling[j] \in Permitted(j)
  BY <1>1 DEF MapInv, AssignInv
<1>5. AssignInv'
  BY <1>1, <1>2, <1>4, Unchanging DEF AssignInv, Scanning
<1>6. MappingRight'
  BY <1>1, Unchanging DEF MapInv, MappingRight
<1> QED
  BY <1>2, <1>3, <1>5, <1>6 DEF MapInv

\* pick_workload finds a workload of the benchmark chosen for the function.
LEMMA MatchesSome ==
  ASSUME NEW i, scheduling[i] \in Permitted(i)
  PROVE  Matches(i) # {}
<1>1. PICK j \in DOMAIN candidates[i] : scheduling[i] \in Benches(candidates[i][j])
  BY DEF Permitted
<1>2. PICK p \in DOMAIN table[candidates[i][j]].wls :
        table[candidates[i][j]].wls[p] = scheduling[i]
  BY <1>1 DEF Benches
<1>3. <<j, p>> \in Matches(i)
  BY <1>1, <1>2 DEF Matches
<1> QED
  BY <1>3

\* pick_workload finds a workload, and it is a suitable one.
LEMMA PickStep == MapInv /\ Pick => MapInv'
<1> SUFFICES ASSUME MapInv, Pick PROVE MapInv'
  OBVIOUS
<1> DEFINE i == Len(mapping) + 1
<1>1. /\ fpc = "pick" /\ Len(mapping) < Len(trace)
      /\ UNCHANGED <<trace, table, t_idx, s_idx, candidates, todo, scheduling>>
  BY DEF Pick
<1>2. /\ todo = {} /\ Len(mapping) <= Len(trace)
      /\ DOMAIN scheduling = Jobs
      /\ \A j \in Jobs : scheduling[j] \in Permitted(j)
  BY <1>1 DEF MapInv, AssignInv
<1>3. /\ Len(mapping) \in Nat /\ mapping \in Seq(Nat \X Nat)
      /\ DOMAIN mapping = 1 .. Len(mapping)
  BY LenProperties DEF MapInv, FMTypeOK
<1>4. i \in Jobs /\ Len(trace) \in Nat /\ Jobs = 1 .. Len(trace)
  BY <1>1, <1>3, Basics DEF MapInv
<1>5. Matches(i) # {}
  BY <1>2, <1>4, MatchesSome
<1>6. PICK c \in Matches(i) : mapping' = Append(mapping, <<candidates[i][c[1]], c[2]>>)
                              /\ fpc' = "pick"
  BY <1>1, <1>5 DEF Pick
<1> HIDE DEF i
<1>i. i = Len(mapping) + 1
  BY DEF i
<1>7. /\ CandidatesRight' /\ ScanInv' /\ \A j : Permitted(j)' = Permitted(j)
      /\ t_idx = Len(trace) + 1
  BY <1>1, <1>6, AfterScan DEF Scanning
<1> DEFINE k == candidates[i][c[1]]
<1>8. /\ c[1] \in DOMAIN candidates[i] /\ c[2] \in DOMAIN table[k].wls
      /\ table[k].wls[c[2]] = scheduling[i]
  BY <1>6 DEF Matches
<1>9. k \in Suitable(i) /\ k \in 1 .. N /\ table[k].wls \in Seq(STRING)
  BY <1>4, <1>7, <1>8, Candidates DEF MapInv
<1>10. c[2] \in Nat /\ k \in Nat
  BY <1>8, <1>9, LenProperties
<1> HIDE DEF k
<1>11. <<k, c[2]>> \in Nat \X Nat /\ mapping' = Append(mapping, <<k, c[2]>>)
  BY <1>6, <1>10 DEF k
<1>12. /\ mapping' \in Seq(Nat \X Nat) /\ Len(mapping') = i
       /\ DOMAIN mapping' = 1 .. i
       /\ \A j \in 1 .. Len(mapping) : mapping'[j] = mapping[j]
       /\ mapping'[i] = <<k, c[2]>>
  BY <1>3, <1>11, <1>i, AppendProperties, LenProperties
<1>13. FMTypeOK'
  BY <1>1, <1>6, <1>12 DEF MapInv, FMTypeOK, Scanning, Jobs, N
<1>14. AssignInv'
  <2>1. Len(mapping') <= Len(trace')
    BY <1>1, <1>3, <1>4, <1>12, <1>i
  <2> QED
    BY <1>1, <1>2, <1>6, <1>7, <2>1, Unchanging DEF AssignInv, Scanning
<1>15. MappingRight'
  <2>1. ASSUME NEW j \in 1 .. i
        PROVE  /\ mapping'[j][1] \in Suitable(j)
               /\ mapping'[j][2] \in DOMAIN table[mapping'[j][1]].wls
               /\ table[mapping'[j][1]].wls[mapping'[j][2]] = scheduling[j]
    <3>1. j = i \/ j \in DOMAIN mapping
      BY <1>3, <1>i
    <3>2. CASE j = i
      BY <1>8, <1>9, <1>12, <3>2 DEF k
    <3>3. CASE j \in DOMAIN mapping
      BY <1>3, <1>12, <3>3 DEF MapInv, MappingRight
    <3> QED
      BY <3>1, <3>2, <3>3
  <2> QED
    BY <1>1, <1>6, <1>12, <2>1, Unchanging DEF MappingRight
<1> QED
  BY <1>7, <1>13, <1>14, <1>15 DEF MapInv

\* Every step of the mapper keeps the invariant.
LEMMA MapStep == MapInv /\ [FMNext]_fmVars => MapInv'
<1> SUFFICES ASSUME MapInv, [FMNext]_fmVars PROVE MapInv'
  OBVIOUS
<1>1. CASE UNCHANGED fmVars
  <2>1. UNCHANGED <<trace, table, fpc, t_idx, s_idx, candidates, todo, scheduling, mapping>>
    BY <1>1 DEF fmVars
  <2>2. FMTypeOK'
    BY <2>1 DEF MapInv, FMTypeOK, Jobs, N
  <2>3. CandidatesRight'
    BY <2>1, Unchanging DEF MapInv, CandidatesRight
  <2>4. ScanInv'
    BY <2>1, Unchanging DEF MapInv, ScanInv
  <2>5. AssignInv'
    BY <2>1 DEF MapInv, AssignInv, Scanning, Jobs, Permitted, Benches
  <2>6. MappingRight'
    BY <2>1, Unchanging DEF MapInv, MappingRight
  <2> QED
    BY <2>2, <2>3, <2>4, <2>5, <2>6 DEF MapInv
<1>2. CASE \E i \in todo : \E m \in Permitted(i) : Assign(i, m)
  BY <1>2, AssignStep
<1> QED
  BY <1>1, <1>2, GoBackStep, GoForwardStep, CollectStep, InitialQuotaStep, BalancedStep,
     PickStep DEF FMNext

-----------------------------------------------------------------------------
(* The books of the balancing *)

\* The invocations of the functions are numbers, and so is what any of them supply.
LEMMA SupplyType ==
  ASSUME FMTypeOK
  PROVE  /\ IsFiniteSet(Jobs)
         /\ \A i \in Jobs : trace[i].inv \in Nat
         /\ \A S \in SUBSET Jobs : IsFiniteSet(S) /\ Supply(S) \in Nat
<1>1. IsFiniteSet(Jobs)
  <2>1. Len(trace) \in Nat /\ Jobs = 1 .. Len(trace)
    BY Basics
  <2>. QED
    BY <2>1, FS_Interval
<1>2. \A i \in Jobs : trace[i].inv \in Nat
  <2>. DEFINE Fns == [dur : Nat, rpm : Seq(Nat), inv : Nat]
  <2>1. trace \in Seq(Fns) /\ Jobs = 1 .. Len(trace)
    BY Basics DEF FMTypeOK, IsTrace
  <2>2. \A i \in 1 .. Len(trace) : trace[i] \in Fns
    BY <2>1, ElementOfSeq
  <2>. QED
    BY <2>1, <2>2
<1>3. ASSUME NEW S \in SUBSET Jobs
      PROVE  IsFiniteSet(S) /\ Supply(S) \in Nat
  <2>. DEFINE f == [i \in Jobs |-> trace[i].inv]
  <2>1. IsFiniteSet(S)
    BY <1>1, FS_Subset
  <2>2. \A i \in S : f[i] \in Nat
    BY <1>2
  <2>3. SumFunctionOnSet(f, S) \in Nat
    <3>. HIDE DEF f
    <3>. QED
      BY <2>1, <2>2, SumNat
  <2>. QED
    BY <2>1, <2>3 DEF Supply
<1>. QED
  BY <1>1, <1>2, <1>3

\* One function more supplies its invocations.
LEMMA SupplyAdds ==
  ASSUME FMTypeOK, NEW S \in SUBSET Jobs, NEW i \in Jobs \ S
  PROVE  Supply(S \union {i}) = Supply(S) + trace[i].inv
<1>. DEFINE f == [j \in Jobs |-> trace[j].inv]
<1>1. IsFiniteSet(S) /\ i \notin S /\ f[i] = trace[i].inv
  BY SupplyType
<1>2. \A j \in S \union {i} : f[j] \in Int
  BY SupplyType
<1>3. SumFunctionOnSet(f, S \union {i}) = SumFunctionOnSet(f, S) + f[i]
  <2>. HIDE DEF f
  <2>. QED
    BY <1>1, <1>2, SumAdd
<1>. QED
  BY <1>1, <1>3 DEF Supply

\* The books have an account for every benchmark, and none else.
BooksInv ==
  /\ fpc \in {"balance", "pick", "mapped"} => DOMAIN load = Machines /\ DOMAIN quota = Machines
  /\ BooksBalance

\* An assignment moves a function's invocations from the quota of its benchmarks to the
\* load of the chosen one.
LEMMA AssignBooks ==
  ASSUME MapInv, BooksInv, NEW i \in todo, NEW m \in Permitted(i), Assign(i, m)
  PROVE  BooksInv'
<1>1. /\ fpc = "balance" /\ fpc' = "balance" /\ i \in todo /\ m \in Permitted(i)
      /\ scheduling' = [scheduling EXCEPT ![i] = m] /\ todo' = todo \ {i}
      /\ load' = [load EXCEPT ![m] = @ + trace[i].inv]
      /\ quota' = [q \in DOMAIN quota |->
                     IF q \in Permitted(i) THEN quota[q] - trace[i].inv ELSE quota[q]]
      /\ UNCHANGED <<trace, table, candidates>>
  BY DEF Assign
<1>2. /\ Jobs' = Jobs /\ Machines' = Machines /\ \A j : Permitted(j)' = Permitted(j)
      /\ \A S : Supply(S)' = Supply(S')
  BY <1>1 DEF Jobs, Machines, Permitted, Benches, Supply
<1>3. /\ FMTypeOK /\ todo \subseteq Jobs /\ DOMAIN scheduling = Jobs
      /\ DOMAIN load = Machines /\ DOMAIN quota = Machines
      /\ \A q \in Machines : /\ load[q] = Supply({j \in Jobs \ todo : scheduling[j] = q})
                             /\ quota[q] = Supply({j \in todo : q \in Permitted(j)})
  BY <1>1 DEF MapInv, FMTypeOK, AssignInv, BooksInv, BooksBalance
<1>4. m \in Machines /\ trace[i].inv \in Nat /\ i \in Jobs
  BY <1>1, <1>3, SupplyType DEF Machines
<1>5. ASSUME NEW q \in Machines
      PROVE  load'[q] = Supply({j \in Jobs \ todo' : scheduling'[j] = q})
  <2>. DEFINE A == {j \in Jobs \ todo : scheduling[j] = q}
  <2>1. load[q] = Supply(A)
    BY <1>3
  <2>2. CASE q = m
    <3>1. {j \in Jobs \ todo' : scheduling'[j] = q} = A \union {i}
      BY <1>1, <1>3, <1>4, <2>2
    <3>2. Supply(A \union {i}) = Supply(A) + trace[i].inv
      BY <1>3, <1>4, SupplyAdds
    <3>3. load'[q] = load[q] + trace[i].inv
      BY <1>1, <1>3, <1>4, <2>2
    <3>. QED
      BY <2>1, <3>1, <3>2, <3>3
  <2>3. CASE q # m
    <3>1. {j \in Jobs \ todo' : scheduling'[j] = q} = A
      BY <1>1, <1>3, <1>4, <2>3
    <3>2. load'[q] = load[q]
      BY <1>1, <1>3, <2>3
    <3>. QED
      BY <2>1, <3>1, <3>2
  <2>. QED
    BY <2>2, <2>3
<1>6. ASSUME NEW q \in Machines
      PROVE  quota'[q] = Supply({j \in todo' : q \in Permitted(j)})
  <2>. DEFINE B == {j \in todo' : q \in Permitted(j)}
  <2>1. /\ quota[q] = Supply({j \in todo : q \in Permitted(j)})
        /\ quota'[q] = IF q \in Permitted(i) THEN quota[q] - trace[i].inv ELSE quota[q]
    BY <1>1, <1>3
  <2>2. B \in SUBSET Jobs /\ i \in Jobs \ B /\ Supply(B) \in Nat
    BY <1>1, <1>3, <1>4, SupplyType
  <2>3. CASE q \in Permitted(i)
    <3>1. {j \in todo : q \in Permitted(j)} = B \union {i}
      BY <1>1, <2>3
    <3>2. Supply(B \union {i}) = Supply(B) + trace[i].inv
      BY <1>3, <2>2, SupplyAdds
    <3>3. quota[q] = Supply(B \union {i})
      BY <2>1, <3>1
    <3>4. quota'[q] = quota[q] - trace[i].inv
      BY <2>1, <2>3
    <3>. HIDE DEF B
    <3>5. quota'[q] = Supply(B)
      BY <1>4, <2>2, <3>2, <3>3, <3>4
    <3>. QED
      BY <3>5 DEF B
  <2>4. CASE q \notin Permitted(i)
    <3>1. {j \in todo : q \in Permitted(j)} = B
      BY <1>1, <2>4
    <3>. QED
      BY <2>1, <2>4, <3>1
  <2>. QED
    BY <2>3, <2>4
<1>7. DOMAIN load' = Machines /\ DOMAIN quota' = Machines
  BY <1>1, <1>3
<1>8. \A q \in Machines :
        /\ {j \in Jobs \ todo : scheduling[j] = q}' = {j \in Jobs \ todo' : scheduling'[j] = q}
        /\ {j \in todo : q \in Permitted(j)}' = {j \in todo' : q \in Permitted(j)}
  BY <1>2
<1>. QED
  BY <1>2, <1>5, <1>6, <1>7, <1>8 DEF BooksInv, BooksBalance

\* The books are opened with nothing given away.
LEMMA BooksOpen ==
  ASSUME MapInv, InitialQuota
  PROVE  BooksInv'
<1>1. /\ todo' = Jobs /\ load' = [m \in Machines |-> 0]
      /\ quota' = [m \in Machines |-> Supply({i \in Jobs : m \in Permitted(i)})]
      /\ UNCHANGED <<trace, table, candidates>>
  BY DEF InitialQuota
<1>2. /\ Jobs' = Jobs /\ Machines' = Machines /\ \A j : Permitted(j)' = Permitted(j)
      /\ \A S : Supply(S)' = Supply(S')
  BY <1>1 DEF Jobs, Machines, Permitted, Benches, Supply
<1>3. Supply({}) = 0
  BY SumEmpty DEF Supply
<1>4. ASSUME NEW m \in Machines
      PROVE  /\ load'[m] = Supply({i \in Jobs \ todo : scheduling[i] = m}')
             /\ quota'[m] = Supply({i \in todo : m \in Permitted(i)}')
  <2>1. {i \in Jobs \ todo : scheduling[i] = m}' = {}
    BY <1>1, <1>2
  <2>2. {i \in todo : m \in Permitted(i)}' = {i \in Jobs : m \in Permitted(i)}
    BY <1>1, <1>2
  <2>. QED
    BY <1>1, <1>3, <2>1, <2>2
<1>. QED
  BY <1>1, <1>2, <1>4 DEF BooksInv, BooksBalance

\* Every step of the mapper keeps the books.
LEMMA BooksStep ==
  ASSUME MapInv, BooksInv, [FMNext]_fmVars
  PROVE  BooksInv'
<1>1. CASE \E i \in todo : \E m \in Permitted(i) : Assign(i, m)
  BY <1>1, AssignBooks
<1>2. CASE InitialQuota
  BY <1>2, BooksOpen
<1>3. CASE GoBack \/ GoForward \/ Collect
  BY <1>3 DEF GoBack, GoForward, Collect, BooksInv, BooksBalance
<1>4. CASE Balanced \/ Pick \/ Mapped \/ UNCHANGED fmVars
  <2>1. /\ UNCHANGED <<trace, table, candidates, todo, load, quota, scheduling>>
        /\ fpc' \in {"balance", "pick", "mapped"} => fpc \in {"balance", "pick", "mapped"}
    BY <1>4 DEF Balanced, Pick, Mapped, fmVars
  <2>2. /\ Jobs' = Jobs /\ Machines' = Machines /\ \A j : Permitted(j)' = Permitted(j)
        /\ \A S : Supply(S)' = Supply(S')
    BY <2>1 DEF Jobs, Machines, Permitted, Benches, Supply
  <2>3. \A m : /\ {i \in Jobs \ todo : scheduling[i] = m}'
                   = {i \in Jobs \ todo : scheduling[i] = m}
              /\ {i \in todo : m \in Permitted(i)}' = {i \in todo : m \in Permitted(i)}
    BY <2>1, <2>2
  <2>. QED
    BY <2>1, <2>2, <2>3 DEF BooksInv, BooksBalance
<1>. QED
  BY <1>1, <1>2, <1>3, <1>4 DEF FMNext

-----------------------------------------------------------------------------
(* The generator *)

\* Every row of the trace has all minutes, and its total is theirs.
RowsComplete ==
  \A i \in Jobs : /\ Len(trace[i].rpm) = TotalMinutes
                  /\ trace[i].inv = SumFunction(trace[i].rpm)

\* The generator starts after the mapper, and its command line does not change.
GenInv ==
  /\ RowsComplete
  /\ gpc # "init" => fpc = "mapped" /\ config \in Configs
  /\ gpc = "init" => rows = << >> /\ drawn = 0
  /\ gpc \in {"scale", "normalize"} => config.mode = "spec"
  /\ gpc = "sample" => config.mode = "smirnov"

\* The trace, scaled in time, is a table of numbers.
ScaleInv ==
  gpc = "normalize" => minutes \in [Jobs -> [Columns -> Nat]]

\* How many requests minute c has when n are drawn, minute after minute.
Part(n, lo, up) == IF n <= lo THEN 0 ELSE IF n >= up THEN up - lo ELSE n - lo
Filled(c, n)    == Part(n, (c - 1) * TargetMaxRpm, c * TargetMaxRpm)

\* The requests drawn so far have filled the minutes in order.
SampleInv ==
  gpc \in {"sample", "done"} /\ config.mode = "smirnov" =>
    /\ drawn \in 0 .. config.target * TargetMaxRpm
    /\ gpc = "done" => drawn = config.target * TargetMaxRpm
    /\ IsFiniteSet(DOMAIN rows)
    /\ rows \in [DOMAIN rows -> [Columns -> Nat]]
    /\ \A c \in Columns : SumFunction([w \in DOMAIN rows |-> rows[w][c]]) = Filled(c, drawn)

\* Multiplication respects the order.
LEMMA TimesOrder ==
  ASSUME NEW a \in Nat, NEW b \in Nat, NEW c \in Nat, a <= b
  PROVE  a * c \in Nat /\ b * c \in Nat /\ a * c <= b * c
<1>1. PICK d \in Nat : b = a + d
  <2>1. b - a \in Nat /\ b = a + (b - a)
    OBVIOUS
  <2>. QED
    BY <2>1
<1>2. b * c = a * c + d * c
  BY <1>1
<1>3. a * c \in Nat /\ d * c \in Nat
  OBVIOUS
<1>. QED
  BY <1>2, <1>3

\* The numbers a command line gives.
LEMMA ConfigTyped ==
  ASSUME config \in Configs
  PROVE  /\ config.mode \in {"spec", "smirnov"}
         /\ config.scaling \in {"thumbnails", "minute_range"}
         /\ config.target \in Nat \ {0} /\ config.first \in Nat \ {0}
         /\ config.rps \in Nat \ {0}
         /\ TargetMaxRpm \in Nat \ {0}
<1>1. config \in ConfigType
  BY GeneratorAssumption
<1>2. config.rps \in Nat \ {0} /\ MinuteSeconds \in Nat \ {0}
  BY <1>1, GeneratorAssumption DEF ConfigType
<1>3. config.rps * MinuteSeconds \in Nat \ {0}
  BY <1>2
<1>. QED
  BY <1>1, <1>3 DEF ConfigType, TargetMaxRpm

\* The rows of the trace, minute by minute.
LEMMA RpmTyped ==
  ASSUME FMTypeOK, RowsComplete, NEW i \in Jobs
  PROVE  /\ TotalMinutes \in Nat \ {0}
         /\ DOMAIN trace[i].rpm = 1 .. TotalMinutes
         /\ \A m \in 1 .. TotalMinutes : trace[i].rpm[m] \in Nat
         /\ trace[i].inv \in Nat
         /\ trace[i].inv = SumFunctionOnSet(trace[i].rpm, 1 .. TotalMinutes)
<1>1. trace \in Seq([dur : Nat, rpm : Seq(Nat), inv : Nat])
  BY DEF FMTypeOK, IsTrace
<1>2. trace[i] \in [dur : Nat, rpm : Seq(Nat), inv : Nat]
  BY <1>1, ElementOfSeq, LenProperties DEF Jobs
<1>3. trace[i].rpm \in Seq(Nat) /\ trace[i].inv \in Nat
  BY <1>2
<1>4. DOMAIN trace[i].rpm = 1 .. TotalMinutes
  BY <1>3, LenProperties DEF RowsComplete
<1>5. \A m \in 1 .. TotalMinutes : trace[i].rpm[m] \in Nat
  BY <1>3, <1>4, ElementOfSeq, LenProperties DEF RowsComplete
<1>6. TotalMinutes \in Nat \ {0}
  BY GeneratorAssumption
<1>. QED
  BY <1>3, <1>4, <1>5, <1>6 DEF RowsComplete, SumFunction

\* The jobs are finitely many.
LEMMA JobsFinite == ASSUME FMTypeOK PROVE IsFiniteSet(Jobs)
<1>1. Jobs = 1 .. Len(trace) /\ Len(trace) \in Nat
  BY Basics
<1>2. IsFiniteSet(1 .. Len(trace))
  BY <1>1, FS_Interval
<1>. QED
  BY <1>1, <1>2

\* A finite set of numbers has a largest.
LEMMA LargestIn ==
  ASSUME NEW S \in SUBSET Nat, IsFiniteSet(S), S # {}
  PROVE  Max(S) \in S /\ \A y \in S : y <= Max(S)
<1>. DEFINE T == {s \in SUBSET S : s = {} \/ \E x \in s : \A y \in s : x >= y}
<1>1. ASSUME NEW s \in T, NEW z \in S \ s
      PROVE  s \union {z} \in T
  <2>1. CASE s = {}
    <3>1. \A y \in s \union {z} : z >= y
      BY <2>1
    <3>. QED
      BY <3>1
  <2>2. CASE s # {}
    <3>1. PICK x \in s : \A y \in s : x >= y
      BY <2>2
    <3>2. CASE x >= z
      <4>1. \A y \in s \union {z} : x >= y
        BY <3>1, <3>2
      <4>. QED
        BY <4>1
    <3>3. CASE ~(x >= z)
      <4>1. \A y \in s \union {z} : z >= y
        BY <3>1, <3>3
      <4>. QED
        BY <4>1
    <3>. QED
      BY <3>2, <3>3
  <2>. QED
    BY <2>1, <2>2
<1>2. T \in SUBSET SUBSET S /\ {} \in T
  OBVIOUS
<1>3. S \in T
  <2>. HIDE DEF T
  <2>. QED
    BY <1>1, <1>2, SetGrows
<1>4. PICK x \in S : \A y \in S : x >= y
  BY <1>3
<1>5. Max(S) \in S /\ \A y \in S : Max(S) >= y
  BY <1>4 DEF Max
<1>. QED
  BY <1>5

\* The sets part[c] divide the whole into finite parts.
Partition(part, B, whole) ==
  /\ \A c \in B : IsFiniteSet(part[c])
  /\ \A b, c \in B : b # c => part[b] \intersect part[c] = {}
  /\ UNION {part[c] : c \in B} = whole

\* The groups of consecutive minutes that the thumbnails sum, n of pg minutes.
Groups(pg, n) == [c \in 1 .. n |-> pg * (c - 1) + 1 .. pg * c]

\* They make up the day.
LEMMA GroupsPartition ==
  ASSUME NEW pg \in Nat \ {0}, NEW n \in Nat \ {0}
  PROVE  Partition(Groups(pg, n), 1 .. n, 1 .. pg * n)
<1>. DEFINE part == Groups(pg, n)
<1>0. part = [c \in 1 .. n |-> pg * (c - 1) + 1 .. pg * c]
  BY DEF Groups
<1>. HIDE DEF part
<1>1. ASSUME NEW c \in 1 .. n
      PROVE  /\ pg * (c - 1) \in Nat /\ pg * c \in Nat
             /\ pg * c <= pg * n
             /\ part[c] = pg * (c - 1) + 1 .. pg * c
  <2>1. c * pg <= n * pg /\ c * pg \in Nat /\ (c - 1) * pg \in Nat
    BY TimesOrder
  <2>. QED
    BY <1>0, <2>1
<1>2. ASSUME NEW c \in 1 .. n PROVE IsFiniteSet(part[c])
  <2>1. pg * (c - 1) + 1 \in Int /\ pg * c \in Int
    BY <1>1
  <2>2. IsFiniteSet(pg * (c - 1) + 1 .. pg * c)
    BY <2>1, FS_Interval
  <2>. QED
    BY <1>1, <2>2
<1>3. ASSUME NEW b \in 1 .. n, NEW c \in 1 .. n, b < c
      PROVE  part[b] \intersect part[c] = {}
  <2>1. b * pg <= (c - 1) * pg
    BY <1>3, TimesOrder
  <2>2. pg * b <= pg * (c - 1) /\ pg * b \in Nat /\ pg * (c - 1) \in Nat
    BY <1>1, <2>1
  <2>. DEFINE x == pg * b
              y == pg * (c - 1)
  <2>3. part[b] = pg * (b - 1) + 1 .. x /\ part[c] = y + 1 .. pg * c /\ x <= y
    BY <1>1, <2>2
  <2>4. pg * (b - 1) \in Int /\ pg * c \in Int /\ x \in Int /\ y \in Int
    BY <1>1, <2>2
  <2>. HIDE DEF x, y
  <2>. QED
    BY <2>3, <2>4
<1>4. \A c \in 1 .. n : part[c] \subseteq 1 .. pg * n
  <2>. SUFFICES ASSUME NEW c \in 1 .. n PROVE part[c] \subseteq 1 .. pg * n
    OBVIOUS
  <2>. DEFINE x == pg * (c - 1)
              y == pg * c
              z == pg * n
  <2>1. x \in Nat /\ y \in Nat /\ z \in Nat /\ y <= z /\ part[c] = x + 1 .. y
    BY <1>1
  <2>. HIDE DEF x, y, z
  <2>2. part[c] \subseteq 1 .. z
    BY <2>1
  <2>. QED
    BY <2>2 DEF z
<1>5. ASSUME NEW m \in 1 .. pg * n
      PROVE  \E c \in 1 .. n : m \in part[c]
  <2>. DEFINE q == (m - 1) \div pg
              r == (m - 1) % pg
  <2>1. pg * n \in Nat /\ m \in Nat \ {0} /\ m <= pg * n
    OBVIOUS
  <2>2. q \in Nat /\ r \in 0 .. pg - 1 /\ m - 1 = pg * q + r
    BY <2>1
  <2>. HIDE DEF q, r
  <2>3. q < n
    <3>. SUFFICES ASSUME n <= q PROVE FALSE
      BY <2>2
    <3>1. n * pg <= q * pg
      BY <2>2, TimesOrder
    <3>2. pg * n <= pg * q /\ pg * q \in Nat
      BY <2>2, <3>1
    <3>. QED
      BY <2>1, <2>2, <3>2
  <2>4. q + 1 \in 1 .. n /\ pg * (q + 1) = pg * q + pg /\ pg * q \in Nat
    BY <2>2, <2>3
  <2>5. part[q + 1] = pg * q + 1 .. pg * q + pg
    BY <1>1, <2>4
  <2>6. m \in part[q + 1]
    BY <2>1, <2>2, <2>4, <2>5
  <2>. QED
    BY <2>4, <2>6
<1>6. UNION {part[c] : c \in 1 .. n} = 1 .. pg * n
  BY <1>4, <1>5
<1>7. \A b, c \in 1 .. n : b # c => part[b] \intersect part[c] = {}
  <2>. SUFFICES ASSUME NEW b \in 1 .. n, NEW c \in 1 .. n, b # c
                PROVE  part[b] \intersect part[c] = {}
    OBVIOUS
  <2>1. CASE b < c
    BY <1>3, <2>1
  <2>2. CASE c < b
    BY <1>3, <2>2
  <2>3. b < c \/ c < b
    OBVIOUS
  <2>. QED
    BY <2>1, <2>2, <2>3, Zenon
<1>. QED
  BY <1>2, <1>6, <1>7, Zenon DEF Partition, part

\* The sum of the groups' sums is that of the whole.
LEMMA PartsSum ==
  ASSUME NEW B, IsFiniteSet(B), NEW whole, NEW part, Partition(part, B, whole),
         NEW f, NEW g, \A m \in whole : f[m] \in Nat,
         \A c \in B : g[c] = SumFunctionOnSet(f, part[c])
  PROVE  /\ \A c \in B : g[c] \in Nat
         /\ SumFunctionOnSet(g, B) = SumFunctionOnSet(f, whole)
<1>0. /\ \A c \in B : IsFiniteSet(part[c])
      /\ \A b, c \in B : b # c => part[b] \intersect part[c] = {}
  BY DEF Partition
<1>1. \A c \in B : \A m \in part[c] : f[m] \in Nat
  BY DEF Partition
<1>2. \A c \in B : \A m \in part[c] : f[m] \in Int
  BY <1>1
<1>3. SumFunctionOnSet(g, B) = SumFunctionOnSet(f, UNION {part[c] : c \in B})
  BY <1>0, <1>2, SumPartition
<1>4. SumFunctionOnSet(g, B) = SumFunctionOnSet(f, whole)
  BY <1>3, Zenon DEF Partition
<1>5. \A c \in B : g[c] \in Nat
  BY <1>0, <1>1, SumNat
<1>. QED
  BY <1>4, <1>5

\* Every function keeps its invocations.
LEMMA ThumbnailsSum ==
  ASSUME FMTypeOK, RowsComplete, config \in Configs,
         TotalMinutes % config.target = 0, Thumbnails
  PROVE  /\ minutes' \in [Jobs -> [Columns -> Nat]]
         /\ \A i \in Jobs : SumFunction(minutes'[i]) = trace[i].inv
<1>. DEFINE n    == config.target
            pg   == TotalMinutes \div n
            part == Groups(pg, n)
            day  == 1 .. TotalMinutes
<1>1. n \in Nat \ {0} /\ Columns = 1 .. n /\ TotalMinutes \in Nat \ {0}
  BY ConfigTyped, GeneratorAssumption DEF Columns
<1>2. pg \in Nat \ {0} /\ pg * n = TotalMinutes
  <2>1. pg \in Nat /\ TotalMinutes = n * pg
    BY <1>1
  <2>. HIDE DEF pg, n
  <2>. QED
    BY <1>1, <2>1
<1>3. part = [c \in Columns |-> pg * (c - 1) + 1 .. pg * c]
  BY <1>1 DEF Groups
<1>4. Partition(part, Columns, day)
  <2>. HIDE DEF pg, n
  <2>1. Partition(Groups(pg, n), 1 .. n, 1 .. pg * n)
    BY <1>1, <1>2, GroupsPartition
  <2>. QED
    BY <1>1, <1>2, <2>1, Zenon
<1>5. IsFiniteSet(Columns)
  BY <1>1, FS_Interval
<1>6. ASSUME NEW i \in Jobs
      PROVE  /\ minutes'[i] \in [Columns -> Nat]
             /\ SumFunction(minutes'[i]) = trace[i].inv
  <2>. DEFINE f == trace[i].rpm
              g == minutes'[i]
  <2>1. /\ \A m \in day : f[m] \in Nat
        /\ trace[i].inv = SumFunctionOnSet(f, day)
    BY RpmTyped
  <2>2. g = [c \in Columns |-> SumFunctionOnSet(f, part[c])]
    BY <1>3 DEF Thumbnails
  <2>. HIDE DEF n, pg, part, f, g, day
  <2>3. \A c \in Columns : g[c] = SumFunctionOnSet(f, part[c])
    BY <2>2, Zenon
  <2>4. /\ \A c \in Columns : g[c] \in Nat
        /\ SumFunctionOnSet(g, Columns) = SumFunctionOnSet(f, day)
    BY <1>4, <1>5, <2>1, <2>3, PartsSum
  <2>5. DOMAIN g = Columns /\ g \in [Columns -> Nat]
    <3>1. g = [c \in Columns |-> g[c]]
      BY <2>2
    <3>. QED
      BY <2>4, <3>1, Zenon
  <2>6. SumFunctionOnSet(g, Columns) = trace[i].inv
    BY <2>1, <2>4, Zenon
  <2>. QED
    BY <2>5, <2>6, Zenon DEF SumFunction, g
<1>7. minutes' = [i \in Jobs |-> minutes'[i]]
  BY DEF Thumbnails
<1>. QED
  BY <1>6, <1>7

\* Scaling in time keeps the invariants and, by thumbnails, the invocations.
LEMMA ScaleStep ==
  ASSUME FMTypeOK, GenInv, ScaleTime
  PROVE  gpc' # "failed" => ScaleInv' /\ ThumbnailsConserve'
<1>1. /\ gpc = "scale" /\ config \in Configs /\ config' = config /\ trace' = trace
      /\ Columns' = Columns /\ Jobs' = Jobs
  BY DEF ScaleTime, GenInv, fmVars, Columns, Jobs
<1>2. CASE config.scaling = "thumbnails" /\ gpc' # "failed"
  <2>1. TotalMinutes % config.target = 0 /\ Thumbnails
    BY <1>2 DEF ScaleTime, Fail
  <2>2. /\ minutes' \in [Jobs -> [Columns -> Nat]]
        /\ \A i \in Jobs : SumFunction(minutes'[i]) = trace[i].inv
    BY <1>1, <2>1, ThumbnailsSum DEF GenInv
  <2>. QED
    BY <1>1, <2>2 DEF ScaleInv, ThumbnailsConserve
<1>3. CASE config.scaling # "thumbnails" /\ gpc' # "failed"
  <2>1. config.first + config.target <= TotalMinutes /\ MinuteRange
    BY <1>3 DEF ScaleTime, Fail
  <2>2. \A i \in Jobs : \A c \in Columns : trace[i].rpm[config.first + c] \in Nat
    <3>. SUFFICES ASSUME NEW i \in Jobs, NEW c \in Columns
                  PROVE  trace[i].rpm[config.first + c] \in Nat
      OBVIOUS
    <3>1. config.first + c \in 1 .. TotalMinutes
      BY <1>1, <2>1, ConfigTyped, GeneratorAssumption DEF Columns
    <3>. QED
      BY <3>1, RpmTyped DEF GenInv
  <2>3. minutes' \in [Jobs -> [Columns -> Nat]]
    BY <2>1, <2>2 DEF MinuteRange
  <2>. QED
    BY <1>1, <1>3, <2>3 DEF ScaleInv, ThumbnailsConserve
<1>. QED
  BY <1>2, <1>3

\* custom_round moves a fraction down by less than .35 or up by at most .65, and
\* no other way: whole numbers, 0 among them, stay what they are.
THEOREM RoundingBound ==
  ASSUME NEW a \in Nat, NEW b \in Nat \ {0}
  PROVE  /\ CustomRound(a, b) \in Nat
         /\ 100 * (b * CustomRound(a, b)) <= 100 * a + 65 * b
         /\ 100 * (b * CustomRound(a, b)) > 100 * a - 35 * b
         /\ a % b = 0 => b * CustomRound(a, b) = a
<1> DEFINE q == a \div b
           r == a % b
<1>1. /\ q \in Nat /\ r \in 0 .. b - 1
      /\ a = b * q + r
  OBVIOUS
<1> HIDE DEF q, r
<1>2. b * (q + 1) = b * q + b /\ b * q \in Nat
  BY <1>1
<1>3. CASE 100 * r < 35 * b
  <2>1. CustomRound(a, b) = q
    BY <1>3 DEF CustomRound, q, r
  <2> QED
    BY <1>1, <1>2, <1>3, <2>1 DEF r
<1>4. CASE ~(100 * r < 35 * b)
  <2>1. CustomRound(a, b) = q + 1
    BY <1>4 DEF CustomRound, q, r
  <2> QED
    BY <1>1, <1>2, <1>4, <2>1 DEF r
<1> QED
  BY <1>3, <1>4

\* A rounded fraction that is not 0 is off by less than .35 or at most .65.
LEMMA RoundedOne ==
  ASSUME NEW a \in Nat, NEW t \in Nat, NEW M \in Nat \ {0}
  PROVE  LET g == CustomRound(a * t, M)
             k == IF a > 0 THEN 1 ELSE 0
         IN  /\ g \in Nat
             /\ (100 * M) * g <= (100 * t) * a + (65 * M) * k
             /\ (100 * t) * a <= (100 * M) * g + (35 * M) * k
<1>. DEFINE g == CustomRound(a * t, M)
            b == a * t
            mg == M * g
<1>1. b \in Nat
  OBVIOUS
<1>2. /\ g \in Nat
      /\ 100 * mg <= 100 * b + 65 * M
      /\ 100 * mg > 100 * b - 35 * M
      /\ b % M = 0 => mg = b
  BY <1>1, RoundingBound
<1>3. mg \in Nat
  BY <1>2
<1>4. (100 * M) * g = 100 * mg /\ (100 * t) * a = 100 * b
  BY <1>1, <1>2
<1>5. CASE a = 0
  <2>1. b = 0
    BY <1>5
  <2>2. 0 % M = 0
    OBVIOUS
  <2>3. mg = 0
    BY <1>2, <2>1, <2>2
  <2>. HIDE DEF g, b, mg
  <2>4. (65 * M) * 0 = 0 /\ (35 * M) * 0 = 0
    OBVIOUS
  <2>. QED
    BY <1>2, <1>4, <1>5, <2>1, <2>3, <2>4 DEF g
<1>6. CASE a # 0
  <2>1. (65 * M) * 1 = 65 * M /\ (35 * M) * 1 = 35 * M /\ a > 0
    BY <1>6
  <2>. HIDE DEF g, b, mg
  <2>2. /\ (100 * M) * g <= (100 * t) * a + 65 * M
        /\ (100 * t) * a <= (100 * M) * g + 35 * M
    BY <1>1, <1>2, <1>3, <1>4
  <2>. QED
    BY <1>2, <2>1, <2>2 DEF g
<1>. QED
  BY <1>5, <1>6

\* The sum of g is t / M times that of a, less at most .35 and more at most .65
\* for each term that is not 0.
RoundedFrom(a, g, S, t, M) ==
  LET n == Cardinality({i \in S : a[i] > 0})
  IN  /\ SumFunctionOnSet(a, S) \in Nat /\ SumFunctionOnSet(g, S) \in Nat
      /\ n \in Nat
      /\ (100 * M) * SumFunctionOnSet(g, S)
           <= (100 * t) * SumFunctionOnSet(a, S) + (65 * M) * n
      /\ (100 * t) * SumFunctionOnSet(a, S)
           <= (100 * M) * SumFunctionOnSet(g, S) + (35 * M) * n

\* Terms that are rounded one by one miss their sum by no more than those errors
\* add up to.
LEMMA RoundedSum ==
  ASSUME NEW S, IsFiniteSet(S), NEW t \in Nat, NEW M \in Nat \ {0},
         NEW a, \A i \in S : a[i] \in Nat,
         NEW g, \A i \in S : g[i] = CustomRound(a[i] * t, M)
  PROVE  RoundedFrom(a, g, S, t, M)
<1>. DEFINE p == 100 * M
            q == 100 * t
            r == 65 * M
            s == 35 * M
            A == {i \in S : a[i] > 0}
            k == [i \in S |-> IF i \in A THEN 1 ELSE 0]
            pg == [i \in S |-> p * g[i]]
            qa == [i \in S |-> q * a[i]]
            rk == [i \in S |-> r * k[i]]
            sk == [i \in S |-> s * k[i]]
            up == [i \in S |-> qa[i] + rk[i]]
            dn == [i \in S |-> pg[i] + sk[i]]
<1>1. p \in Int /\ q \in Int /\ r \in Int /\ s \in Int
  OBVIOUS
<1>2. \A i \in S : /\ g[i] \in Nat
                  /\ p * g[i] <= q * a[i] + r * k[i]
                  /\ q * a[i] <= p * g[i] + s * k[i]
  <2>. SUFFICES ASSUME NEW i \in S
                PROVE  /\ g[i] \in Nat
                       /\ p * g[i] <= q * a[i] + r * k[i]
                       /\ q * a[i] <= p * g[i] + s * k[i]
    BY Zenon
  <2>. DEFINE x == a[i]
              y == g[i]
              z == k[i]
  <2>1. x \in Nat /\ y = CustomRound(x * t, M) /\ z = IF x > 0 THEN 1 ELSE 0
    OBVIOUS
  <2>. HIDE DEF x, y, z
  <2>2. y \in Nat /\ p * y <= q * x + r * z /\ q * x <= p * y + s * z
    BY <2>1, RoundedOne
  <2>. HIDE DEF p, q, r, s, k
  <2>. QED
    BY <2>2, Zenon DEF x, y, z
<1>3. \A i \in S : k[i] \in Nat /\ k[i] = IF i \in A THEN 1 ELSE 0
  OBVIOUS
<1>4. /\ \A i \in S : pg[i] = p * g[i]
      /\ \A i \in S : qa[i] = q * a[i]
      /\ \A i \in S : rk[i] = r * k[i]
      /\ \A i \in S : sk[i] = s * k[i]
      /\ \A i \in S : up[i] = qa[i] + rk[i]
      /\ \A i \in S : dn[i] = pg[i] + sk[i]
  OBVIOUS
<1>5. A \in SUBSET S /\ A = {i \in S : a[i] > 0}
  OBVIOUS
<1>. HIDE DEF p, q, r, s, A, k, pg, qa, rk, sk, up, dn
<1>6. \A i \in S : g[i] \in Int /\ a[i] \in Int /\ k[i] \in Int
  BY <1>2, <1>3
<1>7. /\ \A i \in S : pg[i] \in Int /\ qa[i] \in Int /\ rk[i] \in Int /\ sk[i] \in Int
  BY <1>1, <1>4, <1>6
<1>8. \A i \in S : pg[i] <= up[i] /\ up[i] \in Int /\ qa[i] <= dn[i] /\ dn[i] \in Int
  BY <1>2, <1>4, <1>7
<1>9. SumFunctionOnSet(a, S) \in Nat /\ SumFunctionOnSet(g, S) \in Nat
  BY <1>2, SumNat
<1>10. SumFunctionOnSet(k, S) = Cardinality(A) /\ Cardinality(A) \in Nat
  BY <1>3, <1>5, SumCounts, FS_Subset, FS_CardinalityType
<1>11. SumFunctionOnSet(pg, S) = p * SumFunctionOnSet(g, S)
  BY <1>1, <1>4, <1>6, SumTimes
<1>12. SumFunctionOnSet(qa, S) = q * SumFunctionOnSet(a, S)
  BY <1>1, <1>4, <1>6, SumTimes
<1>13. SumFunctionOnSet(rk, S) = r * SumFunctionOnSet(k, S)
  BY <1>1, <1>4, <1>6, SumTimes
<1>14. SumFunctionOnSet(sk, S) = s * SumFunctionOnSet(k, S)
  BY <1>1, <1>4, <1>6, SumTimes
<1>15. SumFunctionOnSet(up, S) = SumFunctionOnSet(qa, S) + SumFunctionOnSet(rk, S)
  BY <1>4, <1>7, SumPlus
<1>16. SumFunctionOnSet(dn, S) = SumFunctionOnSet(pg, S) + SumFunctionOnSet(sk, S)
  BY <1>4, <1>7, SumPlus
<1>17. SumFunctionOnSet(pg, S) <= SumFunctionOnSet(up, S)
  BY <1>7, <1>8, SumOrder
<1>18. SumFunctionOnSet(qa, S) <= SumFunctionOnSet(dn, S)
  BY <1>7, <1>8, SumOrder
<1>19. /\ p * SumFunctionOnSet(g, S) <= q * SumFunctionOnSet(a, S) + r * Cardinality(A)
       /\ q * SumFunctionOnSet(a, S) <= p * SumFunctionOnSet(g, S) + s * Cardinality(A)
  BY <1>10, <1>11, <1>12, <1>13, <1>14, <1>15, <1>16, <1>17, <1>18
<1>. QED
  BY <1>5, <1>9, <1>10, <1>19, Zenon DEF RoundedFrom, p, q, r, s

\* Normalising keeps the rate of every minute but for the rounding, whichever
\* rows are left out: they are zero.
LEMMA RateStep ==
  ASSUME FMTypeOK, GenInv, ScaleInv, Normalize
  PROVE  gpc' # "failed" => RateBounded'
<1>. SUFFICES ASSUME gpc' # "failed" PROVE RateBounded'
  OBVIOUS
<1>1. /\ config \in Configs /\ minutes \in [Jobs -> [Columns -> Nat]]
      /\ config' = config /\ trace' = trace /\ minutes' = minutes
      /\ MaxRpm # 0
  BY DEF Normalize, GenInv, ScaleInv, Fail, fmVars
<1>2. /\ Columns' = Columns /\ Jobs' = Jobs /\ TargetMaxRpm' = TargetMaxRpm
      /\ \A c : TotalRpm(c)' = TotalRpm(c)
  BY <1>1 DEF Columns, Jobs, TargetMaxRpm, TotalRpm
<1>3. MaxRpm' = MaxRpm
  BY <1>2 DEF MaxRpm
<1>4. \A c \in Columns : TotalRpm(c) \in Nat
  <2>. SUFFICES ASSUME NEW c \in Columns PROVE TotalRpm(c) \in Nat
    OBVIOUS
  <2>. DEFINE f == [i \in Jobs |-> minutes[i][c]]
  <2>1. \A i \in Jobs : f[i] \in Nat
    BY <1>1
  <2>2. TotalRpm(c) = SumFunctionOnSet(f, Jobs)
    BY DEF TotalRpm, SumFunction
  <2>. HIDE DEF f
  <2>. QED
    BY <2>1, <2>2, JobsFinite, SumNat
<1>5. MaxRpm \in Nat \ {0} /\ TargetMaxRpm \in Nat
  <2>. DEFINE tot == [c \in Columns |-> TotalRpm(c)]
              T   == {TotalRpm(c) : c \in Columns}
  <2>1. Columns = 1 .. config.target /\ config.target \in Nat \ {0}
    BY <1>1, ConfigTyped DEF Columns
  <2>2. IsFiniteSet(Columns) /\ Columns # {}
    <3>1. 1 \in Columns
      BY <2>1
    <3>2. IsFiniteSet(1 .. config.target)
      BY <2>1, FS_Interval
    <3>. QED
      BY <2>1, <3>1, <3>2
  <2>3. tot \in Surjection(Columns, T)
    BY DEF Surjection
  <2>4. IsFiniteSet(T)
    BY <2>2, <2>3, FS_Surjection
  <2>5. T \in SUBSET Nat /\ T # {}
    BY <1>4, <2>2
  <2>. HIDE DEF T
  <2>6. Max(T) \in Nat
    BY <2>4, <2>5, LargestIn
  <2>. QED
    BY <1>1, <2>6, ConfigTyped DEF MaxRpm, T
<1>. DEFINE scaled == [i \in Jobs |-> [c \in Columns |->
                         CustomRound(minutes[i][c] * TargetMaxRpm, MaxRpm)]]
            A   == {i \in Jobs : \E c \in Columns : scaled[i][c] # 0}
            row == [i \in Jobs |-> [fn |-> i, wl |-> mapping[i], minutes |-> scaled[i]]]
<1>6. rows' = {row[i] : i \in A}
  BY DEF Normalize, Fail
<1>7. ASSUME NEW c \in Columns
      PROVE  LET total  == SumFunction([r \in rows' |-> r.minutes[c]])
                 exact  == TargetMaxRpm * TotalRpm(c)
                 active == Cardinality({i \in Jobs : minutes[i][c] > 0})
             IN  /\ 100 * MaxRpm * total <= 100 * exact + 65 * MaxRpm * active
                 /\ 100 * MaxRpm * total >= 100 * exact - 35 * MaxRpm * active
  <2>. DEFINE f == [r \in rows' |-> r.minutes[c]]
              g == [i \in Jobs |-> scaled[i][c]]
              a == [i \in Jobs |-> minutes[i][c]]
  <2>1. /\ \A i \in Jobs : a[i] \in Nat
        /\ \A i \in Jobs : g[i] = CustomRound(a[i] * TargetMaxRpm, MaxRpm)
    BY <1>1
  <2>2. \A i \in Jobs : g[i] \in Nat
    <3>. HIDE DEF g, a
    <3>. SUFFICES ASSUME NEW i \in Jobs PROVE g[i] \in Nat
      OBVIOUS
    <3>1. a[i] * TargetMaxRpm \in Nat
      BY <1>5, <2>1
    <3>. QED
      BY <1>5, <2>1, <3>1, RoundingBound
  <2>3. \A i \in A : row[i] \in rows' /\ f[row[i]] = g[i]
    BY <1>6
  <2>4. \A i, j \in A : i # j => row[i] # row[j]
    OBVIOUS
  <2>5. \A i \in Jobs \ A : g[i] = 0
    OBVIOUS
  <2>6. A \in SUBSET Jobs /\ TotalRpm(c) = SumFunctionOnSet(a, Jobs)
    BY DEF TotalRpm, SumFunction
  <2>7. SumFunction(f) = SumFunctionOnSet(f, {row[i] : i \in A})
    BY <1>6 DEF SumFunction
  <2>8. {i \in Jobs : minutes[i][c] > 0} = {i \in Jobs : a[i] > 0}
    OBVIOUS
  <2>. HIDE DEF scaled, A, row, f, g, a
  <2>9. IsFiniteSet(Jobs) /\ IsFiniteSet(A)
    BY <2>6, JobsFinite, FS_Subset
  <2>10. \A i \in A : f[row[i]] \in Int /\ g[i] = f[row[i]]
    BY <2>2, <2>3, <2>6
  <2>11. SumFunctionOnSet(f, {row[i] : i \in A}) = SumFunctionOnSet(g, A)
    BY <2>4, <2>9, <2>10, SumImage
  <2>12. SumFunctionOnSet(g, Jobs) = SumFunctionOnSet(g, A)
    BY <2>2, <2>5, <2>6, <2>9, SumSupport
  <2>13. SumFunction(f) = SumFunctionOnSet(g, Jobs)
    BY <2>7, <2>11, <2>12, Zenon
  <2>. DEFINE n == Cardinality({i \in Jobs : a[i] > 0})
              M == MaxRpm
              t == TargetMaxRpm
              sa == SumFunctionOnSet(a, Jobs)
              sg == SumFunctionOnSet(g, Jobs)
  <2>14. /\ sa \in Nat /\ sg \in Nat /\ n \in Nat
         /\ (100 * M) * sg <= (100 * t) * sa + (65 * M) * n
         /\ (100 * t) * sa <= (100 * M) * sg + (35 * M) * n
    <3>1. RoundedFrom(a, g, Jobs, TargetMaxRpm, MaxRpm)
      BY <1>5, <2>1, <2>9, RoundedSum
    <3>. QED
      BY <3>1 DEF RoundedFrom
  <2>. HIDE DEF n, M, t, sa, sg
  <2>15. /\ 100 * M * sg <= 100 * (t * sa) + 65 * M * n
         /\ 100 * M * sg >= 100 * (t * sa) - 35 * M * n
    <3>1. M \in Nat /\ t \in Nat
      BY <1>5 DEF M, t
    <3>2. (100 * t) * sa = 100 * (t * sa)
      BY <2>14, <3>1
    <3>. DEFINE x == (100 * M) * sg
                y == 100 * (t * sa)
                z == (65 * M) * n
                w == (35 * M) * n
    <3>3. x \in Nat /\ y \in Nat /\ z \in Nat /\ w \in Nat
      BY <2>14, <3>1
    <3>4. x <= y + z /\ y <= x + w
      BY <2>14, <3>2
    <3>. HIDE DEF x, y, z, w
    <3>5. x <= y + z /\ x >= y - w
      BY <3>3, <3>4
    <3>. QED
      BY <3>5 DEF x, y, z, w
  <2>. QED
    BY <2>6, <2>8, <2>13, <2>15 DEF n, M, t, sa, sg, f
<1>8. RateBounded'
  BY <1>1, <1>2, <1>3, <1>7 DEF RateBounded
<1>. QED
  BY <1>8

\* One more request goes to the first minute that is not full.
LEMMA FilledStep ==
  ASSUME config \in Configs, NEW n \in Nat, n < config.target * TargetMaxRpm, NEW c \in Columns
  PROVE  LET m == n \div TargetMaxRpm + 1
         IN  /\ m \in Columns
             /\ Filled(c, n) \in Nat
             /\ Filled(c, n + 1) = Filled(c, n) + (IF c = m THEN 1 ELSE 0)
<1>. DEFINE T == TargetMaxRpm
            q == n \div T
            r == n % T
            g == config.target
            lo == (c - 1) * T
            up == c * T
            qt == q * T
            qt1 == (q + 1) * T
<1>1. T \in Nat \ {0} /\ g \in Nat \ {0} /\ Columns = 1 .. g
  BY ConfigTyped DEF Columns
<1>2. q \in Nat /\ r \in 0 .. T - 1 /\ n = qt + r
  <2>. HIDE DEF T
  <2>. QED
    BY <1>1
<1>0. Filled(c, n) = Part(n, lo, up) /\ Filled(c, n + 1) = Part(n + 1, lo, up)
  BY DEF Filled
<1>. HIDE DEF q, r
<1>3. /\ lo \in Nat /\ up \in Nat /\ up = lo + T
      /\ qt \in Nat /\ qt1 \in Nat /\ qt1 = qt + T
  <2>. HIDE DEF T, g
  <2>. QED
    BY <1>1, <1>2
<1>4. q < g
  <2>. SUFFICES ASSUME g <= q PROVE FALSE
    BY <1>1, <1>2
  <2>1. g * T <= q * T /\ g * T \in Nat
    BY <1>1, <1>2, TimesOrder
  <2>. QED
    BY <1>2, <1>3, <2>1
<1>5. ASSUME c = q + 1
      PROVE  Filled(c, n) \in Nat /\ Filled(c, n + 1) = Filled(c, n) + (IF c = q + 1 THEN 1 ELSE 0)
  <2>1. lo = qt
    BY <1>2, <1>5
  <2>. HIDE DEF T, lo, up, qt, qt1
  <2>2. /\ n \in lo .. up - 1
        /\ n <= lo => n = lo
    BY <1>1, <1>2, <1>3, <2>1
  <2>3. Filled(c, n) = n - lo /\ Filled(c, n + 1) = n + 1 - lo
    BY <1>0, <1>1, <1>3, <2>2 DEF Part
  <2>4. Filled(c, n) \in Nat /\ Filled(c, n + 1) = Filled(c, n) + 1
    BY <1>3, <2>2, <2>3
  <2>. QED
    BY <1>5, <2>4
<1>6. ASSUME c < q + 1
      PROVE  Filled(c, n) \in Nat /\ Filled(c, n + 1) = Filled(c, n) + (IF c = q + 1 THEN 1 ELSE 0)
  <2>1. up <= qt
    BY <1>1, <1>2, <1>6, TimesOrder
  <2>. HIDE DEF T, lo, up, qt, qt1
  <2>2. Filled(c, n) = T /\ Filled(c, n + 1) = T
    BY <1>0, <1>1, <1>2, <1>3, <2>1 DEF Part
  <2>. QED
    BY <1>1, <1>2, <1>6, <2>2
<1>7. ASSUME c > q + 1
      PROVE  Filled(c, n) \in Nat /\ Filled(c, n + 1) = Filled(c, n) + (IF c = q + 1 THEN 1 ELSE 0)
  <2>1. qt1 <= lo
    BY <1>1, <1>2, <1>7, TimesOrder
  <2>. HIDE DEF T, lo, up, qt, qt1
  <2>2. Filled(c, n) = 0 /\ Filled(c, n + 1) = 0
    BY <1>0, <1>1, <1>2, <1>3, <2>1 DEF Part
  <2>. QED
    BY <1>1, <1>2, <1>7, <2>2
<1>8. q + 1 \in Columns /\ c \in 1 .. g
  BY <1>1, <1>2, <1>4
<1>9. /\ Filled(c, n) \in Nat
      /\ Filled(c, n + 1) = Filled(c, n) + (IF c = q + 1 THEN 1 ELSE 0)
  BY <1>1, <1>2, <1>5, <1>6, <1>7, <1>8
<1>. QED
  BY <1>8, <1>9 DEF q

\* The rows with one more request counted in minute m for a workload, new or not.
Counted(rs, D, C, m, wl) ==
  [w \in D \union {wl} |->
     IF w = wl THEN [(IF wl \in D THEN rs[wl] ELSE [c \in C |-> 0]) EXCEPT ![m] = @ + 1]
               ELSE rs[w]]

\* That adds one to the total of its minute and to no other.
LEMMA RowCounts ==
  ASSUME NEW D, IsFiniteSet(D), NEW C, NEW m \in C, NEW wl, NEW rs \in [D -> [C -> Nat]],
         NEW new, new = Counted(rs, D, C, m, wl)
  PROVE  /\ IsFiniteSet(DOMAIN new) /\ new \in [DOMAIN new -> [C -> Nat]]
         /\ \A c \in C : SumFunction([w \in DOMAIN new |-> new[w][c]])
                           = SumFunction([w \in D |-> rs[w][c]]) + (IF c = m THEN 1 ELSE 0)
<1>. DEFINE E == D \union {wl}
            old == IF wl \in D THEN rs[wl] ELSE [c \in C |-> 0]
<1>0. new = [w \in E |-> IF w = wl THEN [old EXCEPT ![m] = @ + 1] ELSE rs[w]]
  BY DEF Counted
<1>1. DOMAIN new = E
  BY <1>0
<1>2. IsFiniteSet(E)
  BY FS_AddElement
<1>3. old \in [C -> Nat] /\ new[wl] = [old EXCEPT ![m] = @ + 1]
  BY <1>0
<1>4. ASSUME NEW c \in C
      PROVE  /\ old[c] \in Nat
             /\ new[wl][c] = old[c] + (IF c = m THEN 1 ELSE 0)
             /\ wl \in D => old[c] = rs[wl][c]
             /\ wl \notin D => old[c] = 0
  <2>. HIDE DEF E
  <2>. QED
    BY <1>3
<1>5. \A w \in D : w # wl => new[w] = rs[w]
  BY <1>0
<1>6. ASSUME NEW w \in E PROVE new[w] \in [C -> Nat]
  <2>1. CASE w = wl
    <3>. HIDE DEF old
    <3>1. [old EXCEPT ![m] = @ + 1] \in [C -> Nat]
      BY <1>3
    <3>. QED
      BY <1>3, <2>1, <3>1
  <2>2. CASE w # wl
    BY <1>5, <2>2
  <2>. QED
    BY <2>1, <2>2
<1>7. new \in [E -> [C -> Nat]]
  BY <1>0, <1>6
<1>8. ASSUME NEW c \in C
      PROVE  SumFunction([w \in E |-> new[w][c]])
               = SumFunction([w \in D |-> rs[w][c]]) + (IF c = m THEN 1 ELSE 0)
  <2>. DEFINE f == [w \in D |-> rs[w][c]]
              h == [w \in E |-> new[w][c]]
              g == [w \in E |-> IF w \in D THEN rs[w][c] ELSE 0]
              A == IF c = m THEN {wl} ELSE {}
              d == [w \in E |-> IF w \in A THEN 1 ELSE 0]
  <2>1. \A w \in D : f[w] \in Int /\ g[w] = f[w]
    OBVIOUS
  <2>2. \A w \in E : g[w] \in Int
    OBVIOUS
  <2>3. \A w \in E \ D : g[w] = 0
    OBVIOUS
  <2>4. D \in SUBSET E /\ A \in SUBSET E
    OBVIOUS
  <2>5. \A w \in E : d[w] = IF w \in A THEN 1 ELSE 0
    OBVIOUS
  <2>6. \A w \in E : h[w] = g[w] + d[w]
    <3>. SUFFICES ASSUME NEW w \in E PROVE h[w] = g[w] + d[w]
      OBVIOUS
    <3>1. CASE w = wl
      <4>1. g[w] = old[c] /\ d[w] = IF c = m THEN 1 ELSE 0
        BY <1>4, <3>1
      <4>2. h[w] = new[wl][c]
        BY <3>1
      <4>. HIDE DEF g, d, h, old
      <4>. QED
        BY <1>4, <4>1, <4>2
    <3>2. CASE w # wl
      <4>1. w \in D /\ new[w] = rs[w]
        BY <1>5, <3>2
      <4>2. h[w] = rs[w][c] /\ g[w] = rs[w][c] /\ d[w] = 0 /\ rs[w][c] \in Nat
        BY <3>2, <4>1
      <4>. HIDE DEF g, d, h
      <4>. QED
        BY <4>2
    <3>. QED
      BY <3>1, <3>2
  <2>7. Cardinality(A) = IF c = m THEN 1 ELSE 0
    BY FS_EmptySet, FS_Singleton
  <2>8. /\ SumFunction([w \in E |-> new[w][c]]) = SumFunctionOnSet(h, E)
        /\ SumFunction([w \in D |-> rs[w][c]]) = SumFunctionOnSet(f, D)
    BY DEF SumFunction
  <2>. HIDE DEF f, h, g, A, d, E, old
  <2>9. \A w \in E : d[w] \in Int
    BY <2>5
  <2>10. SumFunctionOnSet(g, E) = SumFunctionOnSet(g, D)
    BY <1>2, <2>2, <2>3, <2>4, SumSupport
  <2>11. SumFunctionOnSet(f, D) = SumFunctionOnSet(g, D)
    BY <2>1, SumEqual
  <2>12. SumFunctionOnSet(h, E) = SumFunctionOnSet(g, E) + SumFunctionOnSet(d, E)
    BY <1>2, <2>2, <2>6, <2>9, SumPlus
  <2>13. SumFunctionOnSet(d, E) = Cardinality(A)
    BY <1>2, <2>4, <2>5, SumCounts
  <2>. QED
    BY <2>7, <2>8, <2>10, <2>11, <2>12, <2>13
<1>. QED
  BY <1>1, <1>2, <1>7, <1>8

\* What the program's steps may still disturb when the generator is at work.
ProgramInv == MapInv /\ BooksInv /\ GenInv /\ ScaleInv /\ SampleInv
                     /\ ThumbnailsConserve /\ RateBounded

\* When the mapping is made the mapper stands still.
LEMMA MapperDone ==
  ASSUME fpc = "mapped", [FMNext]_fmVars
  PROVE  UNCHANGED fmVars
BY DEF FMNext, GoBack, GoForward, Collect, InitialQuota, Assign, Balanced, Pick, Mapped

\* While it is not, the generator has not started.
LEMMA MapperStep ==
  ASSUME ProgramInv, [FMNext]_fmVars, UNCHANGED genVars
  PROVE  ProgramInv'
<1>1. MapInv' /\ BooksInv'
  BY MapStep, BooksStep DEF ProgramInv
<1>2. /\ trace' = trace /\ config' = config /\ gpc' = gpc /\ minutes' = minutes
      /\ rows' = rows /\ drawn' = drawn
  BY DEF FMNext, fmVars, genVars, GoBack, GoForward, Collect, InitialQuota, Assign, Balanced,
         Pick, Mapped
<1>3. gpc # "init" => fpc' = fpc
  BY MapperDone DEF ProgramInv, GenInv, fmVars
<1>4. Jobs' = Jobs /\ Columns' = Columns /\ TargetMaxRpm' = TargetMaxRpm
  BY <1>2 DEF Jobs, Columns, TargetMaxRpm
<1>5. GenInv' /\ ScaleInv' /\ ThumbnailsConserve'
  BY <1>2, <1>3, <1>4 DEF ProgramInv, GenInv, RowsComplete, ScaleInv, ThumbnailsConserve
<1>6. \A c, n : Filled(c, n)' = Filled(c, n')
  BY <1>4 DEF Filled, Part
<1>7. SampleInv'
  BY <1>2, <1>4, <1>6 DEF ProgramInv, SampleInv
<1>8. RateBounded'
  <2>1. \A c : TotalRpm(c)' = TotalRpm(c)
    BY <1>2, <1>4 DEF TotalRpm
  <2>2. MaxRpm' = MaxRpm
    BY <1>4, <2>1 DEF MaxRpm
  <2>. QED
    BY <1>2, <1>4, <2>1, <2>2 DEF ProgramInv, RateBounded
<1>. QED
  BY <1>1, <1>5, <1>7, <1>8 DEF ProgramInv

\* One draw.
LEMMA DrawStep ==
  ASSUME ProgramInv, NEW k, Draw(k)
  PROVE  GenInv' /\ SampleInv'
<1>. DEFINE D  == DOMAIN rows
            T  == TargetMaxRpm
            m  == drawn \div T + 1
            wl == WorkloadOf(InverseCdf(k))
<1>1. /\ gpc = "sample" /\ config \in Configs /\ config.mode = "smirnov"
      /\ drawn < config.target * T
      /\ UNCHANGED fmVars /\ config' = config /\ minutes' = minutes
      /\ gpc' \in {"sample", "failed"}
  BY DEF Draw, ProgramInv, GenInv, Fail
<1>2. /\ fpc' = fpc /\ trace' = trace /\ Jobs' = Jobs /\ Columns' = Columns
      /\ TargetMaxRpm' = TargetMaxRpm
  BY <1>1 DEF fmVars, Jobs, Columns, TargetMaxRpm
<1>3. GenInv'
  BY <1>1, <1>2 DEF ProgramInv, GenInv, RowsComplete
<1>4. CASE gpc' = "failed"
  BY <1>3, <1>4 DEF SampleInv
<1>5. CASE gpc' # "failed"
  <2>1. /\ gpc' = "sample" /\ drawn' = drawn + 1
        /\ rows' = Counted(rows, D, Columns, m, wl)
    BY <1>1, <1>5 DEF Draw, Fail, Counted
  <2>2. /\ drawn \in 0 .. config.target * T /\ IsFiniteSet(D)
        /\ rows \in [D -> [Columns -> Nat]]
        /\ \A c \in Columns : SumFunction([w \in D |-> rows[w][c]]) = Filled(c, drawn)
    BY <1>1 DEF ProgramInv, SampleInv
  <2>3. T \in Nat \ {0} /\ config.target \in Nat \ {0} /\ Columns = 1 .. config.target
    BY <1>1, ConfigTyped DEF Columns
  <2>4. config.target * T \in Nat /\ drawn \in Nat
    BY <2>2, <2>3
  <2>5. \A c \in Columns : /\ m \in Columns /\ Filled(c, drawn) \in Nat
                           /\ Filled(c, drawn + 1) = Filled(c, drawn) + (IF c = m THEN 1 ELSE 0)
    BY <1>1, <2>4, FilledStep
  <2>6. 1 \in Columns
    BY <2>3
  <2>. DEFINE x == config.target * T
  <2>. HIDE DEF D, T, m, wl, x
  <2>7. m \in Columns
    BY <2>5, <2>6
  <2>8. /\ IsFiniteSet(DOMAIN rows') /\ rows' \in [DOMAIN rows' -> [Columns -> Nat]]
        /\ \A c \in Columns : SumFunction([w \in DOMAIN rows' |-> rows'[w][c]])
                                = SumFunction([w \in D |-> rows[w][c]])
                                    + (IF c = m THEN 1 ELSE 0)
    BY <2>1, <2>2, <2>7, RowCounts
  <2>9. \A c \in Columns : SumFunction([w \in DOMAIN rows' |-> rows'[w][c]])
                              = Filled(c, drawn')
    BY <2>1, <2>2, <2>5, <2>8
  <2>10. drawn' \in 0 .. x
    BY <1>1, <2>1, <2>4 DEF x
  <2>11. \A c : Filled(c, drawn)' = Filled(c, drawn')
    BY <1>2 DEF Filled, Part
  <2>12. SampleInv'
    BY <1>1, <1>2, <2>1, <2>8, <2>9, <2>10, <2>11 DEF SampleInv, x, T
  <2>. QED
    BY <1>3, <2>12
<1>. QED
  BY <1>3, <1>4, <1>5

\* The steps of the generator.
LEMMA GeneratorStep ==
  ASSUME ProgramInv, [Next]_vars
  PROVE  ProgramInv'
<1>1. MapInv' /\ BooksInv'
  <2>1. [FMNext]_fmVars
    BY DEF Next, vars, NewGenerator, ScaleTime, Normalize, Draw, Sampled, Terminating
  <2>. QED
    BY <2>1, MapStep, BooksStep DEF ProgramInv
<1>2. CASE FMNext /\ UNCHANGED genVars
  BY <1>2, MapperStep
<1>3. CASE UNCHANGED vars
  BY <1>3, MapperStep DEF vars
<1>4. FMTypeOK
  BY DEF ProgramInv, MapInv
<1>5. CASE NewGenerator
  <2>1. /\ fpc = "mapped" /\ gpc = "init" /\ config' \in Configs
        /\ gpc' = IF config'.mode = "spec" THEN "scale" ELSE "sample"
        /\ fpc' = fpc /\ trace' = trace /\ Jobs' = Jobs /\ rows' = << >> /\ drawn' = 0
    BY <1>5 DEF NewGenerator, ProgramInv, GenInv, fmVars, Jobs
  <2>2. config' \in ConfigType
    BY <2>1, GeneratorAssumption
  <2>3. /\ config'.mode \in {"spec", "smirnov"} /\ config'.target \in Nat \ {0}
        /\ config'.rps \in Nat \ {0}
    BY <2>2 DEF ConfigType
  <2>4. GenInv' /\ ScaleInv' /\ ThumbnailsConserve' /\ RateBounded'
    BY <2>1, <2>3
       DEF GenInv, ProgramInv, RowsComplete, ScaleInv, ThumbnailsConserve, RateBounded
  <2>5. SampleInv'
    <3>1. (config.target * TargetMaxRpm)' \in Nat /\ TargetMaxRpm' \in Nat
          /\ Columns' = 1 .. config'.target
      BY <2>3, GeneratorAssumption DEF TargetMaxRpm, Columns
    <3>2. DOMAIN rows' = {} /\ IsFiniteSet(DOMAIN rows')
      BY <2>1, FS_EmptySet
    <3>3. \A c \in Columns' : SumFunction([w \in DOMAIN rows' |-> rows'[w][c]]) = 0
      BY <3>2, SumEmpty DEF SumFunction
    <3>4. \A c \in Columns' : Filled(c, drawn)' = 0
      <4>. SUFFICES ASSUME NEW c \in Columns' PROVE Filled(c, drawn)' = 0
        OBVIOUS
      <4>. DEFINE b == c - 1
                  t == TargetMaxRpm'
      <4>1. b \in Nat /\ t \in Nat
        BY <2>3, <3>1
      <4>. HIDE DEF b, t
      <4>2. b * t \in Nat
        BY <4>1
      <4>. QED
        BY <2>1, <4>2 DEF Filled, Part, b, t
    <3>5. rows' \in [DOMAIN rows' -> [Columns' -> Nat]]
      BY <2>1, <3>2
    <3>. QED
      BY <2>1, <3>1, <3>2, <3>3, <3>4, <3>5 DEF SampleInv
  <2>. QED
    BY <1>1, <2>4, <2>5 DEF ProgramInv
<1>6. CASE ScaleTime
  <2>1. /\ gpc = "scale" /\ config.mode = "spec" /\ gpc' \in {"normalize", "failed"}
        /\ config' = config /\ fpc' = fpc /\ trace' = trace /\ Jobs' = Jobs
    BY <1>6 DEF ScaleTime, Fail, ProgramInv, GenInv, fmVars, Jobs
  <2>2. GenInv'
    BY <2>1 DEF ProgramInv, GenInv, RowsComplete
  <2>3. ScaleInv' /\ ThumbnailsConserve'
    BY <1>4, <1>6, <2>1, ScaleStep DEF ProgramInv, ScaleInv, ThumbnailsConserve
  <2>4. SampleInv' /\ RateBounded'
    BY <2>1 DEF SampleInv, RateBounded
  <2>. QED
    BY <1>1, <2>2, <2>3, <2>4 DEF ProgramInv
<1>7. CASE Normalize
  <2>1. /\ gpc = "normalize" /\ config.mode = "spec" /\ gpc' \in {"done", "failed"}
        /\ config' = config /\ fpc' = fpc /\ trace' = trace /\ Jobs' = Jobs
    BY <1>7 DEF Normalize, Fail, ProgramInv, GenInv, fmVars, Jobs
  <2>2. GenInv'
    BY <2>1 DEF ProgramInv, GenInv, RowsComplete
  <2>3. RateBounded'
    BY <1>4, <1>7, <2>1, RateStep DEF ProgramInv, RateBounded
  <2>4. SampleInv' /\ ScaleInv' /\ ThumbnailsConserve'
    BY <2>1 DEF SampleInv, ScaleInv, ThumbnailsConserve
  <2>. QED
    BY <1>1, <2>2, <2>3, <2>4 DEF ProgramInv
<1>8. ASSUME NEW k, Draw(k) PROVE ProgramInv'
  <2>1. /\ GenInv' /\ SampleInv' /\ gpc' \in {"sample", "failed"}
    BY <1>8, DrawStep DEF Draw, Fail
  <2>2. ScaleInv' /\ ThumbnailsConserve' /\ RateBounded'
    BY <2>1 DEF ScaleInv, ThumbnailsConserve, RateBounded
  <2>. QED
    BY <1>1, <2>1, <2>2 DEF ProgramInv
<1>9. CASE Sampled
  <2>1. /\ gpc = "sample" /\ gpc' = "done" /\ config.mode = "smirnov"
        /\ drawn = config.target * TargetMaxRpm
        /\ config' = config /\ fpc' = fpc /\ trace' = trace /\ rows' = rows /\ drawn' = drawn
    BY <1>9 DEF Sampled, ProgramInv, GenInv, fmVars
  <2>2. Jobs' = Jobs /\ Columns' = Columns /\ TargetMaxRpm' = TargetMaxRpm
    BY <2>1 DEF Jobs, Columns, TargetMaxRpm
  <2>3. GenInv' /\ ScaleInv' /\ ThumbnailsConserve' /\ RateBounded'
    BY <2>1, <2>2
       DEF ProgramInv, GenInv, RowsComplete, ScaleInv, ThumbnailsConserve, RateBounded
  <2>4. \A c : Filled(c, drawn)' = Filled(c, drawn)
    BY <2>1, <2>2 DEF Filled, Part
  <2>5. SampleInv'
    BY <2>1, <2>2, <2>4 DEF ProgramInv, SampleInv
  <2>. QED
    BY <1>1, <2>3, <2>5 DEF ProgramInv
<1>. QED
  BY <1>2, <1>3, <1>5, <1>6, <1>7, <1>8, <1>9 DEF Next, Terminating

\* The running sums of the distribution grow from 0 by the invocations of one
\* function after the other.
LEMMA CdfGrows ==
  ASSUME FMTypeOK
  PROVE  /\ \A j \in 0 .. Len(trace) : CdfY(j) \in Nat
         /\ \A a, b \in 0 .. Len(trace) : a <= b => CdfY(a) <= CdfY(b)
         /\ CdfY(0) = 0
         /\ \A i \in Jobs : trace[i].inv \in Nat /\ CdfY(i) = CdfY(i - 1) + trace[i].inv
<1>. DEFINE f == [i \in Jobs |-> trace[i].inv]
            L == Len(trace)
<1>1. L \in Nat \ {0} /\ Jobs = 1 .. L
  BY Basics
<1>2. \A i \in Jobs : f[i] \in Nat /\ f[i] = trace[i].inv
  BY SupplyType
<1>3. \A j : CdfY(j) = SumFunctionOnSet(f, 1 .. j)
  BY DEF CdfY, Supply
<1>. HIDE DEF f, L
<1>4. ASSUME NEW j \in 0 .. L
      PROVE  IsFiniteSet(1 .. j) /\ (\A i \in 1 .. j : f[i] \in Nat) /\ CdfY(j) \in Nat
  <2>1. IsFiniteSet(1 .. j)
    BY <1>1, FS_Interval
  <2>2. \A i \in 1 .. j : f[i] \in Nat
    BY <1>1, <1>2
  <2>. QED
    BY <1>3, <2>1, <2>2, SumNat
<1>5. ASSUME NEW a \in 0 .. L, NEW b \in 0 .. L, a <= b
      PROVE  CdfY(a) <= CdfY(b)
  <2>1. (1 .. a) \in SUBSET (1 .. b)
    BY <1>1, <1>5
  <2>. QED
    BY <1>3, <1>4, <2>1, SumSubset
<1>6. CdfY(0) = 0
  <2>1. 1 .. 0 = {}
    OBVIOUS
  <2>. QED
    BY <1>3, <2>1, SumEmpty
<1>7. ASSUME NEW i \in Jobs
      PROVE  CdfY(i) = CdfY(i - 1) + trace[i].inv
  <2>. DEFINE n == i - 1
  <2>1. n \in Nat /\ n + 1 = i /\ i \in 0 .. L
    BY <1>1
  <2>2. \A k \in 1 .. n + 1 : f[k] \in Int
    BY <1>4, <2>1
  <2>. HIDE DEF n
  <2>3. SumFunctionOnSet(f, 1 .. n + 1) = SumFunctionOnSet(f, 1 .. n) + f[n + 1]
    BY <2>1, <2>2, SumUpTo
  <2>. QED
    BY <1>2, <1>3, <2>1, <2>3 DEF n
<1>. QED
  BY <1>2, <1>4, <1>5, <1>6, <1>7 DEF L

\* How many numbers an interval has.
LEMMA IntervalSize ==
  ASSUME NEW a \in Int, NEW b \in Int, a <= b + 1
  PROVE  IsFiniteSet(a .. b) /\ Cardinality(a .. b) = b - a + 1
<1>1. IsFiniteSet(a .. b)
  BY FS_Interval
<1>2. Cardinality(a .. b) = IF a > b THEN 0 ELSE b - a + 1
  BY FS_Interval
<1>. QED
  BY <1>1, <1>2

\* bisect finds the function whose step a number falls on.
LEMMA BisectIs ==
  ASSUME FMTypeOK, NEW i \in Jobs, NEW k \in Nat
  PROVE  Bisect(k) = i <=> k \in CdfY(i - 1) .. CdfY(i) - 1
<1>. DEFINE L == Len(trace)
            A == {j \in 0 .. L : CdfY(j) <= k}
<1>1. /\ L \in Nat \ {0} /\ i \in 1 .. L /\ i - 1 \in 0 .. L /\ i \in 0 .. L
  BY Basics
<1>2. /\ \A j \in 0 .. L : CdfY(j) \in Nat
      /\ \A a, b \in 0 .. L : a <= b => CdfY(a) <= CdfY(b)
  BY CdfGrows
<1>3. Bisect(k) = Cardinality(A)
  BY DEF Bisect
<1>4. IsFiniteSet(A) /\ A \in SUBSET (0 .. L)
  <2>1. IsFiniteSet(0 .. L)
    BY <1>1, FS_Interval
  <2>. QED
    BY <2>1, FS_Subset
<1>5. Cardinality(A) \in Nat
  BY <1>4, FS_CardinalityType
<1>6. CASE k < CdfY(i - 1)
  <2>1. A \in SUBSET (0 .. i - 2)
    BY <1>1, <1>2, <1>6
  <2>2. IsFiniteSet(0 .. i - 2) /\ Cardinality(0 .. i - 2) = i - 1
    <3>1. 0 \in Int /\ i - 2 \in Int /\ 0 <= i - 2 + 1 /\ i - 2 - 0 + 1 = i - 1
      BY <1>1
    <3>. QED
      BY <3>1, IntervalSize
  <2>. HIDE DEF A, L
  <2>3. Cardinality(A) <= i - 1
    BY <2>1, <2>2, FS_Subset
  <2>. QED
    BY <1>1, <1>2, <1>3, <1>5, <1>6, <2>3
<1>7. CASE CdfY(i) <= k
  <2>1. (0 .. i) \in SUBSET A
    BY <1>1, <1>2, <1>7
  <2>2. Cardinality(0 .. i) = i + 1
    BY <1>1, FS_Interval
  <2>. HIDE DEF A, L
  <2>3. i + 1 <= Cardinality(A)
    BY <1>4, <2>1, <2>2, FS_Subset
  <2>. QED
    BY <1>1, <1>2, <1>3, <1>5, <1>7, <2>3
<1>8. CASE CdfY(i - 1) <= k /\ k < CdfY(i)
  <2>1. \A j \in 0 .. L : CdfY(j) <= k <=> j <= i - 1
    <3>. SUFFICES ASSUME NEW j \in 0 .. L PROVE CdfY(j) <= k <=> j <= i - 1
      OBVIOUS
    <3>1. CASE j <= i - 1
      BY <1>1, <1>2, <1>8, <3>1
    <3>2. CASE j > i - 1
      <4>1. i <= j
        BY <1>1, <3>2
      <4>. QED
        BY <1>1, <1>2, <1>8, <3>2, <4>1
    <3>. QED
      BY <1>1, <3>1, <3>2
  <2>2. A = 0 .. i - 1
    BY <1>1, <2>1
  <2>3. Cardinality(0 .. i - 1) = i
    BY <1>1, FS_Interval
  <2>4. Bisect(k) = i
    BY <1>3, <2>2, <2>3
  <2>. HIDE DEF A, L
  <2>. QED
    BY <1>1, <1>2, <1>8, <2>4
<1>9. CdfY(i - 1) \in Nat /\ CdfY(i) \in Nat
  BY <1>1, <1>2
<1>. QED
  BY <1>6, <1>7, <1>8, <1>9

\* So as many numbers fall on a function's step as it has invocations.
LEMMA SharesExact == FMTypeOK => SamplesProportional
<1>. SUFFICES ASSUME FMTypeOK, WholeDurations, NEW i \in Jobs
              PROVE  Cardinality({k \in 0 .. Weight - 1 :
                        Bisect(k) \in Jobs /\ InverseCdf(k) = Dur(i)}) = trace[i].inv
  BY DEF SamplesProportional
<1>1. /\ Len(trace) \in Nat \ {0} /\ Jobs = 1 .. Len(trace)
      /\ \A j \in Jobs : Dur(j) \in Nat
      /\ \A j, l \in Jobs : j < l => Dur(j) < Dur(l)
  BY TraceType DEF FMTypeOK
<1>2. /\ CdfY(i - 1) \in Nat /\ CdfY(i) \in Nat /\ CdfY(i) <= Weight /\ Weight \in Nat
      /\ trace[i].inv \in Nat /\ CdfY(i) = CdfY(i - 1) + trace[i].inv
  BY <1>1, CdfGrows DEF Weight
<1>3. \A j \in Jobs : Ms * (Dur(j) \div Ms) = Dur(j)
  <2>. SUFFICES ASSUME NEW j \in Jobs PROVE Ms * (Dur(j) \div Ms) = Dur(j)
    OBVIOUS
  <2>. DEFINE d == Dur(j)
  <2>1. d \in Nat /\ d % Ms = 0 /\ Ms \in Nat \ {0}
    BY <1>1, GeneratorAssumption DEF WholeDurations
  <2>. HIDE DEF d
  <2>2. d = Ms * (d \div Ms) + (d % Ms)
    BY <2>1
  <2>3. Ms * (d \div Ms) \in Int
    BY <2>1
  <2>4. Ms * (d \div Ms) = d
    BY <2>1, <2>2, <2>3
  <2>. QED
    BY <2>4 DEF d
<1>4. ASSUME NEW k \in 0 .. Weight - 1
      PROVE  (Bisect(k) \in Jobs /\ InverseCdf(k) = Dur(i)) <=> Bisect(k) = i
  <2>1. \A j \in Jobs : Dur(j) = Dur(i) => j = i
    <3>. SUFFICES ASSUME NEW j \in Jobs, Dur(j) = Dur(i) PROVE j = i
      OBVIOUS
    <3>1. j < i \/ i < j \/ j = i
      BY <1>1
    <3>. QED
      BY <1>1, <3>1
  <2>2. Bisect(k) \in Jobs => InverseCdf(k) = Dur(Bisect(k))
    BY <1>3 DEF InverseCdf
  <2>. QED
    BY <2>1, <2>2
<1>5. \A k \in 0 .. Weight - 1 : Bisect(k) = i <=> k \in CdfY(i - 1) .. CdfY(i) - 1
  BY <1>2, BisectIs
<1>6. {k \in 0 .. Weight - 1 : Bisect(k) \in Jobs /\ InverseCdf(k) = Dur(i)}
        = CdfY(i - 1) .. CdfY(i) - 1
  BY <1>2, <1>4, <1>5
<1>7. Cardinality(CdfY(i - 1) .. CdfY(i) - 1) = trace[i].inv
  <2>. DEFINE a == CdfY(i - 1)
              b == CdfY(i) - 1
  <2>1. a \in Int /\ b \in Int /\ a <= b + 1 /\ b - a + 1 = trace[i].inv
    BY <1>2
  <2>. HIDE DEF a, b
  <2>2. Cardinality(a .. b) = trace[i].inv
    BY <2>1, IntervalSize
  <2>. QED
    BY <2>2 DEF a, b
<1>. QED
  BY <1>6, <1>7

\* When all is drawn every minute is full.
LEMMA AllFilled == ProgramInv => ConstantRate
<1>. SUFFICES ASSUME ProgramInv, gpc = "done", config.mode = "smirnov", NEW c \in Columns
              PROVE  SumFunction([w \in DOMAIN rows |-> rows[w][c]]) = TargetMaxRpm
  BY DEF ConstantRate
<1>. DEFINE T == TargetMaxRpm
            n == config.target
            lo == (c - 1) * T
            up == c * T
            all == n * T
<1>1. T \in Nat \ {0} /\ n \in Nat \ {0} /\ c \in 1 .. n
  BY ConfigTyped DEF ProgramInv, GenInv, Columns
<1>2. SumFunction([w \in DOMAIN rows |-> rows[w][c]]) = Part(all, lo, up)
  BY DEF ProgramInv, SampleInv, Filled
<1>3. up <= all /\ up \in Nat /\ all \in Nat /\ lo \in Nat
  BY <1>1, TimesOrder
<1>4. up = lo + T
  <2>. HIDE DEF T
  <2>. QED
    BY <1>1
<1>. HIDE DEF T, lo, up, all
<1>5. Part(all, lo, up) = T
  BY <1>1, <1>3, <1>4 DEF Part
<1>. QED
  BY <1>2, <1>5 DEF T

-----------------------------------------------------------------------------
(* The preprocessing *)

\* The keys of a finite set of numbers are the set, in order.
LEMMA KthKeys ==
  ASSUME NEW S \in SUBSET Nat, IsFiniteSet(S)
  PROVE  LET n == Cardinality(S)
         IN  /\ n \in Nat
             /\ \A k \in 1 .. n : KthKey(S, k) \in S
             /\ \A j, k \in 1 .. n : j < k => KthKey(S, j) < KthKey(S, k)
             /\ \A x \in S : \E k \in 1 .. n : KthKey(S, k) = x
<1>. DEFINE n == Cardinality(S)
            below(x) == {y \in S : y < x}
            rank == [x \in S |-> Cardinality(below(x))]
<1>1. n \in Nat
  BY FS_CardinalityType
<1>2. ASSUME NEW x \in S
      PROVE  /\ IsFiniteSet(below(x)) /\ rank[x] = Cardinality(below(x))
             /\ rank[x] \in 0 .. n - 1
  <2>1. below(x) \in SUBSET (S \ {x}) /\ below(x) \in SUBSET S
    OBVIOUS
  <2>2. IsFiniteSet(S \ {x}) /\ Cardinality(S \ {x}) = n - 1
    BY FS_RemoveElement
  <2>3. rank[x] = Cardinality(below(x))
    OBVIOUS
  <2>. HIDE DEF n, below, rank
  <2>4. IsFiniteSet(below(x)) /\ Cardinality(below(x)) <= n - 1
    BY <2>1, <2>2, FS_Subset
  <2>5. Cardinality(below(x)) \in Nat
    BY <2>4, FS_CardinalityType
  <2>. QED
    BY <1>1, <2>3, <2>4, <2>5
<1>3. ASSUME NEW x \in S, NEW z \in S, x < z
      PROVE  rank[x] < rank[z]
  <2>0. (\A y \in S : y < x => y < z) /\ ~(x < x)
    <3>1. x \in Nat /\ z \in Nat /\ \A y \in S : y \in Nat
      OBVIOUS
    <3>. QED
      BY <1>3, <3>1
  <2>1. below(x) \in SUBSET below(z) /\ x \in below(z) /\ x \notin below(x)
    BY <1>3, <2>0, Zenon
  <2>2. below(x) # below(z)
    BY <2>1
  <2>. HIDE DEF below, rank
  <2>3. /\ Cardinality(below(x)) <= Cardinality(below(z))
        /\ Cardinality(below(x)) # Cardinality(below(z))
    BY <1>2, <2>1, <2>2, FS_Subset
  <2>. QED
    BY <1>2, <2>3
<1>4. DOMAIN rank = S
  OBVIOUS
<1>. HIDE DEF rank, below, n
<1>5. \A x, z \in S : rank[x] = rank[z] => x = z
  <2>. SUFFICES ASSUME NEW x \in S, NEW z \in S, rank[x] = rank[z] PROVE x = z
    OBVIOUS
  <2>1. x < z \/ z < x \/ x = z
    OBVIOUS
  <2>2. rank[x] \in Int /\ rank[z] \in Int
    BY <1>2
  <2>. QED
    BY <1>3, <2>1, <2>2
<1>6. \A k \in 1 .. n : \E x \in S : rank[x] = k - 1
  <2>. DEFINE U == 0 .. n - 1
  <2>1. IsFiniteSet(U) /\ Cardinality(U) = n
    <3>1. 0 \in Int /\ n - 1 \in Int /\ 0 <= n - 1 + 1 /\ n - 1 - 0 + 1 = n
      BY <1>1
    <3>. QED
      BY <3>1, IntervalSize
  <2>2. rank \in [S -> U]
    <3>1. rank = [x \in S |-> rank[x]]
      BY <1>4 DEF rank
    <3>. QED
      BY <1>2, <3>1
  <2>. HIDE DEF U
  <2>3. rank \in Injection(S, U)
    BY <1>5, <2>2 DEF Injection, IsInjective
  <2>4. rank \in Surjection(S, U)
    <3>1. Cardinality(S) = Cardinality(U)
      BY <2>1 DEF n
    <3>. QED
      BY <2>1, <2>3, <3>1, FS_Injection
  <2>5. \A u \in U : \E x \in S : rank[x] = u
    BY <2>4 DEF Surjection
  <2>. QED
    BY <1>1, <2>5 DEF U
<1>7. ASSUME NEW k \in 1 .. n
      PROVE  KthKey(S, k) \in S /\ rank[KthKey(S, k)] = k - 1
  <2>1. \E x \in S : Cardinality({y \in S : y < x}) = k - 1
    BY <1>2, <1>6 DEF below
  <2>2. KthKey(S, k) \in S /\ Cardinality({y \in S : y < KthKey(S, k)}) = k - 1
    BY <2>1 DEF KthKey
  <2>. QED
    BY <1>2, <2>2 DEF below
<1>8. ASSUME NEW j \in 1 .. n, NEW k \in 1 .. n, j < k
      PROVE  KthKey(S, j) < KthKey(S, k)
  <2>. DEFINE x == KthKey(S, j)
              z == KthKey(S, k)
  <2>1. x \in S /\ z \in S /\ rank[x] = j - 1 /\ rank[z] = k - 1
    BY <1>7
  <2>. HIDE DEF x, z
  <2>2. ~(rank[z] < rank[x]) /\ x # z
    BY <1>1, <1>8, <2>1
  <2>3. x < z \/ z < x
    BY <2>1, <2>2
  <2>4. x < z
    BY <1>3, <2>1, <2>2, <2>3
  <2>. QED
    BY <2>4 DEF x, z
<1>9. ASSUME NEW x \in S
      PROVE  \E k \in 1 .. n : KthKey(S, k) = x
  <2>. DEFINE k == rank[x] + 1
  <2>1. k \in 1 .. n /\ k - 1 = rank[x]
    BY <1>1, <1>2
  <2>. HIDE DEF k
  <2>2. KthKey(S, k) = x
    BY <1>5, <1>7, <2>1
  <2>. QED
    BY <2>1, <2>2
<1>. QED
  BY <1>1, <1>7, <1>8, <1>9 DEF n

\* The durations of a day, the rows that have one of them, and their invocations
\* in a minute.
DurationsIn(day) == {DurMs(day.durs[p[1]]) : p \in Joined(day)}
RowsWith(day, dur) == {p \in Joined(day) : DurMs(day.durs[p[1]]) = dur}
MinuteOf(day, dur, m) == SumFunction([p \in RowsWith(day, dur) |-> day.invs[p[2]].rpm[m]])

\* The rows that were joined are finitely many, with valid counts and durations.
LEMMA JoinedRows ==
  ASSUME NEW day, IsDay(day)
  PROVE  /\ IsFiniteSet(Joined(day))
         /\ \A v \in DOMAIN day.invs : DOMAIN day.invs[v].rpm = 1 .. TotalMinutes
         /\ \A p \in Joined(day) :
              /\ p[1] \in FunctionDurations(day) /\ p[2] \in InvocationsPerFunction(day)
              /\ DurMs(day.durs[p[1]]) \in Nat
              /\ \A m \in 1 .. TotalMinutes : day.invs[p[2]].rpm[m] \in Nat
<1>1. IsFiniteSet(FunctionDurations(day)) /\ IsFiniteSet(InvocationsPerFunction(day))
  <2>1. /\ FunctionDurations(day) \in SUBSET DOMAIN day.durs
        /\ InvocationsPerFunction(day) \in SUBSET DOMAIN day.invs
    BY DEF FunctionDurations, InvocationsPerFunction
  <2>. QED
    BY <2>1, FS_Subset DEF IsDay
<1>2. IsFiniteSet(Joined(day))
  <2>1. IsFiniteSet(FunctionDurations(day) \X InvocationsPerFunction(day))
    BY <1>1, FS_Product
  <2>2. Joined(day) \in SUBSET (FunctionDurations(day) \X InvocationsPerFunction(day))
    BY DEF Joined
  <2>. QED
    BY <2>1, <2>2, FS_Subset
<1>3. ASSUME NEW v \in DOMAIN day.invs
      PROVE  /\ DOMAIN day.invs[v].rpm = 1 .. TotalMinutes
             /\ \A m \in 1 .. TotalMinutes : day.invs[v].rpm[m] \in Int
  <2>1. day.invs[v].rpm \in Seq(Int) /\ Len(day.invs[v].rpm) = TotalMinutes
    BY DEF IsDay
  <2>. QED
    BY <2>1, ElementOfSeq, LenProperties
<1>4. ASSUME NEW p \in Joined(day)
      PROVE  /\ p[1] \in FunctionDurations(day) /\ p[2] \in InvocationsPerFunction(day)
             /\ DurMs(day.durs[p[1]]) \in Nat
             /\ \A m \in 1 .. TotalMinutes : day.invs[p[2]].rpm[m] \in Nat
  <2>1. /\ p[1] \in FunctionDurations(day) /\ p[2] \in InvocationsPerFunction(day)
        /\ DurMs(day.durs[p[1]]) >= 0
    BY DEF Joined
  <2>2. p[1] \in DOMAIN day.durs /\ p[2] \in DOMAIN day.invs
    BY <2>1 DEF FunctionDurations, InvocationsPerFunction
  <2>3. DurMs(day.durs[p[1]]) \in Int
    BY <2>2 DEF DurMs, IsDay
  <2>4. \A m \in 1 .. TotalMinutes : day.invs[p[2]].rpm[m] >= 0
    BY <1>3, <2>1, <2>2 DEF InvocationsPerFunction
  <2>. QED
    BY <1>3, <2>1, <2>2, <2>3, <2>4
<1>. QED
  BY <1>2, <1>3, <1>4

\* So the durations are, too, and so are the rows of one of them.
LEMMA DurationsFinite ==
  ASSUME NEW day, IsDay(day)
  PROVE  /\ DurationsIn(day) \in SUBSET Nat /\ IsFiniteSet(DurationsIn(day))
         /\ \A dur : /\ IsFiniteSet(RowsWith(day, dur))
                    /\ \A m \in 1 .. TotalMinutes : MinuteOf(day, dur, m) \in Nat
<1>. DEFINE J == Joined(day)
            D == DurationsIn(day)
            f == [p \in J |-> DurMs(day.durs[p[1]])]
<1>1. D \in SUBSET Nat
  BY JoinedRows DEF DurationsIn
<1>2. IsFiniteSet(D)
  <2>1. f \in Surjection(J, D)
    BY DEF Surjection, DurationsIn
  <2>2. IsFiniteSet(J)
    BY JoinedRows
  <2>. HIDE DEF f, J, D
  <2>. QED
    BY <2>1, <2>2, FS_Surjection
<1>3. ASSUME NEW dur
      PROVE  /\ IsFiniteSet(RowsWith(day, dur))
             /\ \A m \in 1 .. TotalMinutes : MinuteOf(day, dur, m) \in Nat
  <2>1. RowsWith(day, dur) \in SUBSET J
    BY DEF RowsWith
  <2>2. IsFiniteSet(RowsWith(day, dur))
    BY <2>1, JoinedRows, FS_Subset
  <2>3. ASSUME NEW m \in 1 .. TotalMinutes
        PROVE  MinuteOf(day, dur, m) \in Nat
    <3>. DEFINE S == RowsWith(day, dur)
                g == [p \in S |-> day.invs[p[2]].rpm[m]]
    <3>1. \A p \in S : g[p] \in Nat
      BY <2>1, JoinedRows
    <3>2. MinuteOf(day, dur, m) = SumFunctionOnSet(g, S)
      BY DEF MinuteOf, SumFunction
    <3>. HIDE DEF g
    <3>. QED
      BY <2>2, <3>1, <3>2, SumNat
  <2>. QED
    BY <2>2, <2>3
<1>. QED
  BY <1>1, <1>2, <1>3

\* The trace that azure_trace_preprocess makes has a row for each duration, in
\* order, with the invocations of all rows of that duration.
LEMMA DayTrace ==
  ASSUME NEW day, IsDay(day), AzureTrace(day) # << >>
  PROVE  /\ IsTrace(AzureTrace(day))
         /\ DOMAIN AzureTrace(day) = 1 .. Cardinality(DurationsIn(day))
         /\ \A i \in DOMAIN AzureTrace(day) :
              LET row == AzureTrace(day)[i]
              IN  /\ row.dur = KthKey(DurationsIn(day), i)
                  /\ Len(row.rpm) = TotalMinutes
                  /\ row.inv = SumFunction(row.rpm)
                  /\ \A m \in 1 .. TotalMinutes : row.rpm[m] = MinuteOf(day, row.dur, m)
<1>. DEFINE n == Cardinality(DurationsIn(day))
            D == DurationsIn(day)
            T == AzureTrace(day)
            C == 1 .. TotalMinutes
<1>1. T = [k \in 1 .. n |->
             [dur |-> KthKey(D, k),
              rpm |-> [m \in DOMAIN day.invs[1].rpm |-> MinuteOf(day, KthKey(D, k), m)],
              inv |-> SumFunction([m \in DOMAIN day.invs[1].rpm |->
                                     MinuteOf(day, KthKey(D, k), m)])]]
  BY DEF AzureTrace, DurationsIn, MinuteOf, RowsWith
<1>2. DOMAIN day.invs[1].rpm = C
  BY JoinedRows DEF IsDay
<1>3. D \in SUBSET Nat /\ IsFiniteSet(D)
  BY DurationsFinite
<1>4. /\ n \in Nat
      /\ \A k \in 1 .. n : KthKey(D, k) \in D
      /\ \A j, k \in 1 .. n : j < k => KthKey(D, j) < KthKey(D, k)
  <2>. HIDE DEF D
  <2>. QED
    BY <1>3, KthKeys DEF D
<1>5. \A dur : \A m \in C : MinuteOf(day, dur, m) \in Nat
  BY DurationsFinite
<1>. HIDE DEF n, D, T
<1>6. ASSUME NEW i \in 1 .. n
      PROVE  /\ T[i] = [dur |-> T[i].dur, rpm |-> T[i].rpm, inv |-> T[i].inv]
             /\ T[i].dur = KthKey(D, i) /\ T[i].dur \in Nat
             /\ T[i].rpm \in [C -> Nat]
             /\ \A m \in C : T[i].rpm[m] = MinuteOf(day, T[i].dur, m)
             /\ T[i].inv = SumFunction(T[i].rpm)
  <2>. DEFINE rpm == [m \in C |-> MinuteOf(day, KthKey(D, i), m)]
  <2>1. rpm \in [C -> Nat] /\ \A m \in C : rpm[m] = MinuteOf(day, KthKey(D, i), m)
    BY <1>5
  <2>2. T[i] = [dur |-> KthKey(D, i), rpm |-> rpm, inv |-> SumFunction(rpm)]
    BY <1>1, <1>2
  <2>. HIDE DEF rpm
  <2>3. KthKey(D, i) \in Nat
    BY <1>3, <1>4
  <2>. QED
    BY <2>1, <2>2, <2>3
<1>7. ASSUME NEW i \in 1 .. n
      PROVE  /\ T[i].rpm \in Seq(Nat) /\ Len(T[i].rpm) = TotalMinutes
             /\ T[i].inv \in Nat
  <2>1. TotalMinutes \in Nat
    BY GeneratorAssumption
  <2>2. T[i].rpm \in Seq(Nat)
    BY <1>6, <2>1, SeqDef
  <2>. DEFINE f == T[i].rpm
  <2>3. f \in [C -> Nat] /\ T[i].inv = SumFunction(f)
    BY <1>6
  <2>4. IsFiniteSet(C)
    BY <2>1, FS_Interval
  <2>. HIDE DEF f
  <2>5. Len(f) = TotalMinutes
    <3>1. f \in Seq(Nat) /\ DOMAIN f = 1 .. TotalMinutes
      BY <2>2, <2>3 DEF f
    <3>2. Len(f) \in Nat /\ 1 .. Len(f) = 1 .. TotalMinutes
      BY <3>1, LenProperties
    <3>. HIDE DEF f
    <3>3. TotalMinutes \in 1 .. TotalMinutes /\ (Len(f) > 0 => Len(f) \in 1 .. Len(f))
      BY <3>2, GeneratorAssumption
    <3>4. TotalMinutes \in 1 .. Len(f) /\ (Len(f) > 0 => Len(f) \in 1 .. TotalMinutes)
      BY <3>2, <3>3, Zenon
    <3>. QED
      BY <2>1, <3>2, <3>4
  <2>. HIDE DEF C
  <2>6. SumFunctionOnSet(f, C) \in Nat
    BY <2>3, <2>4, SumNat
  <2>. QED
    BY <2>2, <2>3, <2>5, <2>6 DEF SumFunction, f
<1>8. DOMAIN T = 1 .. n /\ T = [k \in 1 .. n |-> T[k]]
  BY <1>1
<1>9. IsTrace(T)
  <2>. DEFINE Fns == [dur : Nat, rpm : Seq(Nat), inv : Nat]
  <2>1. ASSUME NEW i \in 1 .. n PROVE T[i] \in Fns
    <3>1. /\ T[i] = [dur |-> T[i].dur, rpm |-> T[i].rpm, inv |-> T[i].inv]
          /\ T[i].dur \in Nat /\ T[i].rpm \in Seq(Nat) /\ T[i].inv \in Nat
      BY <1>6, <1>7
    <3>. DEFINE x == T[i].dur
                y == T[i].rpm
                z == T[i].inv
    <3>. HIDE DEF x, y, z
    <3>2. [dur |-> x, rpm |-> y, inv |-> z] \in Fns
      BY <3>1 DEF x, y, z
    <3>. QED
      BY <3>1, <3>2, Zenon DEF x, y, z
  <2>. HIDE DEF Fns
  <2>2. T \in [1 .. n -> Fns]
    BY <1>8, <2>1
  <2>3. T \in Seq(Fns)
    BY <1>4, <2>2, SeqDef
  <2>4. T # << >>
    BY DEF T
  <2>5. \A i, j \in DOMAIN T : i < j => T[i].dur < T[j].dur
    BY <1>4, <1>6, <1>8
  <2>. QED
    BY <2>3, <2>4, <2>5 DEF IsTrace, Fns
<1>. QED
  BY <1>6, <1>7, <1>8, <1>9 DEF n, D, T

\* The times of a file of workloads, and a group of the table: the workloads of the
\* k-th time in some order.
TimesIn(file) == {file[w].mean : w \in DOMAIN file}
GroupsAt(file, k) ==
  {[time |-> KthKey(TimesIn(file), k), wls |-> [p \in DOMAIN order |-> file[order[p]].bench]] :
     order \in SetToSeqs({w \in DOMAIN file : file[w].mean = KthKey(TimesIn(file), k)})}

\* u lists the tables of the first k times, for every k up to n.
Longer(file, X, k) == {Append(t, g) : t \in X, g \in GroupsAt(file, k)}
Lists(u, file, n)  == u = [k \in 0 .. n |-> IF k = 0 THEN {<< >>} ELSE Longer(file, u[k - 1], k)]

\* The recursion of WorkloadTables has a solution.
LEMMA ListsExist == ASSUME NEW file, NEW n \in Nat PROVE \E u : Lists(u, file, n)
<1>. DEFINE T == {m \in Nat : \E u : Lists(u, file, m)}
<1>1. 0 \in T
  <2>. DEFINE u == [k \in 0 .. 0 |-> {<< >>}]
  <2>1. u = [k \in 0 .. 0 |-> IF k = 0 THEN {<< >>} ELSE Longer(file, u[k - 1], k)]
    OBVIOUS
  <2>. HIDE DEF u
  <2>2. Lists(u, file, 0)
    BY <2>1 DEF Lists
  <2>. QED
    BY <2>2
<1>2. ASSUME NEW m \in T PROVE m + 1 \in T
  <2>1. PICK u : Lists(u, file, m)
    OBVIOUS
  <2>. DEFINE v == [k \in 0 .. m + 1 |-> IF k <= m THEN u[k] ELSE Longer(file, u[m], m + 1)]
  <2>2. /\ \A k \in 0 .. m : v[k] = u[k]
        /\ v[m + 1] = Longer(file, u[m], m + 1)
    OBVIOUS
  <2>3. \A k \in 0 .. m : u[k] = IF k = 0 THEN {<< >>} ELSE Longer(file, u[k - 1], k)
    BY <2>1 DEF Lists
  <2>4. DOMAIN v = 0 .. m + 1 /\ v = [k \in 0 .. m + 1 |-> v[k]]
    OBVIOUS
  <2>. HIDE DEF v
  <2>5. \A k \in 0 .. m + 1 : v[k] = IF k = 0 THEN {<< >>} ELSE Longer(file, v[k - 1], k)
    <3>. SUFFICES ASSUME NEW k \in 0 .. m + 1
                  PROVE  v[k] = IF k = 0 THEN {<< >>} ELSE Longer(file, v[k - 1], k)
      OBVIOUS
    <3>1. CASE k = 0
      BY <2>2, <2>3, <3>1
    <3>2. CASE k # 0 /\ k <= m
      <4>1. k \in 0 .. m /\ k - 1 \in 0 .. m
        BY <3>2
      <4>. QED
        BY <2>2, <2>3, <3>2, <4>1
    <3>3. CASE k = m + 1
      <4>1. k # 0 /\ k - 1 = m /\ m \in 0 .. m
        BY <3>3
      <4>2. v[k] = Longer(file, v[k - 1], k)
        BY <2>2, <3>3, <4>1
      <4>. QED
        BY <4>1, <4>2
    <3>. QED
      BY <3>1, <3>2, <3>3
  <2>6. Lists(v, file, m + 1)
    BY <2>4, <2>5 DEF Lists
  <2>. QED
    BY <2>6
<1>3. T = Nat
  <2>. HIDE DEF T
  <2>1. T \in SUBSET Nat
    BY DEF T
  <2>. QED
    BY <1>1, <1>2, <2>1, NatSetInduction
<1>. QED
  BY <1>3

\* The tables of the first m times have a group for each of them, in order.
LEMMA ListedTables ==
  ASSUME NEW file, NEW n \in Nat, NEW u, Lists(u, file, n), NEW G,
         \A k \in 1 .. n : GroupsAt(file, k) \subseteq G
  PROVE  \A t \in u[n] : t \in Seq(G) /\ Len(t) = n /\ \A k \in 1 .. n : t[k] \in GroupsAt(file, k)
<1>. DEFINE Good(m, t) == /\ t \in Seq(G) /\ Len(t) = m
                         /\ \A k \in 1 .. m : t[k] \in GroupsAt(file, k)
            T == {m \in Nat : m <= n => \A t \in u[m] : Good(m, t)}
<1>1. \A k \in 0 .. n : u[k] = IF k = 0 THEN {<< >>} ELSE Longer(file, u[k - 1], k)
  BY DEF Lists
<1>2. 0 \in T
  <2>1. u[0] = {<< >>}
    BY <1>1
  <2>2. Good(0, << >>)
    BY EmptySeq
  <2>. QED
    BY <2>1, <2>2
<1>3. ASSUME NEW m \in T PROVE m + 1 \in T
  <2>. SUFFICES ASSUME m + 1 <= n, NEW s \in u[m + 1] PROVE Good(m + 1, s)
    OBVIOUS
  <2>1. m \in Nat /\ m <= n /\ m + 1 \in 0 .. n /\ m + 1 \in 1 .. n /\ m + 1 # 0 /\ m + 1 - 1 = m
    OBVIOUS
  <2>2. u[m + 1] = Longer(file, u[m], m + 1)
    BY <1>1, <2>1
  <2>3. PICK t \in u[m], g \in GroupsAt(file, m + 1) : s = Append(t, g)
    BY <2>2 DEF Longer
  <2>4. Good(m, t)
    BY <2>1
  <2>5. g \in G
    BY <2>1
  <2>6. s \in Seq(G) /\ Len(s) = m + 1 /\ s[m + 1] = g /\ \A k \in 1 .. m : s[k] = t[k]
    BY <2>3, <2>4, <2>5, AppendProperties
  <2>7. \A k \in 1 .. m + 1 : k \in 1 .. m \/ k = m + 1
    BY <2>1
  <2>. QED
    BY <2>4, <2>6, <2>7
<1>4. T = Nat
  <2>1. T \in SUBSET Nat
    OBVIOUS
  <2>. HIDE DEF T
  <2>. QED
    BY <1>2, <1>3, <2>1, NatSetInduction
<1>. QED
  BY <1>4

\* What workloads_preprocess makes of a file is a table: its times are in order and
\* each has a workload.
LEMMA FileTables ==
  ASSUME NEW file, IsProfile(file), NEW W \in WorkloadTables(file)
  PROVE  IsTable(W)
<1>. DEFINE S == TimesIn(file)
            n == Cardinality(S)
            G == [time : Nat, wls : Seq(STRING) \ {<< >>}]
            u == CHOOSE v : Lists(v, file, n)
<1>1. /\ Len(file) \in Nat \ {0} /\ DOMAIN file = 1 .. Len(file)
      /\ \A w \in DOMAIN file : file[w].mean \in Nat /\ file[w].bench \in STRING
  <2>. DEFINE R == [mean : Nat, bench : STRING]
  <2>1. file \in Seq(R) /\ file # << >>
    BY DEF IsProfile
  <2>2. Len(file) \in Nat \ {0} /\ DOMAIN file = 1 .. Len(file)
    BY <2>1, EmptySeq, LenProperties
  <2>3. \A w \in 1 .. Len(file) : file[w] \in R
    BY <2>1, ElementOfSeq
  <2>. QED
    BY <2>2, <2>3
<1>2. S \in SUBSET Nat /\ S # {}
  <2>1. 1 \in DOMAIN file
    BY <1>1
  <2>2. file[1].mean \in S
    BY <2>1 DEF TimesIn
  <2>3. \A x \in S : x \in Nat
    BY <1>1 DEF TimesIn
  <2>. QED
    BY <2>2, <2>3
<1>3. IsFiniteSet(S)
  <2>. DEFINE D == DOMAIN file
              f == [w \in D |-> file[w].mean]
  <2>1. f \in Surjection(D, S)
    BY DEF Surjection, TimesIn
  <2>2. IsFiniteSet(D)
    BY <1>1, FS_Interval
  <2>. HIDE DEF D, f, S
  <2>. QED
    BY <2>1, <2>2, FS_Surjection
<1>4. /\ n \in Nat
      /\ \A k \in 1 .. n : KthKey(S, k) \in S
      /\ \A j, k \in 1 .. n : j < k => KthKey(S, j) < KthKey(S, k)
  <2>. HIDE DEF S
  <2>. QED
    BY <1>2, <1>3, KthKeys
<1>5. n # 0
  <2>. HIDE DEF S
  <2>. QED
    BY <1>2, <1>3, FS_EmptySet
<1>6. ASSUME NEW k \in 1 .. n, NEW g \in GroupsAt(file, k)
      PROVE  g \in G /\ g.time = KthKey(S, k)
  <2>. DEFINE X == {w \in DOMAIN file : file[w].mean = KthKey(S, k)}
              c == Cardinality(X)
  <2>1. PICK order \in SetToSeqs(X) :
          g = [time |-> KthKey(S, k), wls |-> [p \in DOMAIN order |-> file[order[p]].bench]]
    BY DEF GroupsAt
  <2>2. IsFiniteSet(X) /\ X # {}
    <3>1. X \in SUBSET DOMAIN file
      OBVIOUS
    <3>2. IsFiniteSet(DOMAIN file)
      BY <1>1, FS_Interval
    <3>3. KthKey(S, k) \in S
      BY <1>4
    <3>. HIDE DEF n
    <3>4. X # {}
      BY <3>3 DEF TimesIn
    <3>. HIDE DEF X, S
    <3>. QED
      BY <3>1, <3>2, <3>4, FS_Subset
  <2>3. order \in [1 .. c -> X]
    BY DEF SetToSeqs
  <2>4. c \in Nat /\ c # 0
    <3>. HIDE DEF X
    <3>. QED
      BY <2>2, FS_CardinalityType, FS_EmptySet
  <2>. DEFINE wls == [p \in DOMAIN order |-> file[order[p]].bench]
  <2>5. wls \in [1 .. c -> STRING] /\ DOMAIN wls = 1 .. c
    <3>1. \A p \in 1 .. c : order[p] \in DOMAIN file
      <4>. HIDE DEF c
      <4>. QED
        BY <2>3
    <3>2. DOMAIN order = 1 .. c
      BY <2>3
    <3>. HIDE DEF c
    <3>. QED
      BY <1>1, <3>1, <3>2
  <2>. HIDE DEF wls, c, X
  <2>6. wls \in Seq(STRING) /\ wls # << >>
    <3>1. wls \in Seq(STRING)
      BY <2>4, <2>5, SeqDef
    <3>2. 1 \in DOMAIN wls
      BY <2>4, <2>5
    <3>. QED
      BY <3>1, <3>2
  <2>7. KthKey(S, k) \in Nat
    BY <1>2, <1>4
  <2>. QED
    BY <2>1, <2>6, <2>7 DEF wls
<1>7. Lists(u, file, n)
  BY <1>4, ListsExist
<1>8. W \in u[n]
  BY DEF WorkloadTables, Lists, Longer, GroupsAt, TimesIn
<1>. HIDE DEF S, n, u, G
<1>9. W \in Seq(G) /\ Len(W) = n /\ \A k \in 1 .. n : W[k] \in GroupsAt(file, k)
  <2>1. \A k \in 1 .. n : GroupsAt(file, k) \subseteq G
    BY <1>6
  <2>. QED
    BY <1>4, <1>7, <1>8, <2>1, ListedTables
<1>10. DOMAIN W = 1 .. n /\ W # << >>
  BY <1>4, <1>5, <1>9, EmptySeq, LenProperties
<1>11. \A j, k \in DOMAIN W : j < k => W[j].time < W[k].time
  BY <1>4, <1>6, <1>9, <1>10
<1>. QED
  BY <1>9, <1>10, <1>11 DEF IsTable, G

\* A function's durations are read from its rows, and a row of invocations is
\* joined with those rows of durations.
LEMMA JoinIs ==
  ASSUME NEW day, IsDay(day), NEW dur
  PROVE  /\ \A v \in InvocationsPerFunction(day) :
              dur \in DurationsOf(day, day.invs[v]) <=>
                \E p \in RowsWith(day, dur) : p[2] = v
         /\ \A p \in RowsWith(day, dur) :
              /\ p[1] \in DOMAIN day.durs /\ p[1] \in FunctionDurations(day)
              /\ p[2] \in InvocationsPerFunction(day)
              /\ p = <<p[1], p[2]>>
              /\ SameFunction(day.durs[p[1]], day.invs[p[2]])
<1>1. ASSUME NEW p \in RowsWith(day, dur)
      PROVE  /\ p[1] \in DOMAIN day.durs /\ p[1] \in FunctionDurations(day)
             /\ p[2] \in InvocationsPerFunction(day)
             /\ p = <<p[1], p[2]>>
             /\ SameFunction(day.durs[p[1]], day.invs[p[2]])
             /\ DurMs(day.durs[p[1]]) = dur /\ DurMs(day.durs[p[1]]) >= 0
  BY DEF RowsWith, Joined, FunctionDurations, SameFunction
<1>2. \A k \in DOMAIN day.durs :
        DurMs(day.durs[k]) >= 0 <=> (day.durs[k].avg >= 0 \/ day.durs[k].p50 >= 0)
  BY DEF DurMs, IsDay
<1>3. ASSUME NEW v \in InvocationsPerFunction(day), dur \in DurationsOf(day, day.invs[v])
      PROVE  \E p \in RowsWith(day, dur) : p[2] = v
  <2>1. PICK k \in DOMAIN day.durs :
          /\ ~day.durs[k].na /\ SameFunction(day.durs[k], day.invs[v])
          /\ day.durs[k].avg >= 0 \/ day.durs[k].p50 >= 0
          /\ dur = DurMs(day.durs[k])
    BY <1>3 DEF DurationsOf
  <2>2. DurMs(day.durs[k]) >= 0
    BY <1>2, <2>1
  <2>3. <<k, v>> \in RowsWith(day, dur)
    BY <2>1, <2>2 DEF RowsWith, Joined, FunctionDurations, SameFunction
  <2>. QED
    BY <2>3
<1>4. ASSUME NEW p \in RowsWith(day, dur)
      PROVE  dur \in DurationsOf(day, day.invs[p[2]])
  <2>. DEFINE d == day.durs[p[1]]
  <2>1. d.avg >= 0 \/ d.p50 >= 0
    BY <1>1, <1>2
  <2>2. ~d.na /\ SameFunction(d, day.invs[p[2]]) /\ DurMs(d) = dur
    BY <1>1 DEF FunctionDurations
  <2>3. d \in {day.durs[k] : k \in DOMAIN day.durs}
    BY <1>1
  <2>. HIDE DEF d
  <2>. QED
    BY <2>1, <2>2, <2>3 DEF DurationsOf
<1>. QED
  BY <1>1, <1>3, <1>4

\* Every usable invocation counts once in the trace of a day.
LEMMA DayCounts ==
  ASSUME files \in Files, trace = AzureTrace(files[1])
  PROVE  EachInvocationOnce
<1>. DEFINE day    == files[1]
            usable == {v \in DOMAIN day.invs : Usable(day.invs[v])}
<1>1. IsDay(day) /\ AzureTrace(day) # << >>
  BY FilesAssumption
<1>2. usable = InvocationsPerFunction(day)
  BY DEF InvocationsPerFunction, Usable
<1>. HIDE DEF day, usable
<1>3. trace = AzureTrace(day)
  BY DEF day
<1>4. /\ Jobs = 1 .. Cardinality(DurationsIn(day))
      /\ \A i \in Jobs : /\ Dur(i) = KthKey(DurationsIn(day), i)
                         /\ \A m \in 1 .. TotalMinutes : trace[i].rpm[m] = MinuteOf(day, Dur(i), m)
  BY <1>1, <1>3, DayTrace DEF Jobs, Dur
<1>5. ASSUME DurationsUnique(day), NEW i \in Jobs, NEW m \in 1 .. TotalMinutes
      PROVE  trace[i].rpm[m] =
               SumFunctionOnSet([v \in usable |-> day.invs[v].rpm[m]],
                                {v \in usable : Dur(i) \in DurationsOf(day, day.invs[v])})
  <2>. DEFINE S == RowsWith(day, Dur(i))
              f == [v \in usable |-> day.invs[v].rpm[m]]
              g == [p \in S |-> day.invs[p[2]].rpm[m]]
              h == [p \in S |-> p[2]]
              V == {v \in usable : Dur(i) \in DurationsOf(day, day.invs[v])}
  <2>1. trace[i].rpm[m] = SumFunctionOnSet(g, S)
    BY <1>4 DEF MinuteOf, SumFunction
  <2>2. IsFiniteSet(S)
    BY <1>1, DurationsFinite
  <2>3. \A p \in S : p[2] \in usable /\ f[h[p]] = g[p] /\ f[h[p]] \in Int
    <3>. SUFFICES ASSUME NEW p \in S PROVE p[2] \in usable /\ f[h[p]] = g[p] /\ f[h[p]] \in Int
      OBVIOUS
    <3>1. p[2] \in usable /\ p \in Joined(day)
      BY <1>1, <1>2, JoinIs DEF RowsWith
    <3>2. day.invs[p[2]].rpm[m] \in Nat
      BY <1>1, <3>1, JoinedRows
    <3>. QED
      BY <3>1, <3>2
  <2>4. \A p, q \in S : p # q => h[p] # h[q]
    <3>. SUFFICES ASSUME NEW p \in S, NEW q \in S, p[2] = q[2] PROVE p = q
      OBVIOUS
    <3>1. /\ p[1] \in FunctionDurations(day) /\ q[1] \in FunctionDurations(day)
          /\ SameFunction(day.durs[p[1]], day.invs[p[2]])
          /\ SameFunction(day.durs[q[1]], day.invs[q[2]])
          /\ p = <<p[1], p[2]>> /\ q = <<q[1], q[2]>>
      BY <1>1, JoinIs
    <3>2. SameFunction(day.durs[p[1]], day.durs[q[1]])
      BY <3>1 DEF SameFunction
    <3>3. p[1] = q[1]
      BY <1>5, <3>1, <3>2 DEF DurationsUnique
    <3>. QED
      BY <3>1, <3>3
  <2>5. {h[p] : p \in S} = V
    <3>1. \A v \in usable : Dur(i) \in DurationsOf(day, day.invs[v]) <=> \E p \in S : p[2] = v
      BY <1>1, <1>2, JoinIs
    <3>2. \A p \in S : h[p] = p[2] /\ p[2] \in usable
      BY <2>3
    <3>. HIDE DEF h, S
    <3>. QED
      BY <3>1, <3>2
  <2>6. \A p \in S : g[p] = f[h[p]]
    BY <2>3
  <2>. HIDE DEF S, f, g, h, V
  <2>7. SumFunctionOnSet(f, {h[p] : p \in S}) = SumFunctionOnSet(g, S)
    BY <2>2, <2>3, <2>4, <2>6, SumImage
  <2>8. trace[i].rpm[m] = SumFunctionOnSet(f, V)
    BY <2>1, <2>5, <2>7, Zenon
  <2>. QED
    BY <2>8 DEF f, V
<1>6. ASSUME NEW v \in usable
      PROVE  DurationsOf(day, day.invs[v]) \subseteq {Dur(i) : i \in Jobs}
  <2>. SUFFICES ASSUME NEW dur \in DurationsOf(day, day.invs[v])
                PROVE  \E i \in Jobs : Dur(i) = dur
    OBVIOUS
  <2>1. \E p \in RowsWith(day, dur) : p[2] = v
    BY <1>1, <1>2, JoinIs
  <2>2. dur \in DurationsIn(day)
    BY <2>1 DEF RowsWith, DurationsIn
  <2>3. \E k \in 1 .. Cardinality(DurationsIn(day)) : KthKey(DurationsIn(day), k) = dur
    BY <1>1, <2>2, DurationsFinite, KthKeys
  <2>. QED
    BY <1>4, <2>3
<1>. QED
  BY <1>5, <1>6 DEF EachInvocationOnce, day, usable

-----------------------------------------------------------------------------
(* The theorems *)

\* The program starts with nothing mapped and nothing generated.
LEMMA ProgramStarts ==
  ASSUME FMStart, GenStart, IsTrace(trace), IsTable(table), RowsComplete
  PROVE  ProgramInv
<1>1. MapInv
  BY MapInit
<1>2. BooksInv
  BY DEF FMStart, BooksInv, BooksBalance
<1>3. GenInv /\ ScaleInv /\ SampleInv /\ ThumbnailsConserve /\ RateBounded
  BY DEF GenStart, GenInv, ScaleInv, SampleInv, ThumbnailsConserve, RateBounded
<1>. QED
  BY <1>1, <1>2, <1>3 DEF ProgramInv

\* ProgramInv is an invariant, whatever traces, tables and command lines there
\* are.
THEOREM ProgramInvariant == Spec => []ProgramInv
<1>1. Init => ProgramInv
  <2>. SUFFICES ASSUME Init PROVE ProgramInv
    OBVIOUS
  <2>1. PICK in \in Inputs : trace = in[1] /\ table = in[2]
    BY DEF Init, FMInit
  <2>2. IsTrace(trace) /\ IsTable(table)
    BY <2>1, InputsAssumption
  <2>3. RowsComplete
    BY <2>1, GeneratorAssumption DEF RowsComplete, Jobs
  <2>. QED
    BY <2>2, <2>3, ProgramStarts DEF Init, FMInit
<1>2. ProgramInv /\ [Next]_vars => ProgramInv'
  BY GeneratorStep
<1>. QED
  BY <1>1, <1>2, PTL DEF Spec

\* The mapper's state has the shape its loops rely on: the scan index never
\* leaves the table and its guards.
THEOREM MapTypes == Spec => []FMTypeOK
<1>1. ProgramInv => FMTypeOK
  BY DEF ProgramInv, MapInv
<1>. QED
  BY <1>1, ProgramInvariant, PTL

\* For every trace and every table, _pick_candidates finds for each function
\* exactly the workloads within 1% of its duration or, failing that, the
\* nearest ones.
THEOREM LinearScanFinds == Spec => []CandidatesRight
<1>1. ProgramInv => CandidatesRight
  BY DEF ProgramInv, MapInv
<1>. QED
  BY <1>1, ProgramInvariant, PTL

\* pick_workload never raises, and every function is mapped to one of those
\* workloads.
THEOREM EveryFunctionMapped == Spec => []MappingRight
<1>1. ProgramInv => MappingRight
  BY DEF ProgramInv, MapInv
<1>. QED
  BY <1>1, ProgramInvariant, PTL

\* _greedy_glb's two tallies are, after every job, the supply each benchmark was
\* given and the supply it may still be given.
THEOREM BooksBalanced == Spec => []BooksBalance
<1>1. ProgramInv => BooksBalance
  BY DEF ProgramInv, BooksInv
<1>. QED
  BY <1>1, ProgramInvariant, PTL

\* No number of minutes that divides the day loses or doubles an invocation.
THEOREM ThumbnailsConserved == Spec => []ThumbnailsConserve
<1>1. ProgramInv => ThumbnailsConserve
  BY DEF ProgramInv
<1>. QED
  BY <1>1, ProgramInvariant, PTL

\* spec_generate misses the scaled rate of no minute by more than the rounding of
\* the functions active in it.
THEOREM RateIsBounded == Spec => []RateBounded
<1>1. ProgramInv => RateBounded
  BY DEF ProgramInv
<1>. QED
  BY <1>1, ProgramInvariant, PTL

\* smirnov_generate gives every minute its requests and no more, whatever it
\* draws.
THEOREM RateIsConstant == Spec => []ConstantRate
BY AllFilled, ProgramInvariant, PTL

\* Where all durations are whole milliseconds, the inverse of the distribution
\* returns each function's for exactly its share of the invocations.
THEOREM SharesAreExact == Spec => []SamplesProportional
<1>1. ProgramInv => SamplesProportional
  BY SharesExact DEF ProgramInv, MapInv
<1>. QED
  BY <1>1, ProgramInvariant, PTL

-----------------------------------------------------------------------------
(* The program with its preprocessing *)

\* The trace is that of the files, and the rest of the program's invariant holds.
FilesInv == ProgramInv /\ files \in Files /\ trace = AzureTrace(files[1])

\* What the preprocessing makes of any day and any file of workloads is what the
\* mapper and the generator need.
LEMMA FilesStart == ShrinkrayInit => FilesInv
<1>. SUFFICES ASSUME ShrinkrayInit PROVE FilesInv
  OBVIOUS
<1>1. /\ files \in Files /\ trace = AzureTrace(files[1])
      /\ table \in WorkloadTables(files[2]) /\ FMStart /\ GenStart
  BY DEF ShrinkrayInit
<1>2. IsDay(files[1]) /\ IsProfile(files[2]) /\ AzureTrace(files[1]) # << >>
  BY <1>1, FilesAssumption
<1>3. IsTable(table)
  BY <1>1, <1>2, FileTables
<1>4. IsTrace(trace) /\ RowsComplete
  BY <1>1, <1>2, DayTrace DEF RowsComplete, Jobs
<1>. QED
  BY <1>1, <1>3, <1>4, ProgramStarts DEF FilesInv

\* No step of the program reads or writes the files again.
LEMMA FilesStep == FilesInv /\ [ShrinkrayNext]_<<vars, files>> => FilesInv'
<1>. SUFFICES ASSUME FilesInv, [ShrinkrayNext]_<<vars, files>> PROVE FilesInv'
  OBVIOUS
<1>1. [Next]_vars /\ files' = files
  BY DEF ShrinkrayNext
<1>2. ProgramInv'
  BY <1>1, GeneratorStep DEF FilesInv
<1>3. trace' = trace
  BY <1>1 DEF Next, vars, fmVars, FMNext, GoBack, GoForward, Collect, InitialQuota, Assign,
              Balanced, Pick, Mapped, NewGenerator, ScaleTime, Normalize, Draw, Sampled,
              Terminating
<1>. QED
  BY <1>1, <1>2, <1>3 DEF FilesInv

\* For every day of the trace and every file of workloads, the whole program maps
\* every function to a suitable workload and generates what it should, by scaling
\* or by sampling.
THEOREM ShrinkrayCorrect ==
  ShrinkraySpec => [](/\ FMTypeOK /\ CandidatesRight /\ MappingRight /\ BooksBalance
                      /\ ThumbnailsConserve /\ RateBounded
                      /\ SamplesProportional /\ ConstantRate)
<1>1. FilesInv => /\ FMTypeOK /\ CandidatesRight /\ MappingRight /\ BooksBalance
                  /\ ThumbnailsConserve /\ RateBounded
                  /\ SamplesProportional /\ ConstantRate
  BY SharesExact, AllFilled DEF FilesInv, ProgramInv, MapInv, BooksInv
<1>. QED
  BY <1>1, FilesStart, FilesStep, PTL DEF ShrinkraySpec

\* azure_trace_preprocess counts every usable invocation of the day once, in its
\* minute and for its function's duration, and no other.
THEOREM InvocationsOnce == ShrinkraySpec => []EachInvocationOnce
<1>1. FilesInv => EachInvocationOnce
  BY DayCounts DEF FilesInv
<1>. QED
  BY <1>1, FilesStart, FilesStep, PTL DEF ShrinkraySpec
=============================================================================
