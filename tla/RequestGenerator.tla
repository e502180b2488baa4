-------------------------- MODULE RequestGenerator --------------------------
(***************************************************************************)
(* RequestGenerator (faasrail-shrinkray/shrinkray/generator.py) on top of  *)
(* the mapping: it writes the specification of an experiment, either by    *)
(* scaling the trace in time and in rate ("spec") or by sampling the       *)
(* distribution of its durations ("smirnov", with distribution.py).        *)
(*                                                                         *)
(* The rows of a specification are a set here: both load generators treat  *)
(* the rows alike, whatever their order.  Fractions are exact.             *)
(***************************************************************************)
EXTENDS FunctionMapping

CONSTANTS
  TotalMinutes,  \* RequestGenerator.TOTAL_MINUTES: 1440
  MinuteSeconds, \* 60
  Ms,            \* ticks per millisecond
  Configs        \* the command lines it may be given

ConfigType == [mode : {"spec", "smirnov"}, scaling : {"thumbnails", "minute_range"},
               rps : Nat \ {0}, first : Nat \ {0}, target : Nat \ {0}]

ASSUME GeneratorAssumption ==
  /\ TotalMinutes \in Nat \ {0} /\ MinuteSeconds \in Nat \ {0} /\ Ms \in Nat \ {0}
  /\ Configs \subseteq ConfigType
  /\ \A in \in Inputs : \A i \in DOMAIN in[1] :
       /\ Len(in[1][i].rpm) = TotalMinutes
       /\ in[1][i].inv = SumFunction(in[1][i].rpm)

VARIABLES
  config,  \* the command line
  gpc,     \* "init", "scale", "normalize", "sample", "done", "failed"
  minutes, \* for each function, its requests per minute of the experiment
  header,  \* for each column, the first and last trace minute it is labelled with
  rows,    \* "spec": the rows written, as records [fn, wl, minutes];
           \* "smirnov": for each workload that was drawn, its minutes
  drawn    \* requests sampled so far

genVars == <<config, gpc, minutes, header, rows, drawn>>
vars == <<fmVars, genVars>>

GenStart ==
  /\ config = << >> /\ gpc = "init"
  /\ minutes = << >> /\ header = << >> /\ rows = << >> /\ drawn = 0

Init == FMInit /\ GenStart

Columns == 1 .. config.target

\* The mapping is built first, then the generator.
NewGenerator ==
  /\ fpc = "mapped" /\ gpc = "init"
  /\ config' \in Configs
  /\ gpc' = IF config'.mode = "spec" THEN "scale" ELSE "sample"
  /\ UNCHANGED <<fmVars, minutes, header, rows, drawn>>

Fail == gpc' = "failed" /\ UNCHANGED <<minutes, header, rows>>

-----------------------------------------------------------------------------
(* spec_generate *)

\* Mutant: the groups overlap by one minute.
ThumbnailsOverlap ==
  LET pg == TotalMinutes \div config.target
  IN  /\ minutes' = [i \in Jobs |-> [c \in Columns |->
                       SumFunctionOnSet(trace[i].rpm, Max({1, pg * (c - 1)}) .. pg * c)]]
      /\ header' = [c \in Columns |-> <<pg * (c - 1) + 1, pg * c>>]

\* Consecutive minutes are summed into as many groups as the experiment has
\* minutes.
Thumbnails ==
  LET pg == TotalMinutes \div config.target
  IN  /\ minutes' = [i \in Jobs |-> [c \in Columns |->
                       SumFunctionOnSet(trace[i].rpm, pg * (c - 1) + 1 .. pg * c)]]
      /\ header' = [c \in Columns |-> <<pg * (c - 1) + 1, pg * c>>]

\* Columns first_minute and following, counted from 0, under their numbers.
MinuteRange ==
  /\ minutes' = [i \in Jobs |-> [c \in Columns |-> trace[i].rpm[config.first + c]]]
  /\ header' = [c \in Columns |-> <<config.first + c - 1, config.first + c - 1>>]

ScaleTime ==
  /\ gpc = "scale"
  /\ LET thumbs == config.scaling = "thumbnails"
     IN  \/ /\ thumbs /\ TotalMinutes % config.target = 0
            /\ Thumbnails /\ gpc' = "normalize" /\ UNCHANGED rows
         \/ /\ ~thumbs /\ config.first + config.target <= TotalMinutes
            /\ MinuteRange /\ gpc' = "normalize" /\ UNCHANGED rows
         \/ /\ IF thumbs THEN TotalMinutes % config.target # 0
                         ELSE config.first + config.target > TotalMinutes
            /\ Fail
  /\ UNCHANGED <<fmVars, config, drawn>>

\* Mutant: every fraction is rounded up.
CustomRoundUp(a, b) == IF a % b = 0 THEN a \div b ELSE a \div b + 1

\* custom_round of the fraction a / b: up from .35.
CustomRound(a, b) == IF 100 * (a % b) < 35 * b THEN a \div b ELSE a \div b + 1

TotalRpm(c) == SumFunction([i \in Jobs |-> minutes[i][c]])
MaxRpm == Max({TotalRpm(c) : c \in Columns})
TargetMaxRpm == config.rps * MinuteSeconds

\* Normalise to the target rate and leave out the rows of zeros.  Without any
\* request the division yields NaNs, which have no rounding.
Normalize ==
  /\ gpc = "normalize"
  /\ IF MaxRpm = 0 THEN Fail
     ELSE LET scaled == [i \in Jobs |-> [c \in Columns |->
                           CustomRound(minutes[i][c] * TargetMaxRpm, MaxRpm)]]
          IN  /\ rows' = {[fn |-> i, wl |-> mapping[i], minutes |-> scaled[i]] :
                            i \in {i \in Jobs : \E c \in Columns : scaled[i][c] # 0}}
              /\ gpc' = "done"
              /\ UNCHANGED <<minutes, header>>
  /\ UNCHANGED <<fmVars, config, drawn>>

-----------------------------------------------------------------------------
(* smirnov_generate *)

\* Distribution.cdf_y, times the total weight: 0 for the guard, then the
\* running sums of inv_count.
CdfY(j) == Supply(1 .. j)
Weight == CdfY(Len(trace))

\* Mutant: bisect_left.
BisectLeft(k) == Cardinality({j \in 0 .. Len(trace) : CdfY(j) < k})

\* The position after the last step that is at most u = k / Weight.  (Any u
\* in between has the same position.)
Bisect(k) == Cardinality({j \in 0 .. Len(trace) : CdfY(j) <= k})

\* inverse_cdf at u = k / Weight returns whole milliseconds.
InverseCdf(k) == Ms * (Dur(Bisect(k)) \div Ms)

\* Mutant: the row of a workload starts anew with every draw.
DrawForgets(k) ==
  /\ gpc = "sample"
  /\ drawn < config.target * TargetMaxRpm
  /\ LET m == drawn \div TargetMaxRpm + 1
     IN  IF Bisect(k) \in Jobs /\ Known(InverseCdf(k))
         THEN LET wl == WorkloadOf(InverseCdf(k))
              IN  /\ rows' = [w \in DOMAIN rows \union {wl} |->
                                IF w = wl THEN [c \in Columns |-> IF c = m THEN 1 ELSE 0]
                                          ELSE rows[w]]
                  /\ drawn' = drawn + 1
                  /\ UNCHANGED <<gpc, minutes, header>>
         ELSE Fail /\ UNCHANGED drawn
  /\ UNCHANGED <<fmVars, config>>

\* One request of minute drawn \div TargetMaxRpm: the function of that duration,
\* and the row of its workload, new or not.  uniform(0, 1) is 0 + 1 * random(), and
\* random() is less than 1: u = 1 is never drawn.
Draw(k) ==
  /\ gpc = "sample"
  /\ drawn < config.target * TargetMaxRpm
  /\ LET m == drawn \div TargetMaxRpm + 1
     IN  IF Bisect(k) \in Jobs /\ Known(InverseCdf(k))
         THEN LET wl == WorkloadOf(InverseCdf(k))
                  old == IF wl \in DOMAIN rows THEN rows[wl] ELSE [c \in Columns |-> 0]
              IN  /\ rows' = [w \in DOMAIN rows \union {wl} |->
                                IF w = wl THEN [old EXCEPT ![m] = @ + 1] ELSE rows[w]]
                  /\ drawn' = drawn + 1
                  /\ UNCHANGED <<gpc, minutes, header>>
         ELSE Fail /\ UNCHANGED drawn
  /\ UNCHANGED <<fmVars, config>>

\* All minutes are drawn.
Sampled ==
  /\ gpc = "sample"
  /\ drawn = config.target * TargetMaxRpm
  /\ gpc' = "done"
  /\ header' = [c \in Columns |-> <<c, c>>]
  /\ UNCHANGED <<fmVars, config, minutes, rows, drawn>>

Terminating == (gpc \in {"done", "failed"} \/ fpc = "unreachable") /\ UNCHANGED vars

Next ==
  \/ FMNext /\ UNCHANGED genVars
  \/ NewGenerator \/ ScaleTime \/ Normalize
  \/ \E k \in 0 .. IF Weight = 0 THEN 0 ELSE Weight - 1 : Draw(k)
  \/ Sampled
  \/ Terminating

Spec == Init /\ [][Next]_vars

-----------------------------------------------------------------------------
(* Correctness *)

\* Scaling in time by thumbnails loses and doubles no invocation of the trace.
ThumbnailsConserve ==
  gpc = "normalize" /\ config.scaling = "thumbnails" =>
    \A i \in Jobs : SumFunction(minutes[i]) = trace[i].inv

\* The rate of every minute of the specification, its left-out rows included,
\* is the scaled rate of the trace but for the rounding of each function that
\* is active in it: less than .35 down and at most .65 up.  So the busiest minute may
\* exceed the target (see RateWithinTarget), by at most .65 a function.
RateBounded ==
  gpc = "done" /\ config.mode = "spec" =>
    \A c \in Columns :
      LET total  == SumFunction([r \in rows |-> r.minutes[c]])
          exact  == TargetMaxRpm * TotalRpm(c)
          active == Cardinality({i \in Jobs : minutes[i][c] > 0})
      IN  /\ 100 * MaxRpm * total <= 100 * exact + 65 * MaxRpm * active
          /\ 100 * MaxRpm * total >= 100 * exact - 35 * MaxRpm * active

\* What the README and the help of --request-rate say, and the comment "round down": the
\* target is a maximum, which no minute of the specification exceeds.
RateWithinTarget ==
  gpc = "done" /\ config.mode = "spec" =>
    \A c \in Columns : SumFunction([r \in rows |-> r.minutes[c]]) <= TargetMaxRpm

\* What the README says of -f: the trace's minute first_minute is the first
\* minute of the experiment (and the columns are labelled so).
MinuteRangeAsAsked ==
  gpc = "normalize" /\ config.scaling = "minute_range" =>
    \A i \in Jobs : \A c \in Columns :
      minutes[i][c] = trace[i].rpm[config.first + c - 1]

\* As long as all durations are whole milliseconds, the inverse of the
\* distribution returns the duration of every function for exactly its share
\* of the interval [0, 1), and never one that has no invocations.
WholeDurations == \A i \in Jobs : Dur(i) % Ms = 0

SamplesProportional ==
  WholeDurations =>
    \A i \in Jobs :
      Cardinality({k \in 0 .. Weight - 1 : /\ Bisect(k) \in Jobs
                                          /\ InverseCdf(k) = Dur(i)}) = trace[i].inv

\* Every minute of a sampled experiment has the same number of requests, the
\* target rate, however they are spread over the workloads.
ConstantRate ==
  gpc = "done" /\ config.mode = "smirnov" =>
    \A c \in Columns :
      SumFunction([w \in DOMAIN rows |-> rows[w][c]]) = TargetMaxRpm
=============================================================================
