---------------------------- MODULE InferenceHealth ----------------------------
(***************************************************************************)
(* InferenceHealth (app/InferenceHealth.h) as inferenceLoop uses it: the   *)
(* service times of inferences switch degraded mode on and off.  What      *)
(* degraded mode does, the longer wait for next_admission                  *)
(* (VisionPipeline.cpp:241-244), is left out.  Service times are natural   *)
(* numbers of a small set that has both thresholds in it.                  *)
(***************************************************************************)
EXTENDS Integers, Sequences

CONSTANTS
  SlowMs,               \* slow_ms_
  ServiceTimes,         \* the service times that happen
  SlowLimit, FastLimit, \* 3 and 10 in the source
  MaxOutcomes           \* bound: inferences

ASSUME HealthAssumption ==
  /\ SlowMs \in Nat \ {0} /\ ServiceTimes \subseteq Nat /\ MaxOutcomes \in Nat
  /\ SlowLimit \in Nat \ {0} /\ FastLimit \in Nat \ {0}

VARIABLES
  degraded, slow, fast,   \* degraded_, slow_, fast_
  active,                 \* active_
  outcomes                \* history: the service time of each inference, or Failed

healthvars == <<degraded, slow, fast, active, outcomes>>

Failed == -1

HealthTypeOK ==
  /\ degraded \in BOOLEAN /\ active \in BOOLEAN
  /\ slow \in 0..MaxOutcomes /\ fast \in 0..MaxOutcomes
  /\ outcomes \in Seq(ServiceTimes \cup {Failed})

HealthInit ==
  /\ degraded = FALSE /\ slow = 0 /\ fast = 0 /\ active = FALSE
  /\ outcomes = <<>>

-------------------------------------------------------------------------------
\* begin(), for a frame that is not too old.
BeginInference ==
  /\ ~active /\ Len(outcomes) < MaxOutcomes
  /\ active' = TRUE
  /\ UNCHANGED <<degraded, slow, fast, outcomes>>

IsSlow(ms) == ms >= SlowMs
IsFast(ms) == 4 * ms < 3 * SlowMs

\* (mutant) a service time of the dead zone leaves the slow streak.
MEndInference(ms) ==
  /\ active
  /\ active' = FALSE /\ outcomes' = Append(outcomes, ms)
  /\ slow' = IF IsSlow(ms) THEN slow + 1 ELSE IF IsFast(ms) THEN 0 ELSE slow
  /\ fast' = IF IsFast(ms) THEN fast + 1 ELSE 0
  /\ degraded' = IF IsSlow(ms) /\ slow' >= SlowLimit THEN TRUE
                 ELSE IF IsFast(ms) /\ fast' >= FastLimit THEN FALSE ELSE degraded

\* end(ms).
EndInference(ms) ==
  /\ active
  /\ active' = FALSE /\ outcomes' = Append(outcomes, ms)
  /\ slow' = IF IsSlow(ms) THEN slow + 1 ELSE 0
  /\ fast' = IF IsFast(ms) THEN fast + 1 ELSE 0
  /\ degraded' = IF IsSlow(ms) /\ slow' >= SlowLimit THEN TRUE
                 ELSE IF IsFast(ms) /\ fast' >= FastLimit THEN FALSE ELSE degraded

\* fail(), when preprocessing or the engine throws.
FailInference ==
  /\ active
  /\ active' = FALSE /\ outcomes' = Append(outcomes, Failed)
  /\ slow' = 0 /\ fast' = 0
  /\ UNCHANGED degraded

HealthNext ==
  \/ BeginInference \/ FailInference
  \/ \E ms \in ServiceTimes : EndInference(ms)

HealthSpec == HealthInit /\ [][HealthNext]_healthvars

-------------------------------------------------------------------------------
(* Properties. *)

\* The n inferences up to the i-th are all of a kind.
Streak(Kind(_), n, i) == i >= n /\ \A j \in i - n + 1 .. i : Kind(outcomes[j])
SlowOutcome(ms) == ms # Failed /\ IsSlow(ms)
FastOutcome(ms) == ms # Failed /\ IsFast(ms)

\* Degraded mode is on exactly when, of the streaks of SlowLimit slow and of
\* FastLimit fast inferences, a slow one ended last: failures and times between
\* the thresholds break a streak but change no mode (docs/inference-recovery.md:5).
DegradedExact ==
  degraded <=>
    \E i \in 1..Len(outcomes) :
      /\ Streak(SlowOutcome, SlowLimit, i)
      /\ \A j \in i + 1 .. Len(outcomes) : ~Streak(FastOutcome, FastLimit, j)

\* The modes follow the streaks, in states of their types.
ModesKept == HealthTypeOK /\ DegradedExact
===============================================================================
