---------------------------- MODULE TrendScoring ----------------------------
(***************************************************************************)
(* How a trend is scored and in which state its row ends up                *)
(* (analytics/trend_scoring.py).  Everything is a pure operator of the     *)
(* aggregated measurements inp:                                            *)
(*                                                                         *)
(*   g30, g90, accel, persistence, momentum   percentages, None if unknown *)
(*   baseline, latest, moved, priorMax        levels, None if unknown      *)
(*   obs, missing, history, silent            counts and days              *)
(*   direction, sources, classes, nonProxy, reliability, share, dup, geo,  *)
(*   spike, seasonal, agreeing                                             *)
(*                                                                         *)
(* Points and scores are in hundredths of a point; reliability, share, dup *)
(* and persistence in hundredths.  The two logarithms are the points of    *)
(* their curves at the values the model uses.                              *)
(***************************************************************************)
EXTENDS Integers, FiniteSets, FiniteSetsExt, Functions, TLC

CONSTANT None

Clamp(v, lo, hi) == Max({lo, Min({hi, v})})
Or0(v) == IF v = None THEN 0 ELSE v
Known(v) == v # None

\* The value of a curve given by some of its points: the last one at or below v.
Curve(points, v) ==
    LET reached == {t \in DOMAIN points : t <= v}
    IN  IF reached = {} THEN 0 ELSE points[Max(reached)]

-----------------------------------------------------------------------------
(* The seven components.  An unknown measurement earns nothing.            *)

GrowthOf(inp) == IF Known(inp.g30) THEN inp.g30 ELSE inp.g90

\* log10(1 + v/10) / log10(11), of 20 points.
GrowthCurve == (1 :> 79) @@ (5 :> 338) @@ (10 :> 578) @@ (25 :> 1045) @@ (50 :> 1494) @@ (100 :> 2000)

Growth(inp) == IF Known(GrowthOf(inp)) THEN Curve(GrowthCurve, GrowthOf(inp)) ELSE 0
Acceleration(inp) == Clamp(30 * Or0(inp.accel), 0, 1800)
Persistence(inp) == 15 * Or0(inp.persistence)

SourceDiversity(inp) ==
    IF inp.sources <= 1 THEN 0
    ELSE   Clamp(270 * (inp.sources - 1), 0, 810)
         + Clamp(315 * (inp.classes - 1), 0, 630)
         + (36 * Clamp(inp.reliability, 0, 100)) \div 10

\* log10(v) - 1, a third of 12 points for each order of magnitude.
ScaleCurve == (10 :> 0) @@ (25 :> 159) @@ (100 :> 400) @@ (1000 :> 800) @@ (10000 :> 1200)

Scale(inp) == Curve(ScaleCurve, Or0(inp.latest))

GeographicSpread(inp) ==
    LET countries == inp.geo \ {"global"}
    IN  CASE inp.geo = {} -> 0
          [] countries # {} -> Clamp((700 * Cardinality(countries)) \div 3, 0, 700)
          [] OTHER -> 280

Novelty(inp) ==
    IF ~Known(inp.latest) \/ Or0(inp.priorMax) <= 0 THEN 0
    ELSE CASE 2 * inp.latest >= 3 * inp.priorMax -> 1000
           [] inp.latest > inp.priorMax -> 600
           [] 10 * inp.latest >= 9 * inp.priorMax -> 300
           [] OTHER -> 0

Components(inp) ==
      Growth(inp) + Acceleration(inp) + Persistence(inp) + SourceDiversity(inp)
    + Scale(inp) + GeographicSpread(inp) + Novelty(inp)

-----------------------------------------------------------------------------
MaxTotalPenalty == 6000

PenaltyOf(inp) ==
    [tiny_baseline |->
        IF Or0(inp.baseline) >= 25 THEN 0
        ELSE IF Or0(inp.moved) < 15 /\ -Or0(inp.moved) < 15 THEN 1500 ELSE 750,
     one_day_spike |-> IF inp.spike THEN 2500 ELSE 0,
     low_quality_sources |-> IF inp.reliability < 50 /\ inp.sources > 0 THEN 1000 ELSE 0,
     duplicate_information |-> IF inp.dup >= 40 THEN 1200 ELSE 0,
     insufficient_history |-> IF inp.history < 30 \/ inp.obs < 8 THEN 1200 ELSE 0,
     seasonality |-> IF inp.seasonal THEN 1500 ELSE 0,
     missing_data |-> IF 5 * inp.missing > inp.obs + inp.missing THEN 800 ELSE 0,
     proxy_only |-> IF inp.classes > 0 /\ inp.nonProxy = 0 THEN 1000 ELSE 0,
     single_source |->
        IF inp.sources <= 1 THEN 1000 ELSE IF inp.share > 75 THEN 500 ELSE 0]

Penalties(inp) == SumFunction(PenaltyOf(inp))

Score(inp) == Clamp(Components(inp) - Min({Penalties(inp), MaxTotalPenalty}), 0, 10000)

-----------------------------------------------------------------------------
StaleDays == 60

Confidence(inp) ==
    LET total == inp.obs + inp.missing
        missingShare == IF total = 0 THEN 0 ELSE (100 * inp.missing) \div total
        parts ==   (Clamp(inp.history, 0, 180) * 2500) \div 180
                 + (Clamp(inp.obs, 0, 60) * 2000) \div 60
                 + 20 * Clamp(inp.reliability, 0, 100)
                 + (Clamp(inp.sources - 1, 0, 3) * 2000) \div 3
                 + 500 * inp.agreeing
                 - 20 * Clamp(2 * missingShare, 0, 100)
                 - (IF inp.silent > StaleDays THEN 1000 ELSE 0)
    IN  Clamp(parts, 0, 10000)

-----------------------------------------------------------------------------
(* The stage ladder.  The sentence of the first rung prints the growth and *)
(* fails when there is none: StageFails.                                   *)

Falling(inp) ==
    inp.direction = "falling" \/ (Known(GrowthOf(inp)) /\ GrowthOf(inp) < -10)

StageFails(inp) == Falling(inp) /\ ~Known(GrowthOf(inp))

Stage(inp) ==
    LET growth == GrowthOf(inp)
        thin == inp.obs < 8 \/ inp.history < 21 \/ inp.sources < 2
        steady == Or0(inp.persistence) >= 50
        big == Or0(inp.latest) >= 10000
    IN  CASE Falling(inp) -> "declining"
          [] ~Falling(inp) /\ (thin \/ inp.spike) -> "weak_signal"
          [] OTHER ->
             IF Or0(inp.accel) > 15 /\ Or0(growth) > 25 /\ steady THEN "accelerating"
             ELSE IF big THEN IF Or0(growth) < 5 /\ Or0(growth) > -5 THEN "mature"
                              ELSE IF Or0(growth) >= 5 THEN "mainstream" ELSE "emerging"
             ELSE IF Or0(growth) >= 15 /\ steady THEN "early_adoption" ELSE "emerging"

-----------------------------------------------------------------------------
(* The lifecycle.                                                          *)

TrendStates == {"candidate", "active", "confirmed", "weakening", "ended", "invalidated"}
Promoted == {"active", "confirmed"}

\* What the scores alone say, once the exceptions have been dealt with.
Merited(inp, score, confidence) ==
    CASE score >= 6000 /\ confidence >= 5500 /\ inp.sources >= 2 -> "confirmed"
      [] OTHER ->
         IF score >= 3500 /\ confidence >= 2500
         THEN IF inp.sources < 2 THEN "candidate" ELSE "active"
         ELSE IF Stage(inp) = "declining" THEN "weakening" ELSE "candidate"

\* Mutant: the exceptions are only made for what was promoted before.
NextStateEager(current, peak, inp) ==
    IF inp.silent > StaleDays THEN "ended"
    ELSE IF (inp.spike \/ inp.seasonal) /\ current \in Promoted THEN "invalidated"
    ELSE Merited(inp, Score(inp), Confidence(inp))

NextState(current, peak, inp) ==
    LET score == Score(inp)
    IN  CASE inp.silent > StaleDays -> "ended"
          [] inp.silent <= StaleDays /\ (inp.spike \/ inp.seasonal) ->
             IF current \in Promoted THEN "invalidated" ELSE "candidate"
          [] OTHER ->
             IF Max({peak, score}) - score >= 2000 /\ current \in Promoted THEN "weakening"
             ELSE Merited(inp, score, Confidence(inp))
=============================================================================
