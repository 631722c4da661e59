-------------------------- MODULE OpportunityScoring -------------------------
(***************************************************************************)
(* From a trend and its evidence to the Opportunity Score, its confidence  *)
(* and its lifecycle state (analytics/opportunity_scoring.py and           *)
(* opportunity_config.py).  An input inp has                               *)
(*                                                                         *)
(*   type, trend   the opportunity type, and the trend with its score,     *)
(*                 confidence, stage, state, spike, seasonal, history,     *)
(*                 obs, missing                                            *)
(*   facts         a set of [type, class, group, reliability, proxy,       *)
(*                 adoption, g30, age]                                     *)
(*   market, penetration, competitors, awareness, capital, barriers,       *)
(*   markers, catalyst, difficulty, commercial   None where unknown        *)
(*   flags, kinds, assumptions                   from the analyzers        *)
(*                                                                         *)
(* Points in hundredths, reliability in percent, capital in thousands of   *)
(* dollars, barriers and markers as their number.                          *)
(***************************************************************************)
EXTENDS Analyzers, FiniteSetsExt, Functions

Groups(inp) == {f.group : f \in inp.facts}
\* Mutant: the class of a signal decides, not the signal.
AdoptionByClass(inp) == {f \in inp.facts : f.class \in {"developer", "commercial"} /\ ~f.proxy}
Adoption(inp) == {f \in inp.facts : f.adoption /\ ~f.proxy}
Attention(inp) == {f \in inp.facts : f.class = "attention"}
Solid(inp) == {f.class : f \in {g \in inp.facts : ~g.proxy}}

\* The mean 30-day growth of those facts that have one.
MeanGrowth(facts) ==
    LET known == {f \in facts : f.g30 # None}
    IN  IF known = {} THEN None ELSE SumFunction([f \in known |-> f.g30]) \div Cardinality(known)

Reliability(inp) ==
    IF inp.facts = {} THEN 0
    ELSE SumFunction([f \in inp.facts |-> f.reliability]) \div Cardinality(inp.facts)

-----------------------------------------------------------------------------
(* The gate.                                                               *)

EligibleTrendStates == {"active", "confirmed", "weakening"}

CheckGate(inp) ==
    /\ ~inp.trend.spike /\ ~inp.trend.seasonal
    /\ inp.flags \cap {"one_day_spike", "seasonality"} = {}
    /\ inp.trend.state \in EligibleTrendStates
    /\ Cardinality({f.type : f \in inp.facts}) >= 3
    /\ Cardinality({f.class : f \in inp.facts}) >= 2
    /\ Cardinality(Groups(inp)) >= 2
    /\ inp.trend.score >= 3000 /\ inp.trend.confidence >= 3500
    /\ inp.trend.obs >= 20 /\ inp.trend.history >= 45
    /\ 100 * inp.trend.missing <= 35 * inp.trend.obs
    /\ 4 * Cardinality({f \in inp.facts : f.proxy}) <= 3 * Cardinality(inp.facts)
    /\ Solid(inp) # {}

-----------------------------------------------------------------------------
(* The eight components.                                                   *)

\* The fraction of the first band that v reaches.
Rate(v) ==
    CASE v >= 100 -> 100 [] v \in 50..99 -> 85 [] v \in 25..49 -> 70
      [] v \in 10..24 -> 50 [] v \in 3..9 -> 30 [] v \in 0..2 -> 15 [] OTHER -> 0

RealAdoption(inp) ==
    LET n == Cardinality(Adoption(inp))
        growth == MeanGrowth(Adoption(inp))
    IN  IF n = 0 THEN 0
        ELSE IF growth = None THEN 500
        ELSE 12 * Rate(growth) + (800 * Min({n, 3})) \div 3

Fraction(table, v) == IF v \in DOMAIN table THEN table[v] ELSE 0

MarketPotential(inp) ==
    Fraction([large |-> 1500, medium |-> 975, small |-> 525, tiny |-> 150], inp.market)

EvidenceDiversity(inp) ==
      (750 * Min({Cardinality(Solid(inp)), 4})) \div 4
    + (450 * Min({Cardinality(Groups(inp)) - 1, 3})) \div 3
    + 3 * Reliability(inp)

EarlyStages == {"weak_signal", "emerging", "early_adoption"}
LateStages == {"mainstream", "mature"}

CompetitionRate(n) ==
    CASE n <= 1 -> 100 [] n \in 2..3 -> 75 [] n \in 4..8 -> 45 [] n \in 9..20 -> 20 [] OTHER -> 5

\* How early each part says it is, None where it says nothing.
EntryParts(inp) ==
    LET when(value, rate) == IF value = None THEN None ELSE rate
    IN  [penetration |-> when(inp.penetration,
             Fraction([none |-> 100, low |-> 80, medium |-> 40, high |-> 0], inp.penetration)),
         competitors |-> when(inp.competitors, CompetitionRate(inp.competitors)),
         awareness |-> when(inp.awareness, Fraction([low |-> 100, medium |-> 50, high |-> 0], inp.awareness)),
         stage |-> IF inp.trend.stage \in EarlyStages THEN 80
                   ELSE IF inp.trend.stage \in LateStages THEN 5 ELSE None]

\* The mean of whatever is known: an unknown part is left out of the mean.
EarlyEntry(inp) ==
    LET parts == EntryParts(inp)
        known == {p \in DOMAIN parts : parts[p] # None}
    IN  IF known = {} THEN 0 ELSE (15 * SumFunctionOnSet(parts, known)) \div Cardinality(known)

CapitalOpenness(capital) ==
    IF capital = None THEN 50
    ELSE CASE capital <= 1 -> 100 [] capital \in 2..10 -> 85 [] capital \in 11..100 -> 60
           [] capital \in 101..1000 -> 35 [] OTHER -> 15

ProhibitiveCapital == 10000

\* Mutant: every further barrier has to be reinforced too.
AccessibilityVerdictTwo(inp) ==
    /\ inp.barriers = 2
    /\ \/ inp.capital # None /\ inp.capital >= ProhibitiveCapital
       \/ inp.difficulty = "high"

\* Is there no way in at all?  Capital only reinforces recorded barriers.
AccessibilityVerdict(inp) ==
    \/ inp.barriers >= 3
    \/ /\ inp.barriers = 2
       /\ \/ inp.capital # None /\ inp.capital >= ProhibitiveCapital
          \/ inp.difficulty = "high"

Accessibility(inp) ==
    LET ease == IF inp.difficulty = None THEN 50
                ELSE Fraction([low |-> 100, medium |-> 60, high |-> 25], inp.difficulty)
        room == 40 * CapitalOpenness(inp.capital) + 35 * ease + 2500 - 625 * Min({inp.barriers, 4})
    IN  IF AccessibilityVerdict(inp) THEN 0 ELSE Max({0, room}) \div 10

Defensibility(inp) == (1000 * Min({inp.markers, 3})) \div 3

Catalyst(inp) == Fraction([linked |-> 1000, dated |-> 500, claimed |-> 300], inp.catalyst)

Timing(inp) ==
    LET table == [weak_signal |-> 300, emerging |-> 500, early_adoption |-> 450,
                  accelerating |-> 350, mainstream |-> 100, mature |-> 0, declining |-> 0]
    IN  IF inp.trend.stage \in DOMAIN table THEN table[inp.trend.stage] ELSE 150

Components(inp) ==
      RealAdoption(inp) + MarketPotential(inp) + EvidenceDiversity(inp) + EarlyEntry(inp)
    + Accessibility(inp) + Defensibility(inp) + Catalyst(inp) + Timing(inp)

-----------------------------------------------------------------------------
PenaltyPoints ==
    [extreme_valuation |-> 15, weak_adoption_evidence |-> 15, attention_without_adoption |-> 15,
     tiny_market |-> 10, extreme_competition |-> 10, easily_copied |-> 8,
     regulatory_uncertainty |-> 10, supply_chain_fragility |-> 8, single_supplier |-> 8,
     single_customer |-> 10, poor_liquidity |-> 10, concentrated_ownership |-> 12,
     anonymous_team |-> 12, promotional_manipulation |-> 15, low_quality_evidence |-> 10,
     single_source_dependence |-> 10, already_mainstream |-> 12,
     difficult_local_execution |-> 8, poor_economics |-> 10, excessive_capital |-> 8]

\* Talk far ahead of use.
Hype(inp, factor, floor) ==
    LET talk == MeanGrowth(Attention(inp))
        use == MeanGrowth(Adoption(inp))
    IN  talk # None /\ use # None /\ talk > floor /\ 10 * talk > factor * use

\* The penalties the scorer raises by itself, and those of the analyzers' flags.
OwnPenalties(inp) ==
      (IF RealAdoption(inp) = 0 THEN {"weak_adoption_evidence"} ELSE {})
 \cup (IF Attention(inp) # {} /\ (Adoption(inp) = {} \/ Hype(inp, 30, 40))
       THEN {"attention_without_adoption"} ELSE {})
 \cup (IF Cardinality(Groups(inp)) < 2 THEN {"single_source_dependence"} ELSE {})
 \cup (IF Reliability(inp) < 55 THEN {"low_quality_evidence"} ELSE {})
 \cup (IF inp.market = "tiny" THEN {"tiny_market"} ELSE {})
 \cup (IF inp.trend.stage \in LateStages THEN {"already_mainstream"} ELSE {})
 \cup (IF inp.competitors # None /\ inp.competitors >= 15 THEN {"extreme_competition"} ELSE {})
 \cup (IF inp.markers = 0 /\ inp.type \in {"business", "import_distribution"}
       THEN {"easily_copied"} ELSE {})

Penalties(inp) == OwnPenalties(inp) \cup (inp.flags \cap DOMAIN PenaltyPoints)

MaxTotalPenalty == 65

ScoreOpportunity(inp) ==
    LET total == SumFunctionOnSet(PenaltyPoints, Penalties(inp))
    IN  Max({0, Components(inp) - 100 * Min({total, MaxTotalPenalty})})

-----------------------------------------------------------------------------
RequiredEvidence ==
    [business |-> {"adoption", "demand_pain", "competition", "willingness_to_pay"},
     import_distribution |-> {"trade", "local_availability", "supplier", "shipping_economics", "price"},
     public_investment |-> {"financial", "revenue_growth", "valuation", "competitive_position"},
     crypto |-> {"adoption", "developer", "liquidity", "token_distribution", "audit", "team"}]

Missing(inp) == RequiredEvidence[inp.type] \ inp.kinds

\* 15 exp(-age/45), at the ages the model uses.
FreshnessCurve ==
    [age \in {0, 30, 100, 130} |->
        CASE age = 0 -> 1500 [] age = 30 -> 770 [] age = 100 -> 163 [] age = 130 -> 83]

Freshest(inp) == Min({f.age : f \in inp.facts})

ScoreConfidence(inp) ==
    LET growing == {f \in inp.facts : f.g30 # None}
        n == Cardinality(growing)
        up == Cardinality({f \in growing : f.g30 > 0})
        agreement == IF n < 2 THEN 0 ELSE (1500 * Max({2 * up - n, n - 2 * up})) \div n
        parts ==   (2000 * Min({inp.trend.obs, 120})) \div 120
                 + 20 * Reliability(inp)
                 + (2000 * Min({Cardinality(Groups(inp)) - 1, 3})) \div 3
                 + FreshnessCurve[Freshest(inp)]
                 + agreement
                 + (IF inp.commercial THEN 1000 ELSE 0)
                 - (2000 * Cardinality(Missing(inp))) \div Cardinality(RequiredEvidence[inp.type])
                 - 100 * Min({15, 3 * inp.assumptions})
                 - (IF Freshest(inp) > 90 THEN 1500 ELSE 0)
    IN  Max({0, Min({10000, parts})})

-----------------------------------------------------------------------------
OpportunityStates == {"candidate", "watchlist", "promising", "strong_evidence", "weakening",
                      "invalidated", "archived"}

\* What the scores alone say.
Merited(score, confidence, risk) ==
    IF score >= 7000 /\ confidence >= 6500 /\ risk # "very_high" THEN "strong_evidence"
    ELSE IF score >= 5500 /\ confidence >= 4500 THEN "promising"
    ELSE IF score >= 3500 THEN "watchlist" ELSE "candidate"

NextState(current, peak, score, confidence, risk, skeptic, age) ==
    CASE skeptic = "reject" -> "invalidated"
      [] skeptic # "reject" /\ age > 120 -> "archived"
      [] OTHER ->
         IF peak - score >= 1800 /\ current \in {"watchlist", "promising", "strong_evidence"}
         THEN "weakening" ELSE Merited(score, confidence, risk)
=============================================================================
