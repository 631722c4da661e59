----------------------------- MODULE Assessment -----------------------------
(***************************************************************************)
(* One (trend, type) pair from the gate to the verdict: evaluate_one of    *)
(* services/opportunities.py, with the risk assessment                     *)
(* (analytics/risk_engine.py) and the skeptic (analytics/skeptic.py).      *)
(***************************************************************************)
EXTENDS OpportunityScoring, Sequences

-----------------------------------------------------------------------------
(* Which types a subject is examined as.                                   *)

CandidateTypes(entities, classes) ==
    IF entities \cap {"crypto_asset", "token"} # {} THEN {"crypto"}
    ELSE   When("public_company" \in entities, "public_investment")
      \cup When("trade" \in classes /\ entities \cap {"product", "commodity"} # {}, "import_distribution")
      \cup When(entities \cap {"technology", "product", "software_project", "problem", "skill", "industry"}
                  # {}, "business")

-----------------------------------------------------------------------------
(* Risk: the most serious finding decides, never the average.              *)

Levels == <<"low", "moderate", "high", "very_high">>
RankOf(level) == CHOOSE i \in DOMAIN Levels : Levels[i] = level

HighRiskFlags == {"attention_without_adoption", "weak_adoption_evidence", "extreme_valuation",
    "extreme_competition", "regulatory_uncertainty", "supply_chain_fragility", "single_supplier",
    "single_customer", "poor_liquidity", "concentrated_ownership", "anonymous_team",
    "promotional_manipulation", "poor_economics"}
MediumRiskFlags == {"single_source_dependence", "low_quality_evidence", "easily_copied",
    "excessive_capital", "difficult_local_execution", "already_mainstream", "tiny_market"}

\* The rows that are stored: hints, the flags that are not hints already, and
\* the risk of an early technology.
Risks(hints, flags, stage) ==
    LET hinted == {h.code : h \in hints}
    IN  hints
        \cup {Hint(f, "high") : f \in (flags \cap HighRiskFlags) \ hinted}
        \cup {Hint(f, "medium") : f \in (flags \cap MediumRiskFlags) \ hinted}
        \cup When(stage \in {"weak_signal", "emerging"},
                    [code |-> "unproven_technology", severity |-> "medium", confidence |-> 60])

AssessRisk(type, risks, minRisk) ==
    LET severe == {r \in risks : r.severity = "high" /\ r.confidence >= 50}
        level == CASE \E r \in risks : r.severity = "blocking" -> 4
                   [] OTHER -> IF Cardinality(severe) >= 3 THEN 4
                               ELSE IF severe # {} THEN 3
                               ELSE IF \E r \in risks : r.severity = "medium" THEN 2 ELSE 1
        floor == IF minRisk # None THEN minRisk ELSE IF type = "crypto" THEN CryptoMinRisk ELSE None
    IN  Levels[IF floor = None THEN level ELSE Max({level, RankOf(floor)})]

-----------------------------------------------------------------------------
(* The skeptic argues against, and takes confidence away.                  *)

Manipulation(inp, duplication) ==
    Max({0}
        \cup When(Adoption(inp) # {} /\ Hype(inp, 25, 30), 30)
        \cup When(duplication >= 40, 40)
        \cup When("promotional_manipulation" \in inp.flags, 60)
        \cup When("anonymous_team" \in inp.flags, 50))

Reduction(inp, analyzed, duplication) ==
    LET if(condition, points) == IF condition THEN points ELSE 0
        unadopted == Adoption(inp) = {}
    IN  Min({60,
          if(unadopted, 15) + if(~unadopted /\ Hype(inp, 25, 30), 10)
        + if(Cardinality(Groups(inp)) < 2, 12) + if(duplication >= 40, 8)
        + if(Reliability(inp) < 55, 8) + if(inp.trend.stage \in LateStages, 8)
        + if(inp.competitors # None /\ inp.competitors >= 15, 6)
        + if(analyzed.valuation = "extreme", 10) + if(analyzed.valuation = "NOT ASSESSED", 8)
        + if(~analyzed.paying, 10) + if(inp.market \in {None, "tiny"}, 6)
        + if(inp.trend.history < 120, 8) + if(inp.markers = 0, 6)
        + if("regulatory_uncertainty" \in inp.flags, 6)
        + if(Manipulation(inp, duplication) >= 50, 12)})

SkepticStatus(inp, analyzed, duplication, risk) ==
    LET unadopted == Adoption(inp) = {}
        reduction == Reduction(inp, analyzed, duplication)
        late == \/ inp.trend.stage \in LateStages \/ inp.awareness = "high"
                \/ inp.competitors # None /\ inp.competitors >= 15
    IN  IF Manipulation(inp, duplication) >= 60 THEN "possible_manipulation"
        ELSE IF unadopted THEN IF risk = "very_high" THEN "reject" ELSE "insufficient_evidence"
        ELSE IF reduction >= 40 THEN "high_speculation"
        ELSE IF late THEN "watch_only"
        ELSE IF reduction <= 12 /\ Cardinality(Groups(inp)) >= 2 THEN "strong_evidence"
        ELSE "continue_research"

\* Shared by _duplication and what it calls: titles are passed where pairs are
\* expected, so the ratio is always nought.
Duplication(headlines) == 0

-----------------------------------------------------------------------------
(* The whole chain.                                                        *)

InputOf(type, trend, facts, ctx) ==
    [type |-> type, trend |-> trend, facts |-> facts,
     market |-> Get(ctx, "market_size_band"), penetration |-> Get(ctx, "local_penetration"),
     competitors |-> Get(ctx, "competitor_count"), awareness |-> Get(ctx, "awareness"),
     capital |-> Get(ctx, "capital_required"), difficulty |-> Get(ctx, "technical_difficulty"),
     barriers |-> IF Knows(ctx, "barriers") THEN ctx["barriers"] ELSE 0,
     markers |-> IF Knows(ctx, "defensibility_markers") THEN ctx["defensibility_markers"] ELSE 0,
     catalyst |-> Get(ctx, "catalyst"), commercial |-> Knows(ctx, "has_commercial_data"),
     flags |-> {}, kinds |-> {}, assumptions |-> 0]

\* The input as the analyzer leaves it.
Enriched(inp, analyzed) ==
    [inp EXCEPT !.flags = @ \cup analyzed.flags, !.kinds = @ \cup analyzed.kinds,
                !.assumptions = analyzed.assumptions]

Completeness(inp, analyzed) ==
    (100 * Cardinality(inp.kinds)) \div Max({1, Cardinality(inp.kinds) + analyzed.missing})

InformedNegative(trend, completeness) == trend.score >= 4000 /\ completeness >= 50

Assess(type, trend, facts, ctx, headlines) ==
    LET asked == InputOf(type, trend, facts, ctx)
        analyzed == RunAnalyzer(type, facts, ctx)
        inp == Enriched(asked, analyzed)
        score == ScoreOpportunity(inp)
        risks == Risks(analyzed.hints, inp.flags, trend.stage)
        risk == AssessRisk(type, risks, analyzed.minRisk)
        duplication == Duplication(headlines)
        reduction == 100 * Reduction(inp, analyzed, duplication)
        confidence == Max({0, ScoreConfidence(inp) - reduction})
    IN  [passed |-> CheckGate(asked), score |-> score, confidence |-> confidence,
         risk |-> risk, risks |-> {r.code : r \in risks}, penalties |-> Penalties(inp),
         skeptic |-> SkepticStatus(inp, analyzed, duplication, risk),
         closed |-> AccessibilityVerdict(inp), age |-> Freshest(inp),
         informed |-> InformedNegative(trend, Completeness(inp, analyzed)),
         conditions |-> analyzed.conditions]

\* Only what survives every refusal is stored.
Stored(a) ==
    /\ a.passed /\ ~a.closed
    /\ a.score >= 2200 \/ a.informed
    /\ a.confidence >= 3000

StateOf(a, current, peak) ==
    NextState(current, Max({peak, a.score}), a.score, a.confidence, a.risk, a.skeptic, a.age)
=============================================================================
