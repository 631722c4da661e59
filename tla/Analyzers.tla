------------------------------ MODULE Analyzers ------------------------------
(***************************************************************************)
(* The four analyzers that turn the facts of a trend and the context of a  *)
(* candidate into flags, evidence kinds, assumptions and risk hints        *)
(* (analytics/analyzers.py).  The context ctx is a function on the keys    *)
(* that are known; what is not in its domain is UNKNOWN.  Shares are in    *)
(* percent, money in thousands of dollars.                                 *)
(***************************************************************************)
EXTENDS Integers, FiniteSets

CONSTANT None

Get(ctx, key) == IF key \in DOMAIN ctx THEN ctx[key] ELSE None
Knows(ctx, key) == key \in DOMAIN ctx

\* Comparisons are false for what is not known.
Above(ctx, key, bound) == Knows(ctx, key) /\ ctx[key] > bound
Below(ctx, key, bound) == Knows(ctx, key) /\ ctx[key] < bound
Classes(facts) == {f.class : f \in facts}
When(condition, x) == IF condition THEN {x} ELSE {}

Hint(code, severity) == [code |-> code, severity |-> severity, confidence |-> 70]

\* A condition that monitoring can measure, and one that it never can.
Measure(type, comparator, value, window) ==
    [type |-> type, comparator |-> comparator, value |-> value, window |-> window]
Unmeasurable == Measure(None, None, 0, 90)

-----------------------------------------------------------------------------
(* Every analyzer returns [flags, kinds, missing, assumptions, hints,      *)
(* minRisk, conditions, paying, valuation].                                *)

AnalyseBusiness(facts, ctx) ==
    LET classes == Classes(facts)
        noPrice == ~Knows(ctx, "willingness_to_pay")
    IN  [flags |-> When(noPrice /\ "commercial" \notin classes, "weak_adoption_evidence")
                \cup When(~Above(ctx, "defensibility_markers", 0), "easily_copied")
                \cup When(Above(ctx, "competitor_count", 14), "extreme_competition")
                \cup When(Above(ctx, "capital_required", 250), "excessive_capital"),
         kinds |-> When("demand_pain" \in classes, "demand_pain")
                \cup When(~noPrice, "willingness_to_pay")
                \cup When(classes \cap {"developer", "commercial"} # {}, "adoption")
                \cup When("commercial" \in classes, "commercial")
                \cup When(Knows(ctx, "competitor_count"), "competition"),
         missing |-> Cardinality(When("demand_pain" \notin classes, "pain")
                \cup When(~Knows(ctx, "competitor_count"), "competitors") \cup When(noPrice, "price")),
         assumptions |-> IF Knows(ctx, "capital_required") THEN 0 ELSE 1,
         hints |-> {}, minRisk |-> None,
         \* The conditions name a signal class or a kind, never a signal type.
         conditions |-> {Unmeasurable},
         paying |-> ~noPrice, valuation |-> None]

ImportConditions ==
    {Measure("import_growth", "gt", 0, 180), Measure("supplier_count_change", "lte", 0, 180),
     Measure("supplier_count_change", "gt", 50, 180), Measure("import_growth", "lt", 0, 90),
     Unmeasurable}

AnalyseImport(facts, ctx) ==
    LET sized == Knows(ctx, "unit_weight") \/ Knows(ctx, "unit_volume")
        guessed == ~Knows(ctx, "shipping_difficulty") /\ sized
        keys == [supplier_count |-> "supplier", local_availability |-> "local_availability",
                 margin_evidence |-> "shipping_economics", price_evidence |-> "price"]
        known == DOMAIN keys \cap DOMAIN ctx
    IN  [flags |-> When(Get(ctx, "manufacturing_concentration") \in {"single_country", "single_factory"},
                        "supply_chain_fragility")
                \cup When(Below(ctx, "supplier_count", 2), "single_supplier")
                \cup When(Get(ctx, "certification") \notin {None, "none", "not_required"},
                          "regulatory_uncertainty")
                \cup When(~Knows(ctx, "margin_evidence"), "poor_economics")
                \cup When(Get(ctx, "market_education_needed") = "high", "difficult_local_execution"),
         kinds |-> {keys[k] : k \in known}
                \cup (IF "trade" \in Classes(facts) THEN {"trade", "adoption"} ELSE {}),
         missing |-> Cardinality(DOMAIN keys \ known),
         assumptions |-> Cardinality(When(~Knows(ctx, "margin_evidence"), "margin")
                                     \cup When(guessed, "shipping")),
         hints |-> {}, minRisk |-> None, conditions |-> ImportConditions,
         paying |-> TRUE, valuation |-> None]

CompanyConditions ==
    {Measure("revenue_acceleration", "gt", 0, 180), Measure("revenue_acceleration", "lte", 0, 180),
     Unmeasurable}

\* Business quality and price are kept apart; a stale price is no price.
AnalysePublicCompany(facts, ctx) ==
    LET priced == Below(ctx, "price_age_days", 6)
        reported == {"revenue_growth", "gross_margin", "free_cash_flow", "debt_to_equity"}
        indebted == Above(ctx, "debt_to_equity", 200)
        losing == Below(ctx, "operating_margin", 0)
        dependent == Above(ctx, "customer_concentration", 30)
    IN  [flags |-> When(priced /\ Get(ctx, "valuation_band") = "extreme", "extreme_valuation")
                \cup When(indebted \/ losing, "poor_economics")
                \cup When(dependent, "single_customer"),
         kinds |-> (IF Knows(ctx, "revenue_growth") THEN {"financial", "revenue_growth"} ELSE {})
                \cup When(Knows(ctx, "trend_exposure"), "competitive_position")
                \cup When(priced, "valuation"),
         missing |-> Cardinality(reported \ DOMAIN ctx)
                   + Cardinality(When(~Knows(ctx, "trend_exposure"), "exposure") \cup When(~priced, "price")),
         assumptions |-> IF priced THEN 0 ELSE 1,
         hints |-> When(indebted, Hint("high_leverage", "high"))
                \cup When(losing, Hint("unprofitable", "high"))
                \cup When(dependent, Hint("customer_concentration", "high")),
         minRisk |-> None, conditions |-> CompanyConditions,
         paying |-> TRUE,
         valuation |-> IF priced THEN Get(ctx, "valuation_band") ELSE "NOT ASSESSED"]

CryptoMinRisk == "high"

AnalyseCrypto(facts, ctx) ==
    LET dev == "developer" \in Classes(facts)
        unaudited == ~Above(ctx, "audits", 0)
        thin == Below(ctx, "liquidity", 250)
        concentrated == Above(ctx, "top10_share", 50) \/ Above(ctx, "insider_share", 30)
        anonymous == Get(ctx, "founders_identified") = FALSE
        bots == Above(ctx, "bot_activity_share", 40)
        paid == Get(ctx, "influencer_promotion") = TRUE
        automatic ==
               (IF Get(ctx, "utility") \in {None, "none"} /\ ~dev THEN {"meme_coin", "no_product"} ELSE {})
            \cup When(anonymous, "anonymous_team") \cup When(thin, "low_liquidity")
            \cup When(concentrated, "concentrated_ownership")
            \cup When(unaudited, "unverified_contract") \cup When(bots, "suspicious_volume")
            \cup When(paid, "promotional_hype")
            \cup When(Get(ctx, "returns_depend_on_inflow") = TRUE, "ponzi_like_incentives")
        asked == {"adoption", "liquidity", "token_distribution", "audit"}
        \* Either of the two shares tells how the token is distributed.
        told == Knows(ctx, "top10_share") \/ Knows(ctx, "insider_share")
        found == When(Knows(ctx, "active_users"), "adoption") \cup When(Knows(ctx, "liquidity"), "liquidity")
            \cup When(told, "token_distribution") \cup When(~unaudited, "audit")
    IN  [flags |-> When(anonymous, "anonymous_team")
                \cup When(thin \/ Above(ctx, "exchange_concentration", 70), "poor_liquidity")
                \cup When(concentrated, "concentrated_ownership")
                \cup When(bots \/ paid, "promotional_manipulation")
                \cup When("attention" \in Classes(facts) /\ ~Above(ctx, "active_users", 0) /\ ~dev,
                          "attention_without_adoption"),
         kinds |-> found \cup When(dev, "developer")
                \cup When(Knows(ctx, "founders_identified"), "team"),
         missing |-> Cardinality(asked \ found),
         assumptions |-> 0,
         hints |-> {Hint(f, IF f = "ponzi_like_incentives" THEN "blocking" ELSE "high") : f \in automatic},
         minRisk |-> CryptoMinRisk, conditions |-> {Unmeasurable},
         paying |-> TRUE, valuation |-> None]

RunAnalyzer(type, facts, ctx) ==
    CASE type = "business" -> AnalyseBusiness(facts, ctx)
      [] type = "import_distribution" -> AnalyseImport(facts, ctx)
      [] type = "public_investment" -> AnalysePublicCompany(facts, ctx)
      [] type = "crypto" -> AnalyseCrypto(facts, ctx)
=============================================================================
