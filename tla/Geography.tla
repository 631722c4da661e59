------------------------------ MODULE Geography ------------------------------
(***************************************************************************)
(* Countries: how much is known about them (analytics/country.py), how far *)
(* one lags behind the others (analytics/geographic.py, with its           *)
(* predecessor in analytics/experimental.py), and the stored facts both    *)
(* start from (services/countries.py).                                     *)
(*                                                                         *)
(* A reading is a record [country, status, level, adoption, attention,     *)
(* suppliers, competitors, price, currency, since, coverage] whose fields  *)
(* are None where nothing is known; a stored fact is [key, value, at,      *)
(* confidence, status].  Market facts map the attributes that are known to *)
(* hundredths.  Points and shares are in hundredths.                       *)
(***************************************************************************)
EXTENDS Integers, Sequences, FiniteSets, SequencesExt, FiniteSetsExt, Functions, TLC

CONSTANT None

\* The mean of the known values of a function, None if there are none.
MeanOf(values) ==
    LET known == {r \in DOMAIN values : values[r] # None}
    IN  IF known = {} THEN None ELSE SumFunctionOnSet(values, known) \div Cardinality(known)

-----------------------------------------------------------------------------
(* Stored facts: the newest of each key, put on a scale from 0 to 100.     *)

\* attribute, lowest, highest, whether high is good
Normalisers ==
    [internet_penetration |-> <<"internet", 0, 100, TRUE>>,
     payment_infrastructure |-> <<"payments", 0, 100, TRUE>>,
     logistics_performance |-> <<"logistics", 1, 5, TRUE>>,
     electricity_reliability |-> <<"electricity", 0, 100, TRUE>>,
     business_formation_days |-> <<"formation", 1, 120, FALSE>>,
     import_restrictions |-> <<"openness", 0, 100, FALSE>>,
     regulatory_environment |-> <<"regulation", 0, 100, TRUE>>,
     gdp_per_capita_ppp |-> <<"purchasing", 500, 80000, TRUE>>]

Normalise(key, value) ==
    LET low == Normalisers[key][2]
        high == Normalisers[key][3]
        share == Max({0, Min({100, (100 * (value - low)) \div (high - low)})})
    IN  IF Normalisers[key][4] THEN share ELSE 100 - share

FactsFor(stored) == {f \in stored : \A g \in stored : g.key = f.key => g.at <= f.at}

\* The newest row of a key counts even when it says that nothing was measured.
MarketFacts(stored) ==
    LET usable == {f \in FactsFor(stored) :
                      f.status = "measured" /\ f.value # None /\ f.key \in DOMAIN Normalisers}
    IN  [a \in {Normalisers[f.key][1] : f \in usable} |->
            LET f == CHOOSE g \in usable : Normalisers[g.key][1] = a IN Normalise(f.key, f.value)]

-----------------------------------------------------------------------------
(* Coverage: how much we hold, not how good the country is.                *)

\* Weights in tenths.
CoverageFacts ==
    [gdp_per_capita_ppp |-> 15, currency |-> 5, import_restrictions |-> 15]
    @@ [k \in {"population", "internet_penetration", "ecommerce_maturity", "digital_adoption",
               "business_formation_days", "customs_environment", "relevant_taxes",
               "logistics_performance", "payment_infrastructure", "regulatory_environment",
               "key_industries", "labour_cost_index", "electricity_reliability", "trade_partners"} |-> 10]

FactStaleDays == 1095
LowCoverage == 40

ComputeCoverage(stored, signals, sources, now) ==
    LET usable == {f \in FactsFor(stored) : f.key \in DOMAIN CoverageFacts /\ f.status = "measured"}
        worth(f) == CoverageFacts[f.key] * (IF now - f.at <= FactStaleDays THEN 2 ELSE 1)
                    * Max({20, Min({100, f.confidence})})
        facts == MapThenSumSet(worth, usable) \div (2 * SumFunction(CoverageFacts))
    IN  (50 * facts + 30 * Min({100, 5 * signals}) + 20 * Min({100, 20 * sources})) \div 100

-----------------------------------------------------------------------------
(* Readings: not measured is not the same as nothing found.                *)

Measured(r) == r.status = "measured"
\* Mutant: a checked absence is taken for missing data.
NoDataLoose(r) == ~Measured(r)
NoData(r) == r.status = "no_data"

LevelRank == [none |-> 0, low |-> 1, emerging |-> 2, growing |-> 3, high |-> 4]

ClassifyLevel(r) ==
    IF ~Measured(r) \/ (r.level = None /\ r.adoption = None) THEN None
    ELSE IF r.level # None THEN r.level
    ELSE CASE r.adoption >= 60 -> "high"
           [] r.adoption \in 25..59 -> "growing"
           [] r.adoption \in 8..24 -> "emerging"
           [] OTHER -> IF r.adoption > 0 THEN "low" ELSE "none"

RankOf(r) == IF ClassifyLevel(r) = None THEN None ELSE LevelRank[ClassifyLevel(r)]
RankOrZero(r) == IF RankOf(r) = None THEN 0 ELSE RankOf(r)

ConfidencePenalty(readings) ==
    LET measured == Cardinality({r \in readings : Measured(r)})
        low == Cardinality({r \in readings : r.coverage # None /\ r.coverage < LowCoverage})
        total == Max({1, Cardinality(readings)})
    IN  Min({3000, (3000 * (total - measured)) \div total + Min({1000, 200 * low})})

-----------------------------------------------------------------------------
(* The gap of one market: the points of the dimensions that were measured. *)

GapDimensions ==
    [adoption_gap |-> 22, supply_gap |-> 15, competition_gap |-> 13, attention_gap |-> 10,
     price_gap |-> 8, infrastructure_readiness |-> 12, regulatory_readiness |-> 10,
     affordability |-> 6, time_lag |-> 4]

\* A dimension that was not measured is not in the result at all.
Dim(key, points) == key :> Max({0, Min({100 * GapDimensions[key], points})})
Unmeasured == << >>

Leaders(readings, target) == {r \in readings : r.country # target /\ Measured(r)}

AdoptionGap(leaders, t) ==
    LET leadLevel == MeanOf([r \in leaders |->
                        IF RankOf(r) = None THEN None ELSE 100 * RankOf(r)])
        leadGrowth == MeanOf([r \in leaders |-> r.adoption])
        lead == IF leadLevel = None THEN 0 ELSE leadLevel
        levelGap == Max({0, lead - 100 * RankOrZero(t)}) \div 4
        growthGap == IF None \in {leadGrowth, t.adoption} THEN 0
                     ELSE Min({100, Max({0, leadGrowth - t.adoption})})
    IN  IF NoData(t) THEN Unmeasured
        ELSE IF t.status = "no_signal"
        THEN Dim("adoption_gap", 22 * (IF lead = 0 THEN 50 ELSE lead \div 4))
        ELSE Dim("adoption_gap", (22 * Min({100, (65 * levelGap + 35 * growthGap) \div 100})))

SupplyGap(t) ==
    LET n == t.suppliers
    IN  IF n = None THEN Unmeasured
        ELSE Dim("supply_gap", 15 * (CASE n = 0 -> 100 [] n \in 1..2 -> 75 [] n \in 3..5 -> 40
                                       [] n \in 6..15 -> 10 [] OTHER -> 0))

\* A dimension by how far the target stays behind the mean of the leaders:
\* so many points for each "per" of the distance.
Against(key, leaders, t, field, points, per) ==
    LET lead == MeanOf([r \in leaders |-> r[field]])
    IN  IF None \in {lead, t[field]} THEN Unmeasured
        ELSE Dim(key, (points * Max({0, lead - t[field]})) \div per)

PriceGap(leaders, t) ==
    LET lead == MeanOf([r \in {x \in leaders : x.currency = t.currency} |-> r.price])
    IN  IF None \in {t.price, t.currency, lead} \/ lead = 0 THEN Unmeasured
        ELSE Dim("price_gap", (1200 * (t.price - lead)) \div lead)

Readiness(key, facts, attributes) ==
    LET known == attributes \cap DOMAIN facts
        value(a) == facts[a]
    IN  IF known = {} THEN Unmeasured
        ELSE Dim(key, GapDimensions[key] * (MapThenSumSet(value, known) \div Cardinality(known)))

\* The market itself may have no reading at all.
NoReading(country) ==
    [country |-> country, status |-> "no_data", level |-> None, adoption |-> None,
     attention |-> None, suppliers |-> None, competitors |-> None, price |-> None,
     currency |-> None, since |-> None, coverage |-> None]

ReadingOf(readings, target) ==
    IF \E r \in readings : r.country = target THEN CHOOSE r \in readings : r.country = target
    ELSE NoReading(target)

Dimensions(readings, target, facts) ==
    LET leaders == Leaders(readings, target)
        t == ReadingOf(readings, target)
    IN  AdoptionGap(leaders, t) @@ SupplyGap(t)
        @@ Against("competition_gap", leaders, t, "competitors", 120, 1)
        @@ Against("attention_gap", leaders, t, "attention", 10, 1)
        @@ PriceGap(leaders, t)
        @@ Readiness("infrastructure_readiness", facts,
                     {"internet", "payments", "logistics", "electricity"})
        @@ Readiness("regulatory_readiness", facts, {"formation", "openness", "regulation"})
        @@ Readiness("affordability", facts, {"purchasing"})
        @@ Against("time_lag", leaders, t, "since", 100, 150)

AnalyseGap(readings, target, facts) ==
    LET dims == Dimensions(readings, target, facts)
    IN  IF Leaders(readings, target) = {} \/ DOMAIN dims = {} THEN None
        ELSE Min({10000, SumFunction(dims)})

-----------------------------------------------------------------------------
(* Where else could it work?                                               *)

Attributes == {Normalisers[k][1] : k \in DOMAIN Normalisers}

Similarity(a, b) ==
    LET shared == DOMAIN a \cap DOMAIN b \cap Attributes
        likeness(k) == 100 - Max({a[k] - b[k], b[k] - a[k]})
    IN  IF shared = {} THEN None ELSE MapThenSumSet(likeness, shared) \div Cardinality(shared)

TransferDimensions == [purchasing |-> 20, internet |-> 20, regulation |-> 15, logistics |-> 15]

\* None when fewer than three considerations have any points.
TransferabilityScore(sources, factsOf, target, gap) ==
    LET facts == factsOf[target]
        of(c, k) == IF k \in DOMAIN factsOf[c] THEN factsOf[c][k] ELSE None
        source(k) == MeanOf([c \in sources |-> of(c, k)])
        languages == {of(c, "language") : c \in sources} \ {None}
        compared == [k \in DOMAIN TransferDimensions |->
            IF k \notin DOMAIN facts \/ source(k) \in {None, 0} THEN 0
            ELSE TransferDimensions[k] * Min({100, (100 * facts[k]) \div source(k)})]
        parts == compared @@ ("headroom" :> 20 * (gap \div 100)) @@
            ("language" :> IF of(target, "language") = None \/ languages = {} THEN 0
                           ELSE IF of(target, "language") \in languages THEN 1000 ELSE 300)
    IN  IF sources = {} \/ Cardinality({k \in DOMAIN parts : parts[k] > 0}) < 3 THEN None
        ELSE SumFunction(parts)

MinSimilarity == 60
MinGap == 2500

\* Established elsewhere, rare here, and the conditions are alike.
Localizations(readings, factsOf) ==
    LET strong == {r \in readings : Measured(r) /\ RankOrZero(r) >= 3}
        likeness(r, s) == IF {r.country, s.country} \subseteq DOMAIN factsOf
                          THEN Similarity(factsOf[s.country], factsOf[r.country]) ELSE None
        alike(r) == {s \in strong : likeness(r, s) # None /\ likeness(r, s) >= MinSimilarity}
        gap(r) == AnalyseGap(readings, r.country, factsOf[r.country])
    IN  {[target |-> r.country, gap |-> gap(r), sources |-> {s.country : s \in alike(r)},
          transfer |-> TransferabilityScore({s.country : s \in alike(r)}, factsOf, r.country, gap(r))] :
            r \in {q \in readings \ strong :
                     /\ ~NoData(q) /\ (Measured(q) => RankOrZero(q) < 2)
                     /\ alike(q) # {}
                     /\ gap(q) # None /\ gap(q) >= MinGap}}

-----------------------------------------------------------------------------
(* The older, experimental measures of an opportunity.                     *)

ExperimentalGap(leaders, t) ==
    LET mean(field) == MeanOf([r \in leaders |-> r[field]])
        lead == mean("adoption")
        leadPrice == MeanOf([r \in {x \in leaders : x.currency = t.currency} |-> r.price])
        part(field, most, points, per) ==
            IF None \in {mean(field), t[field]} THEN << >>
            ELSE field :> Min({most, (points * Max({0, mean(field) - t[field]})) \div per})
        n == t.suppliers
        parts ==
          (IF lead = None THEN << >>
           ELSE "adoption" :> IF t.adoption = None THEN 3000
                              ELSE Min({3000, 25 * Max({0, lead - t.adoption})}))
          @@ part("attention", 1500, 100, 8)
          @@ (IF n = None THEN << >>
              ELSE "supply" :> CASE n = 0 -> 2500 [] n \in 1..2 -> 1800 [] n \in 3..5 -> 800 [] OTHER -> 0)
          @@ part("competitors", 1500, 150, 1)
          @@ (IF None \in {t.price, t.currency, leadPrice} \/ leadPrice = 0 THEN << >>
              ELSE "price" :> Min({1000, Max({0, (2000 * (t.price - leadPrice)) \div leadPrice})}))
          @@ part("since", 500, 1, 1)
    IN  IF leaders = {} \/ DOMAIN parts = {} THEN None ELSE SumFunction(parts)
=============================================================================
