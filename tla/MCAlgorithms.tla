------------------------------ MODULE MCAlgorithms ----------------------------
(***************************************************************************)
(* The pure algorithms over bounded inputs.  Each behaviour takes one part *)
(* and lets its input x change the way it changes in use: reports of two   *)
(* publishers arrive, a person edits the profile, a market grows.  The     *)
(* properties compare the result before and after such a step, or with a   *)
(* reference definition.  Six more parts are the machines of Candidates,   *)
(* Periods, Conditions, RateLimiter, Clusters and Purge, which have        *)
(* variables of their own.                                                 *)
(***************************************************************************)
EXTENDS Candidates, Periods, Conditions, RateLimiter, Clusters, Purge, SequencesExt, TLC

CONSTANTS MaxReports

VARIABLES part, x
vars == <<part, x>>
machines == <<candidateVars, periodsVars, conditionsVars, limiterVars, clustersVars, purgeVars>>

E == INSTANCE TrendEvidence
R == INSTANCE Relevance
Y == INSTANCE Geography

-----------------------------------------------------------------------------
(* Two publishers report the same measure every ten days; a report of one  *)
(* of them may be missing, at most once.                                   *)

Amount == {100, 140, 900}
Publishers == 1..2

\* What the press writes: nothing, or one story by both, one of them rewritten.
Headlines == {<< >>, <<<<1, {1, 2, 3, 4, 5, 6}>>, <<2, {1, 2, 3, 4, 5, 6}>>, <<2, {1, 2, 3, 4, 5, 7}>>>>}

\* The first three reports are there, with at most one of them missing.
Reports0 == [values : [1..3 -> Amount], gap : {<<0, 0>>} \cup Publishers \X (1..3), press : Headlines]

Report(v, missing) ==
    /\ part = "reports" /\ Len(x.values) < MaxReports
    /\ missing # 0 => x.gap = <<0, 0>>
    /\ x' = [x EXCEPT !.values = Append(@, v),
                       !.gap = IF missing = 0 THEN @ ELSE <<missing, Len(x.values) + 1>>]
    /\ UNCHANGED part

SeriesOf(p) == [i \in DOMAIN x.values |->
    [at |-> 10 * i, value |-> IF x.gap = <<p, i>> THEN None ELSE x.values[i]]]

SignalOf(p) ==
    [type |-> <<"github_stars", "import_growth">>[p], proxy |-> FALSE, geo |-> "global",
     source |-> [id |-> p, group |-> None, reliability |-> 80, adapter |-> "github", class |-> "official"],
     series |-> SeriesOf(p)]

Trend == E!Measured([p \in Publishers |-> SignalOf(p)], x.press, "live_only", 10 * Len(x.values))

\* One report stands out, whatever the others do.
Burst == \E i \in DOMAIN x.values : \A j \in DOMAIN x.values : (x.values[j] = 900) <=> (i = j)

\* A single high report never makes a trend active or confirmed, wherever it
\* is in the series, however the rest moves, and also when one of the two
\* publishers missed it (detect_spike, the spike share in aggregate, next_state).
BurstsAreHeld ==
    (part = "reports" /\ Burst /\ \A p \in Publishers : Len(E!G!Reported(SeriesOf(p))) >= 5)
        => E!T!NextState("candidate", 0, Trend) \notin E!T!Promoted

-----------------------------------------------------------------------------
(* Candidates that are talked about, used or not, from the best case on.    *)

\* For each type, what can become worse.
Turns ==
    [business |->
        [competitor_count |-> <<1, 15>>, capital_required |-> <<1, 300>>, barriers |-> <<0, 2, 3>>,
         technical_difficulty |-> <<"low", "high">>, market_size_band |-> <<"large", "tiny">>],
     import_distribution |->
        [supplier_count |-> <<5, 1>>, certification |-> <<"not_required", "required">>,
         defensibility_markers |-> <<3, 0>>, barriers |-> <<0, 2, 3>>],
     public_investment |->
        [debt_to_equity |-> <<50, 300>>, operating_margin |-> <<10, -5>>,
         customer_concentration |-> <<10, 50>>, valuation_band |-> <<"fair", "extreme">>],
     crypto |->
        [top10_share |-> <<20, 60>>, founders_identified |-> <<TRUE, FALSE>>, audits |-> <<1, 0>>,
         returns_depend_on_inflow |-> <<FALSE, TRUE>>]]

\* What is known besides.
Background ==
    [business |-> [willingness_to_pay |-> TRUE, has_commercial_data |-> TRUE, catalyst |-> "linked",
                   local_penetration |-> "none", defensibility_markers |-> 3, awareness |-> "low"],
     import_distribution |-> [local_availability |-> "rare", margin_evidence |-> TRUE,
                   price_evidence |-> TRUE, market_size_band |-> "large", catalyst |-> "linked",
                   has_commercial_data |-> TRUE],
     public_investment |-> [price_age_days |-> 1, revenue_growth |-> 20, trend_exposure |-> "high",
                   gross_margin |-> 40, free_cash_flow |-> 1, market_size_band |-> "large",
                   has_commercial_data |-> TRUE, catalyst |-> "dated"],
     crypto |-> [active_users |-> 1000, utility |-> "payments", market_size_band |-> "large",
                   liquidity |-> 300, catalyst |-> "dated", has_commercial_data |-> TRUE]]

Fact(type, group, g30) ==
    [type |-> type, class |-> E!ClassOf(type), group |-> group, reliability |-> 90,
     proxy |-> type \in E!ProxySignals, adoption |-> type \in E!AdoptionSignals, g30 |-> g30, age |-> 0]

Use == {Fact("github_commit_velocity", "g1", 100), Fact("revenue_acceleration", "g2", 60)}
Talk == {Fact("media_coverage_growth", "g3", 90)}
Rest == {Fact("github_stars", "g4", 40), Fact("customer_complaint_frequency", "g5", 30),
         Fact("supplier_count_change", "g6", 20), Fact("regulatory_catalyst", "g7", 10)}

Subjects == {"technology", "commodity", "public_company", "token"}

BestTrend ==
    [score |-> 8000, confidence |-> 8000, stage |-> "emerging", state |-> "confirmed",
     spike |-> FALSE, seasonal |-> FALSE, history |-> 200, obs |-> 130, missing |-> 0]

BestCases ==
    {[type |-> t, trend |-> BestTrend, facts |-> used \cup Talk \cup Rest,
      ctx |-> [k \in DOMAIN Turns[t] |-> Turns[t][k][1]] @@ Background[t]] :
        t \in UNION {CandidateTypes({e}, {f.class : f \in Rest}) : e \in Subjects}, used \in {{}, Use}}

WorseNews == UNION {UNION {{k} \X Range(Turns[t][k]) : k \in DOMAIN Turns[t]} : t \in DOMAIN Turns}

-----------------------------------------------------------------------------
(* A person edits the profile: gains something, or refuses something.      *)

Person0 ==
    [home |-> "jo", residence |-> None, operating |-> {}, familiar |-> {}, excluded |-> {},
     disabled |-> {}, following |-> {}, barred |-> {}, skills |-> {}, experience |-> {},
     assets |-> {}, targets |-> << >>, ranking |-> <<"services", "business">>,
     flexible |-> "fixed", tolerance |-> "conservative", time |-> "few_hours_week",
     minScore |-> 0, minConfidence |-> 0, maxRisk |-> "high", maxRequired |-> None]

Offers ==
    {[type |-> "business", industry |-> "import_distribution", category |-> "import_distribution",
      place |-> p, evidence |-> {"de"}, score |-> 6000, confidence |-> 6000, risk |-> "high",
      capital |-> 40, paths |-> w] :
        p \in {"jo", "eg"}, w \in {{}, {"distribute", "provide_service"}}}

\* Budgets are stated in dinars: nothing, or in thousands of dollars 10 and 100.
Rates == (<<"USD", "JOD">> :> 50)
Profiles0 == [person : {Person0}, amount : {0, 5}, offer : Offers]

Budget(y) == R!Convert(Rates, y.amount, "JOD", "USD")

Sets == [skills |-> {"sales", "programming"}, assets |-> {"distribution_network"},
         operating |-> {"jo", "de"}, experience |-> {"import_distribution", "distribution"}]
Refusals == [excluded |-> {"jo"}, barred |-> {"import_distribution"}]

Gain ==
    /\ part = "profile"
    /\ \/ \E f \in DOMAIN Sets : \E v \in Sets[f] \ x.person[f] :
              x' = [x EXCEPT !.person[f] = @ \cup {v}]
       \/ \E c \in {"de", "eg"} \ Range(x.person.targets) :
              x' = [x EXCEPT !.person.targets = Append(@, c)]
       \/ /\ x.person.tolerance = "conservative"
          /\ x' = [x EXCEPT !.person.tolerance = "moderate", !.person.time = "full_time"]
       \/ x.amount < 50 /\ x' = [x EXCEPT !.amount = IF @ = 0 THEN 5 ELSE 50]
    /\ UNCHANGED part

Refuse ==
    /\ part = "profile"
    /\ \E f \in DOMAIN Refusals : \E v \in Refusals[f] \ x.person[f] :
          x' = [x EXCEPT !.person[f] = @ \cup {v}]
    /\ UNCHANGED part

\* What a person refuses never makes an offer more relevant, and never brings it
\* back inside the profile; what a person gains never makes one less relevant nor
\* moves it outside, but for the first skill and the first country of operation,
\* which end the benefit of the doubt, and the first money, which begins to count
\* as a limit (relevance.py).  The factors of a budget of nought cannot be
\* computed when a way in costs something.
ProfileIsMonotone ==
    [][part = "profile" /\ ~R!RelevanceFails(Budget(x), x.offer) =>
        LET fit(y) == R!Relevance(y.person, Budget(y), y.offer)
            outside(y) == R!OutsideProfile(y.person, Budget(y), y.offer)
            doubted == \E f \in {"skills", "operating"} : x.person[f] = {} /\ x'.person[f] # {}
        IN  IF \E f \in DOMAIN Refusals : x.person[f] # x'.person[f]
            THEN fit(x') <= fit(x) /\ (outside(x) => outside(x'))
            ELSE /\ doubted \/ fit(x') >= fit(x)
                 /\ x.amount = 0 \/ (outside(x') => outside(x))]_vars

-----------------------------------------------------------------------------
(* Three markets grow at their own pace.                                   *)

Markets == {"jo", "de", "eg"}
Steps == <<"no_signal", "none", "low", "emerging", "growing", "high">>

\* The stored facts of each market; the newest of a key counts.
MarketFact(key, value, at) == [key |-> key, value |-> value, at |-> at, confidence |-> 80, status |-> "measured"]
Facts == [jo |-> {MarketFact("internet_penetration", 60, 10), MarketFact("internet_penetration", 80, 20),
                  MarketFact("payment_infrastructure", 60, 10), MarketFact("gdp_per_capita_ppp", 32300, 10)},
          de |-> {MarketFact("internet_penetration", 90, 10), MarketFact("payment_infrastructure", 90, 10),
                  MarketFact("business_formation_days", 13, 10)},
          eg |-> {MarketFact("internet_penetration", 70, 10), MarketFact("logistics_performance", 3, 10)}]

\* Where nothing was found, no growth was measured either.
Readings0 ==
    {y \in [step : [Markets -> {1, 4}], adoption : [Markets -> {None, 10, 50}], suppliers : {2},
            known : {[c \in Markets |-> Y!MarketFacts(Facts[c])]},
            coverage : {[c \in Markets |-> Y!ComputeCoverage(Facts[c], 2, 1, 30)]}] :
        \A c \in Markets : y.step[c] = 1 => y.adoption[c] = None}

ReadingOf(y, c) ==
    [Y!NoReading(c) EXCEPT
        !.status = IF y.step[c] = 1 THEN "no_signal" ELSE "measured",
        !.level = IF y.step[c] = 1 THEN None ELSE Steps[y.step[c]],
        !.adoption = y.adoption[c], !.suppliers = y.suppliers,
        !.coverage = y.coverage[c]]

Readings(y) == {ReadingOf(y, c) : c \in Markets}
Targets(y) == {l.target : l \in Y!Localizations(Readings(y), y.known)}

\* A market takes the next step, or what it measures grows.
Climb(c) ==
    /\ part = "markets"
    /\ \/ x.step[c] < Len(Steps) /\ x' = [x EXCEPT !.step[c] = @ + 1]
       \/ x.adoption[c] = 10 /\ x' = [x EXCEPT !.adoption[c] = 50]
    /\ UNCHANGED part

\* A market that grows never looks emptier than before: neither measure of its
\* gap to the others rises, it is not proposed as a new place to go if it was not
\* before, and the reading costs no more confidence (analyse_gap,
\* find_localization_candidates, confidence_penalty, geographic_gap).
ClimbingNeverOpens ==
    [][part = "markets" =>
        LET c == CHOOSE m \in Markets : ReadingOf(x', m) # ReadingOf(x, m)
            gaps(y) == <<Y!AnalyseGap(Readings(y), c, y.known[c]),
                         Y!ExperimentalGap(Y!Leaders(Readings(y), c), ReadingOf(y, c))>>
        IN  /\ \A i \in 1..2 : None \notin {gaps(x)[i], gaps(x')[i]} => gaps(x')[i] <= gaps(x)[i]
            /\ c \in Targets(x') => c \in Targets(x)
            /\ Y!ConfidencePenalty(Readings(x')) <= Y!ConfidencePenalty(Readings(x))]_vars

-----------------------------------------------------------------------------
(* A database fills with rows, is explained, and is purged meanwhile.      *)

Row(table, refs) == [table |-> table, refs |-> refs, source |-> None]
SourceRow(approved, eligible) ==
    [table |-> "sources", refs |-> << >>, source |-> [approved |-> approved, eligible |-> eligible]]
Ref(column, row) == column :> row
LinkTo(trend, source) ==
    Row("trend_signals", Ref("trend", trend) @@ Ref("signal", 6 + source) @@ Ref("source", source))

\* A demo source and a live one, each with a record, a signal and an observation;
\* two trends with an opportunity each, the first all demo, the second live or both.
Corpus == <<
    SourceRow(TRUE, FALSE), SourceRow(FALSE, TRUE),
    Row("source_runs", Ref("source", 1)), Row("source_runs", Ref("source", 2)),
    Row("raw_records", Ref("source", 1) @@ Ref("source_run", 3)),
    Row("raw_records", Ref("source", 2) @@ Ref("source_run", 4)),
    Row("signals", Ref("source", 1)), Row("signals", Ref("source", 2)),
    Row("signal_observations", Ref("signal", 7) @@ Ref("raw_record", 5)),
    Row("signal_observations", Ref("signal", 8) @@ Ref("raw_record", 6)),
    Row("trends", << >>), Row("trends", << >>),
    Row("opportunities", Ref("trend", 11)), Row("opportunities", Ref("trend", 12)),
    LinkTo(11, 1)>>

Corpora == {Corpus \o links : links \in {<<LinkTo(12, 2)>>, <<LinkTo(12, 1), LinkTo(12, 2)>>}}

\* What a demo opportunity cites of the live source, and a live one of the demo source.
Evidence == {<<13, "source", 2>>, <<13, "raw_record", 6>>, <<13, "observation", 10>>,
             <<14, "source", 1>>, <<14, "raw_record", 5>>, <<14, "observation", 9>>}

\* The rows that may be added; the one added first is the 17th in one of the two.
Additions ==
    LET opps == {13, 14}
        added == 17
    IN   {Row("model_runs", r) : r \in {<< >>} \cup {Ref("opportunity", o) : o \in opps}}
    \cup {Row(t, Ref("opportunity", o)) : o \in opps,
              t \in {"scores", "opportunity_decisions", "user_notes", "alerts", "watchlist_items"}}
    \cup {Row(t, Ref("trend", e)) : t \in {"trend_snapshots", "watchlist_items"}, e \in {11, 12}}
    \cup {Row("opportunity_trends", Ref("opportunity", o) @@ Ref("trend", 25 - o)) : o \in opps}
    \cup {Row("opportunity_signals", Ref("opportunity", o) @@ Ref("signal", s)) : o \in opps, s \in {7, 8}}
    \cup {Row(t, Ref("opportunity", o) @@ Ref("model_run", added)) : t \in {"reports", "skeptic_reviews"}, o \in opps}
    \cup {Row("evidence_items", Ref("opportunity", e[1]) @@ Ref(e[2], e[3])) : e \in Evidence}
    \cup {Row(t, Ref("source", s)) : t \in {"validations", "facts"}, s \in {1, 2}}
    \cup {Row("checks", Ref("score", added)), LinkTo(11, 2), Row("raw_records", Ref("source", 1) @@ Ref("source_run", 3)),
          Row("signal_observations", Ref("signal", 7) @@ Ref("raw_record", added))}
    \cup {SourceRow(FALSE, FALSE), SourceRow(TRUE, TRUE)}

-----------------------------------------------------------------------------
(* The machines.                                                           *)

\* Two changes of the clocks and, because years are short here, one that begins on a
\* Tuesday and one that begins on a Friday.
Clocks == [d \in 0..LastDay |-> IF d \in 20..32 THEN 3 ELSE 2]
Januaries == <<0, 15, 25>>

\* Growth above nought, measured by two signals and, of another type, by a third.
Growing == [type |-> "import_growth", comparator |-> "gt", value |-> 0, window |-> 1]
Measures == 1..3
Types == <<"import_growth", "import_growth", "github_stars">>

\* Pairs of entities that are often seen together: none, or two.
Pairings == {<< >>, (<<1, 4>> :> 3 @@ <<2, 3>> :> 5)}

\* The next attempt comes within a window, just after it or later.
LoginWaits == 0..(Window + 1)

-----------------------------------------------------------------------------
Machines == {"candidates", "periods", "conditions", "limiter", "clusters", "purge"}

Inputs == [reports |-> Reports0, profile |-> Profiles0, markets |-> Readings0]

Init ==
    /\ part \in DOMAIN Inputs \cup Machines
    /\ x \in IF part \in DOMAIN Inputs THEN Inputs[part] ELSE {None}
    /\ seen \in IF part = "clusters" THEN Together ELSE {<< >>}
    /\ committed \in IF part = "purge" THEN Databases ELSE {Corpus \o <<LinkTo(12, 2)>>}
    /\ candidate \in IF part = "candidates" THEN Cases ELSE {CHOOSE c \in Cases : TRUE}
    /\ CandidatesInit /\ PeriodsInit /\ ConditionsInit /\ LimiterInit /\ ClustersInit /\ PurgeInit

Change ==
    \/ \E v \in Amount, missing \in {0} \cup Publishers : Report(v, missing)
    \/ Gain
    \/ Refuse
    \/ \E c \in Markets : Climb(c)

Next ==
    \/ Change /\ UNCHANGED machines
    \/ part = "candidates" /\ CandidatesNext
       /\ UNCHANGED <<vars, periodsVars, conditionsVars, limiterVars, clustersVars, purgeVars>>
    \/ part = "periods" /\ PeriodsNext
       /\ UNCHANGED <<vars, candidateVars, conditionsVars, limiterVars, clustersVars, purgeVars>>
    \/ part = "conditions" /\ ConditionsNext
       /\ UNCHANGED <<vars, candidateVars, periodsVars, limiterVars, clustersVars, purgeVars>>
    \/ part = "limiter" /\ LimiterNext
       /\ UNCHANGED <<vars, candidateVars, periodsVars, conditionsVars, clustersVars, purgeVars>>
    \/ part = "clusters" /\ ClustersNext
       /\ UNCHANGED <<vars, candidateVars, periodsVars, conditionsVars, limiterVars, purgeVars>>
    \/ part = "purge" /\ PurgeNext
       /\ UNCHANGED <<vars, candidateVars, periodsVars, conditionsVars, limiterVars, clustersVars>>

Spec == Init /\ [][Next]_<<vars, machines>>
=============================================================================
