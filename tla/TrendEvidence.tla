---------------------------- MODULE TrendEvidence ---------------------------
(***************************************************************************)
(* What a trend is computed from: which series may be read                 *)
(* (sources/provenance.py, _load_series), how many of them are independent *)
(* (analytics/confirmation.py, analytics/dedup.py), and how they are       *)
(* combined into one input of the scoring (services/trends.py, aggregate). *)
(*                                                                         *)
(* A signal is a record [type, proxy, source, geo, series], a source a     *)
(* record [id, group, reliability, adapter, class].  A headline is a pair  *)
(* <<source id, words>>; normalisation and stop words are already done.    *)
(***************************************************************************)
EXTENDS Integers, Sequences, FiniteSets, SequencesExt, FiniteSetsExt

CONSTANT None

G == INSTANCE Growth
T == INSTANCE TrendScoring

-----------------------------------------------------------------------------
(* The signal taxonomy, as far as the model uses it.                       *)

SignalClasses ==
    [attention |-> {"wiki_pageview_growth", "search_growth", "media_coverage_growth"},
     developer |-> {"github_stars", "github_commit_velocity", "package_downloads"},
     commercial |-> {"revenue_acceleration"},
     trade |-> {"import_growth", "export_growth", "supplier_count_change"},
     demand_pain |-> {"customer_complaint_frequency"},
     policy |-> {"regulatory_catalyst"}]

ClassOf(type) ==
    LET classes == {c \in DOMAIN SignalClasses : type \in SignalClasses[c]}
    IN  IF classes = {} THEN "manual" ELSE CHOOSE c \in classes : TRUE

AdoptionSignals == {"github_commit_velocity", "package_downloads", "revenue_acceleration",
                    "import_growth", "export_growth"}
ProxySignals == {"wiki_pageview_growth", "search_growth", "media_coverage_growth"}

-----------------------------------------------------------------------------
(* Provenance: the adapter decides, not the label of the source.           *)

AdapterClasses == [hackernews |-> TRUE, wikipedia |-> TRUE, github |-> TRUE,
                   csv_import |-> FALSE, scenario |-> FALSE, demo_mock |-> FALSE]

RequiresNetwork(adapter) ==
    IF adapter \in DOMAIN AdapterClasses THEN AdapterClasses[adapter] ELSE None

LiveEligible(source) ==
    /\ source.class # "demo"
    /\ source.adapter \notin {"scenario", "demo_mock"}
    /\ RequiresNetwork(source.adapter) = TRUE

MinObservations == 4

LoadSeries(signals, mode) ==
    SelectSeq(signals, LAMBDA s :
        /\ mode = "live_only" => LiveEligible(s.source)
        /\ Len(G!Reported(s.series)) >= MinObservations)

-----------------------------------------------------------------------------
(* Twenty copies of one story are one story.                               *)

Fingerprint(words) == IF Cardinality(words) < 3 THEN None ELSE words

\* jaccard(a, b) >= 0.7
NearDuplicates(a, b) ==
    /\ Cardinality(a) >= 3 /\ Cardinality(b) >= 3
    /\ 10 * Cardinality(a \cap b) >= 7 * Cardinality(a \cup b)

\* Groups with equal fingerprints, the largest first, are folded greedily into
\* the first group that holds a near duplicate of their headline.
GroupDuplicates(headlines) ==
    LET prints == SelectSeq([i \in DOMAIN headlines |-> Fingerprint(headlines[i][2])],
                            LAMBDA f : f # None)
        copies(f) == Cardinality({i \in DOMAIN prints : prints[i] = f})
        first(f) == Min({i \in DOMAIN prints : prints[i] = f})
        exact == SetToSortSeq(Range(prints), LAMBDA f, g :
                    copies(f) > copies(g) \/ (copies(f) = copies(g) /\ first(f) < first(g)))
        fold(merged, f) ==
            LET targets == {i \in DOMAIN merged : \E t \in merged[i] : NearDuplicates(f, t)}
            IN  IF targets = {} THEN Append(merged, {f})
                ELSE [merged EXCEPT ![Min(targets)] = @ \cup {f}]
    IN  FoldLeft(fold, << >>, exact)

\* In hundredths.
DuplicationRatio(headlines) ==
    LET told == Len(SelectSeq(headlines, LAMBDA h : Fingerprint(h[2]) # None))
    IN  IF told < 2 THEN 0 ELSE 100 - (100 * Len(GroupDuplicates(headlines))) \div told

-----------------------------------------------------------------------------
(* Corroboration.  Sources with one owner count once.                      *)

GroupOf(source) == IF source.group = None THEN source.id ELSE source.group

AssessConfirmation(signals) ==
    LET n == Len(signals)
        weight(i) == Max({Len(G!Reported(signals[i].series)), 1})
        all == G!Total([i \in 1..n |-> weight(i)])
        groups == {GroupOf(signals[i].source) : i \in 1..n}
        of(g) == MapThenSumSet(weight, {i \in 1..n : GroupOf(signals[i].source) = g})
    IN  [sources |-> Cardinality(groups),
         classes |-> Cardinality({ClassOf(signals[i].type) : i \in 1..n}),
         nonProxy |-> Cardinality({ClassOf(signals[i].type) : i \in {j \in 1..n : ~signals[j].proxy}}),
         reliability |-> G!Total([i \in 1..n |-> signals[i].source.reliability]) \div n,
         share |-> Max({(100 * of(g)) \div all : g \in groups})]

\* A proxy is evidence, but weaker.
Weight(signal) == signal.source.reliability * (IF signal.proxy THEN 6 ELSE 10)

\* The weighted mean of what is known; values has one value per signal.
Weighted(signals, values) ==
    LET known == {i \in DOMAIN signals : values[i] # None /\ Weight(signals[i]) > 0}
        weight(i) == Weight(signals[i])
        product(i) == values[i] * weight(i)
    IN  IF known = {} THEN None
        ELSE MapThenSumSet(product, known) \div MapThenSumSet(weight, known)

\* The heaviest series that is not a proxy; the first one of equals.
Representative(signals) ==
    LET before(s, t) == \/ ~s.proxy /\ t.proxy
                        \/ s.proxy = t.proxy /\ Weight(s) > Weight(t)
    IN  signals[Min({i \in DOMAIN signals : \A j \in DOMAIN signals : ~before(signals[j], signals[i])})]

Aggregate(signals, now) ==
    LET profile(s) == G!AnalyseGrowth(s.series)
        rep == profile(Representative(signals))
        n == Len(signals)
        count(d) == Cardinality({i \in 1..n : profile(signals[i]).direction = d})
        weight(i) == Weight(signals[i])
        weighing(P(_)) == MapThenSumSet(weight, {i \in 1..n : P(profile(signals[i]))})
        spiky == weighing(LAMBDA p : p.spike)
        seasonal == weighing(LAMBDA p : p.seasonal)
        total == Max({1, weighing(LAMBDA p : TRUE)})
        g30 == Weighted(signals, [i \in 1..n |-> profile(signals[i]).g30])
        g90 == Weighted(signals, [i \in 1..n |-> profile(signals[i]).g90])
        momentum == Weighted(signals, [i \in 1..n |-> profile(signals[i]).momentum])
        persistence == Weighted(signals, [i \in 1..n |-> profile(signals[i]).persistence])
        growth == IF T!Or0(g30) # 0 THEN g30 ELSE T!Or0(g90)
        confirmed == AssessConfirmation(signals)
    IN  [g30 |-> g30, g90 |-> g90, momentum |-> momentum, persistence |-> persistence,
         accel |-> Weighted(signals, [i \in 1..n |-> profile(signals[i]).accel]),
         direction |->
            CASE 2 * count("rising") > n -> "rising"
              [] 2 * count("falling") > n -> "falling"
              [] OTHER -> IF count("rising") > 0 /\ count("falling") > 0 THEN "flat"
                          ELSE profile(signals[1]).direction,
         baseline |-> rep.baseline, latest |-> rep.latest, moved |-> rep.moved,
         priorMax |-> rep.priorMax,
         obs |-> G!Total([i \in 1..n |-> profile(signals[i]).obs]),
         missing |-> G!Total([i \in 1..n |-> profile(signals[i]).missing]),
         history |-> Max({profile(signals[i]).history : i \in 1..n}),
         silent |-> now - Max({profile(signals[i]).lastAt : i \in 1..n}),
         geo |-> {signals[i].geo : i \in 1..n},
         sources |-> confirmed.sources, classes |-> confirmed.classes,
         nonProxy |-> confirmed.nonProxy, reliability |-> confirmed.reliability,
         share |-> confirmed.share, dup |-> 0,
         spike |-> 4 * spiky >= total, seasonal |-> 2 * seasonal > total,
         agreeing |-> Cardinality({m \in {"growth", "momentum", "persistence"} :
            CASE m = "growth" -> growth > 0
              [] m = "momentum" -> T!Or0(momentum) > 0
              [] m = "persistence" -> T!Or0(persistence) >= 60})]

\* evaluate_trends for one subject: the input of its scoring.
Measured(signals, headlines, mode, now) ==
    [Aggregate(LoadSeries(signals, mode), now) EXCEPT !.dup = DuplicationRatio(headlines)]
=============================================================================
