------------------------------ MODULE Relevance ------------------------------
(***************************************************************************)
(* How well an opportunity fits one person (analytics/relevance.py), from  *)
(* the profile row as services/profiles.py flattens it.                    *)
(*                                                                         *)
(* A user is a record: home, residence (None if unknown); operating,       *)
(* familiar, excluded, disabled, following (industries), barred            *)
(* (excluded industries), skills, experience, assets (sets); targets and   *)
(* ranking (sequences, most wanted first); amount and currency; flexible,  *)
(* tolerance, time, minScore, minConfidence, maxRisk, maxRequired.         *)
(* An opportunity: type, industry and category (None if unknown), place,   *)
(* evidence (countries), score, confidence, risk, capital (None if         *)
(* unknown), paths (a set).                                                *)
(* Points are hundredths of a point, money thousands of dollars.           *)
(***************************************************************************)
EXTENDS Integers, Sequences, FiniteSets, SequencesExt, FiniteSetsExt, Functions

CONSTANT None

FactorMax ==
    [geographic_accessibility |-> 15, capital_fit |-> 15, industry_experience |-> 15,
     skills_fit |-> 10, supplier_advantage |-> 10, distribution_advantage |-> 10,
     regulatory_accessibility |-> 10, time_commitment_fit |-> 5,
     risk_tolerance_fit |-> 5, type_preference |-> 5]

\* The ways in the model uses, and what each of them asks for.
Way(skills, capital, time, assets) ==
    [skills |-> skills, capital |-> capital, time |-> time, assets |-> assets]

PathRequirements ==
    [build |-> Way({"programming", "engineering", "product"}, "medium", "full_time", {"technical_team"}),
     import |-> Way({"importing", "logistics", "sales"}, "high", "part_time",
                    {"supplier_network", "warehouse", "capital"}),
     distribute |-> Way({"sales", "logistics"}, "high", "part_time",
                        {"distribution_network", "retail_locations"}),
     manufacture |-> Way({"manufacturing", "engineering"}, "very_high", "full_time",
                         {"manufacturing", "warehouse"}),
     investigate_public_company |-> Way({"finance"}, "any", "passive", {"capital"}),
     provide_service |-> Way({"sales", "consulting"}, "low", "part_time", {}),
     consult |-> Way({"consulting"}, "none", "part_time", {"qualifications"}),
     learn_skill |-> Way({}, "none", "few_hours_week", {}),
     license |-> Way({"finance", "legal"}, "medium", "passive", {"licenses"}),
     franchise |-> Way({"sales"}, "very_high", "full_time", {"capital", "retail_locations"}),
     partner |-> Way({"sales"}, "low", "few_hours_week", {"audience", "distribution_network"}),
     create_content |-> Way({"marketing"}, "none", "few_hours_week", {"audience"}),
     watch |-> Way({}, "none", "passive", {})]

\* Keeping an eye on something is not taking part in it; in percent.
PathDampening(path) ==
    CASE path = "watch" -> 55 [] path = "create_content" -> 85 [] OTHER -> 100

CapitalBand == [none |-> 0, low |-> 1, medium |-> 25, high |-> 100, very_high |-> 500, any |-> None]
TimeRank == [passive |-> 0, few_hours_week |-> 1, part_time |-> 2, full_time |-> 3]
RiskRank == [low |-> 0, moderate |-> 1, high |-> 2, very_high |-> 3]
ToleranceCeiling == [conservative |-> 0, moderate |-> 1, aggressive |-> 2, speculative |-> 3]

Rank(s, v) == CHOOSE i \in DOMAIN s : s[i] = v /\ \A j \in 1..i - 1 : s[j] # v

-----------------------------------------------------------------------------
(* Money: a conversion needs a stored rate, in one direction or the other. *)
(* rates maps a pair of currencies to the newest rate, in percent.         *)

GetRate(rates, base, quote) ==
    CASE base = quote -> 100
      [] base # quote /\ <<base, quote>> \in DOMAIN rates -> rates[<<base, quote>>]
      [] OTHER -> IF <<quote, base>> \in DOMAIN rates /\ rates[<<quote, base>>] # 0
                  THEN 10000 \div rates[<<quote, base>>] ELSE None

Convert(rates, amount, currency, to) ==
    IF amount = None \/ GetRate(rates, currency, to) = None THEN None
    ELSE (amount * GetRate(rates, currency, to)) \div 100

-----------------------------------------------------------------------------
(* The factors, each as a share of its maximum in hundredths.              *)

Geographic(user, opp) ==
    LET target == opp.place
        claims ==
          {IF target \in Range(user.targets) THEN 100 - Min({30, 10 * (Rank(user.targets, target) - 1)}) ELSE 0,
           IF target \in user.operating THEN 90 ELSE 0,
           IF target \in {user.home, user.residence} THEN 85 ELSE 0,
           IF target \in user.familiar THEN 60 ELSE 0}
    IN  IF target \in user.excluded THEN 0
        ELSE IF target = "global" THEN 70
        ELSE IF Max(claims) > 0 THEN Max(claims)
        ELSE IF opp.evidence \cap (user.operating \cup Range(user.targets)) # {} THEN 35 ELSE 0

\* What this way in costs: never more than the whole opportunity.
CostOf(opp, path) ==
    LET band == CapitalBand[PathRequirements[path].capital]
    IN  CASE band = None -> opp.capital
          [] band # None -> IF opp.capital = None THEN band ELSE Min({opp.capital, band})

\* Over the budget, the ratio of cost and budget is taken: it fails for a budget of nought.
CapitalFails(budget, opp, path) == budget = 0 /\ CostOf(opp, path) \notin {None, 0}

Capital(user, budget, opp, path) ==
    LET required == CostOf(opp, path)
        stretch == [fixed |-> 0, somewhat_flexible |-> 15, flexible |-> 30]
    IN  IF None \in {required, budget} THEN 40
        ELSE IF required <= budget
        THEN IF budget = 0 THEN 60 ELSE 60 + (40 * (budget - required)) \div budget
        ELSE IF 2 * required <= 3 * budget THEN stretch[user.flexible] ELSE 0

IndustryAliases(industry) ==
    CASE industry \in {"technology", "software"} -> {"technology", "saas", "skills_career"}
      [] industry = "saas" -> {"saas", "technology"}
      [] industry = "construction" -> {"business", "manufacturing"}
      [] industry \in {"energy", "agriculture"} -> {"business", "services"}
      [] industry \in {"manufacturing", "import_distribution"} -> {industry}
      [] OTHER -> {}

\* The words an industry is named with.
Words(industry) ==
    CASE industry = "import_distribution" -> {"import", "distribution"}
      [] industry = "public_investment" -> {"public", "investment"}
      [] OTHER -> {industry}

Industry(user, opp) ==
    LET i == IF opp.industry = None THEN opp.category ELSE opp.industry
    IN  IF i = None THEN 30
        ELSE IF i \in user.barred THEN 0
        ELSE IF i \in user.experience THEN 100
        ELSE IF IndustryAliases(i) \cap Range(user.ranking) # {} THEN 70
        ELSE IF i \in user.following THEN 60
        ELSE IF \E known \in user.experience : Words(i) \cap Words(known) # {} THEN 50 ELSE 0

\* Mutant: the share of the person's skills instead of the wanted ones.
SkillsShare(user, path) ==
    LET wanted == PathRequirements[path].skills
    IN  IF user.skills = {} THEN 30
        ELSE IF wanted = {} THEN 50
        ELSE (100 * Cardinality(user.skills \cap wanted)) \div Cardinality(user.skills)

Skills(user, path) ==
    LET wanted == PathRequirements[path].skills
    IN  IF user.skills = {} THEN 30
        ELSE IF wanted = {} THEN 50
        ELSE Min({100, (100 * Cardinality(user.skills \cap wanted)) \div Min({Cardinality(wanted), 2})})

Asset(user, path, asset) ==
    LET needed == asset \in PathRequirements[path].assets
    IN  IF asset \in user.assets THEN IF needed THEN 100 ELSE 60
        ELSE IF needed THEN 0 ELSE 40

Regulatory(user, opp) ==
    IF opp.place = "global" THEN 70
    ELSE IF opp.place \in user.excluded THEN 0
    ELSE IF user.operating = {} THEN 40
    ELSE IF opp.place \in user.operating THEN 100 ELSE 0

Time(user, path) == IF TimeRank[user.time] >= TimeRank[PathRequirements[path].time] THEN 100 ELSE 30

RiskFit(user, opp) ==
    100 - Min({100, 50 * Max({0, RiskRank[opp.risk] - ToleranceCeiling[user.tolerance]})})

CategoryAliases ==
    [business |-> {"business", "services", "ecommerce", "saas", "franchising", "partnerships"},
     import_distribution |-> {"import_distribution", "ecommerce", "manufacturing", "partnerships"},
     public_investment |-> {"public_investment"},
     crypto |-> {"crypto"}]

Satisfies(opp) ==
    CategoryAliases[opp.type]
    \cup UNION {IF IndustryAliases(i) = {} THEN {i} ELSE IndustryAliases(i) :
                  i \in {opp.industry, opp.category} \ {None}}

TypePreference(user, opp) ==
    LET ranks == {i \in DOMAIN user.ranking : user.ranking[i] \in Satisfies(opp)}
    IN  IF (Satisfies(opp) \cup {opp.type}) \cap user.disabled # {} THEN 0
        ELSE IF ranks = {} THEN 20 ELSE Max({30, 100 - 15 * (Min(ranks) - 1)})

-----------------------------------------------------------------------------
ScoreForPath(user, budget, opp, path) ==
    LET share ==
          [geographic_accessibility |-> Geographic(user, opp),
           capital_fit |-> Capital(user, budget, opp, path),
           industry_experience |-> Industry(user, opp), skills_fit |-> Skills(user, path),
           supplier_advantage |-> Asset(user, path, "supplier_network"),
           distribution_advantage |-> Asset(user, path, "distribution_network"),
           regulatory_accessibility |-> Regulatory(user, opp),
           time_commitment_fit |-> Time(user, path), risk_tolerance_fit |-> RiskFit(user, opp),
           type_preference |-> TypePreference(user, opp)]
        points == [f \in DOMAIN FactorMax |-> FactorMax[f] * share[f]]
    IN  (PathDampening(path) * SumFunction(points)) \div 100

\* An opportunity without a way in can still be watched.
Paths(opp) == IF opp.paths = {} THEN {"watch"} ELSE opp.paths

Relevance(user, budget, opp) == Max({ScoreForPath(user, budget, opp, p) : p \in Paths(opp)})

RelevanceFails(budget, opp) == \E p \in Paths(opp) : CapitalFails(budget, opp, p)

\* Flagged, never hidden; a ceiling nobody understands counts as exceeded.
OutsideProfile(user, budget, opp) ==
    \/ opp.score < user.minScore \/ opp.confidence < user.minConfidence
    \/ user.maxRisk \notin DOMAIN RiskRank
    \/ RiskRank[opp.risk] > RiskRank[user.maxRisk]
    \/ /\ opp.capital # None
       /\ \/ user.maxRequired # None /\ opp.capital > user.maxRequired
          \/ budget \notin {None, 0} /\ opp.capital > budget
    \/ opp.type \in user.disabled
=============================================================================
