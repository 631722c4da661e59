------------------------------ MODULE Candidates -----------------------------
(***************************************************************************)
(* A candidate whose circumstances get worse, and which is judged now and  *)
(* then (generate_opportunities of services/opportunities.py).  A          *)
(* candidate is [type, trend, facts, ctx]: what evaluate_one looks at.     *)
(* The context is what its caller knows of the subject besides the         *)
(* evidence; it changes one entry at a time.                               *)
(***************************************************************************)
EXTENDS Assessment

CONSTANTS Cases,    \* the candidates as they may be at first
          News      \* <<key, value>>: what may be said instead

VARIABLES candidate,
          verdict,     \* of the last analysis, None before the first
          opportunity  \* what is stored, [state, peak], None if nothing is
candidateVars == <<candidate, verdict, opportunity>>

-----------------------------------------------------------------------------
(* What is bad news.                                                       *)

MoreIsWorse == {"competitor_count", "capital_required", "barriers", "debt_to_equity",
    "customer_concentration", "top10_share", "insider_share", "bot_activity_share", "exchange_concentration"}

LessIsWorse ==
    {"defensibility_markers", "supplier_count", "operating_margin", "liquidity", "audits", "active_users"}

\* From the best word on.
Scales ==
    [technical_difficulty |-> [low |-> 1, medium |-> 2, high |-> 3],
     market_size_band |-> [large |-> 1, medium |-> 2, small |-> 3, tiny |-> 4],
     awareness |-> [low |-> 1, medium |-> 2, high |-> 3],
     local_penetration |-> [none |-> 1, low |-> 2, medium |-> 3, high |-> 4],
     catalyst |-> [linked |-> 1, dated |-> 2, claimed |-> 3]]

\* Bad whatever was said before.
Alarming ==
    [manufacturing_concentration |-> {"single_country", "single_factory"}, certification |-> {"required"},
     market_education_needed |-> {"high"}, valuation_band |-> {"extreme"}, utility |-> {"none"},
     founders_identified |-> {FALSE}, influencer_promotion |-> {TRUE}, returns_depend_on_inflow |-> {TRUE}]

Worse(key, v, w) ==
    \/ key \in MoreIsWorse /\ v <= w
    \/ key \in LessIsWorse /\ w <= v
    \/ /\ key \in DOMAIN Scales
       /\ v \in DOMAIN Scales[key] /\ w \in DOMAIN Scales[key] /\ Scales[key][v] <= Scales[key][w]
    \/ key \in DOMAIN Alarming /\ w \in Alarming[key]

-----------------------------------------------------------------------------
IsTrend(trend) ==
    /\ trend.score \in Nat /\ trend.confidence \in Nat
    /\ trend.obs \in Nat /\ trend.history \in Nat /\ trend.missing \in Nat

IsFact(f) ==
    /\ f.reliability \in 0..100 /\ f.g30 \in Int \cup {None} /\ f.age \in DOMAIN FreshnessCurve
    /\ f.adoption \in BOOLEAN /\ f.proxy \in BOOLEAN

IsValue(key, v) ==
    /\ key \in MoreIsWorse \cup LessIsWorse =>
          IF key = "operating_margin" THEN v \in Int ELSE v \in Nat
    /\ v # None

IsContext(ctx) ==
    /\ ctx = [k \in DOMAIN ctx |-> ctx[k]]
    /\ \A k \in DOMAIN ctx : IsValue(k, ctx[k])

IsCandidate(c) ==
    /\ c = [type |-> c.type, trend |-> c.trend, facts |-> c.facts, ctx |-> c.ctx]
    /\ c.type \in DOMAIN RequiredEvidence
    /\ IsTrend(c.trend)
    /\ IsFiniteSet(c.facts) /\ c.facts # {} /\ \A f \in c.facts : IsFact(f)
    /\ IsContext(c.ctx)

\* Numbers are numbers, and what is known is not None.
ASSUME CandidatesAssumption ==
    /\ None \notin Int
    /\ \A c \in Cases : IsCandidate(c)
    /\ \A n \in News : IsValue(n[1], n[2])

-----------------------------------------------------------------------------
CandidatesInit == candidate \in Cases /\ verdict = None /\ opportunity = None

Verdict(c) == Assess(c.type, c.trend, c.facts, c.ctx, << >>)

\* An analysis run: what is refused leaves the opportunity as it was.
Judge ==
    LET a == Verdict(candidate)
    IN  /\ verdict' = a
        /\ opportunity' =
              IF ~Stored(a) THEN opportunity
              ELSE IF opportunity = None THEN [state |-> StateOf(a, None, 0), peak |-> a.score]
              ELSE [state |-> StateOf(a, opportunity.state, opportunity.peak),
                    peak |-> Max({opportunity.peak, a.score})]
        /\ UNCHANGED candidate

\* Something that is known turns out, or is said, to be worse.
GetsWorse(key, value) ==
    /\ key \in DOMAIN candidate.ctx /\ candidate.ctx[key] # value
    /\ Worse(key, candidate.ctx[key], value)
    /\ candidate' = [candidate EXCEPT !.ctx = [k \in DOMAIN @ |-> IF k = key THEN value ELSE @[k]]]
    /\ UNCHANGED <<verdict, opportunity>>

CandidatesNext == Judge \/ \E n \in News : GetsWorse(n[1], n[2])

CandidatesSpec == CandidatesInit /\ [][CandidatesNext]_candidateVars

-----------------------------------------------------------------------------
\* The highest state is out of reach without somebody really using the thing,
\* however good everything else looks and whatever the opportunity was before: no
\* sum of the other components makes up for it (score_opportunity with its
\* penalties, the skeptic, next_state).
StrongNeedsUse ==
    opportunity # None /\ opportunity.state = "strong_evidence"
        => \E f \in candidate.facts : f.adoption /\ ~f.proxy

\* After bad news about what was already known the next analysis never finds a
\* higher score or confidence or a lower risk, and never stores what the last one
\* refused (gate, analyzers, penalties, skeptic, risk engine and floors together).
WorseNeverHelps ==
    [][verdict # None =>
        /\ verdict'.score <= verdict.score /\ verdict'.confidence <= verdict.confidence
        /\ RankOf(verdict'.risk) >= RankOf(verdict.risk)
        /\ Stored(verdict') => Stored(verdict)]_verdict
=============================================================================
