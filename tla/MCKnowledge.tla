----------------------------- MODULE MCKnowledge -----------------------------
(***************************************************************************)
(* Small instances of Analysis: every choice of a few requests, all at     *)
(* liberty to overlap, on empty tables and on tables that hold the results *)
(* of earlier requests.                                                    *)
(***************************************************************************)
EXTENDS Analysis, TLC

CONSTANTS MaxRequests, OnlyKinds

OpenAI == [letters |-> 1, words |-> {1}]
Open_AI == [letters |-> 1, words |-> {2, 3}]
Research == [letters |-> 2, words |-> {1, 4}]

MCRequests == 1..MaxRequests
Mention(name, id, source) == [name |-> name, id |-> id, source |-> source]
MCMentions == {Mention(OpenAI, None, "s1"), Mention(Open_AI, None, "s1"),
               Mention(Open_AI, "i1", "s2"), Mention(Research, "i1", "s2")}

Strong ==
    [g30 |-> 100, g90 |-> 100, accel |-> 60, persistence |-> 100, sources |-> 4, classes |-> 3,
     reliability |-> 90, latest |-> 1000, geo |-> {"global"}, priorMax |-> 500, baseline |-> 500,
     moved |-> 500, spike |-> FALSE, dup |-> 0, history |-> 180, obs |-> 60, seasonal |-> FALSE,
     missing |-> 0, nonProxy |-> 3, share |-> 30, agreeing |-> 2, silent |-> 1, direction |-> "rising"]
Weak == [Strong EXCEPT !.g30 = 1, !.accel = 0, !.persistence = 10, !.latest = 100, !.priorMax = 500]

MCTrendInputs == {Strong, Weak}

Good == [passed |-> TRUE, closed |-> FALSE, informed |-> FALSE, score |-> 6000, confidence |-> 6000,
         risk |-> "moderate", skeptic |-> "passed", age |-> 0]
MCJudgements == {Good, [Good EXCEPT !.score = 2500], [Good EXCEPT !.passed = FALSE]}
MCVerdicts == {"met", "unknown"}

-----------------------------------------------------------------------------
\* Two names were collected; whether they are the same is still to be decided.
Collected ==
    /\ entities = <<[name |-> OpenAI, id |-> None], [name |-> Open_AI, id |-> "i1"]>>
    /\ candidates = <<[name |-> Open_AI, target |-> 1, created |-> 2, decision |-> "pending"]>>
    /\ signals = <<[entity |-> 1, source |-> "s1", seen |-> {Mention(OpenAI, None, "s1")}],
                   [entity |-> 2, source |-> "s2", seen |-> {Mention(Open_AI, "i1", "s2")}]>>
    /\ aliases = (OpenAI :> 1) @@ (Open_AI :> 2)
    /\ trends = << >> /\ opportunities = << >>

\* A third name is known by its identifier, and all was evaluated and generated.
Analysed ==
    /\ entities = <<[name |-> OpenAI, id |-> None], [name |-> Open_AI, id |-> "i1"]>>
    /\ candidates = <<[name |-> Open_AI, target |-> 1, created |-> 2, decision |-> "pending"]>>
    /\ signals = <<[entity |-> 1, source |-> "s1", seen |-> {Mention(OpenAI, None, "s1")}],
                   [entity |-> 2, source |-> "s2",
                    seen |-> {Mention(Open_AI, "i1", "s2"), Mention(Research, "i1", "s2")}]>>
    /\ aliases = (OpenAI :> 1) @@ (Open_AI :> 2) @@ (Research :> 2)
    /\ trends = <<NewTrend(1, Strong), NewTrend(2, Strong)>>
    /\ opportunities = <<NewOpportunity(1, Good)>>

Empty == entities = << >> /\ aliases = << >> /\ candidates = << >> /\ signals = << >>
         /\ trends = << >> /\ opportunities = << >>

Order == <<"collect", "decide", "evaluate", "generate", "monitor">>
Place(kind) == CHOOSE i \in DOMAIN Order : Order[i] = kind

\* Who does what is the same up to a permutation.
Assignments == {k \in [Requests -> OnlyKinds] : \A i, j \in Requests : i < j => Place(k[i]) <= Place(k[j])}

MCInit ==
    /\ Empty \/ Collected \/ Analysed
    /\ \E k \in Assignments : requests = [r \in Requests |-> [kind |-> k[r], pc |-> "new", seen |-> None]]
    /\ overlap = {}

MCSpec == MCInit /\ [][Next]_vars
=============================================================================
