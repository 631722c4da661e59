------------------------------- MODULE Analysis ------------------------------
(***************************************************************************)
(* What is computed from the collected series: trends (services/trends.py),*)
(* opportunities (services/opportunities.py), checks and change events     *)
(* (services/monitoring.py), by requests that overlap one another and the  *)
(* collection and review of entities.                                      *)
(*                                                                         *)
(* The scores are those of TrendScoring and Assessment.  An update writes  *)
(* only the columns that differ from what the request has read.  The       *)
(* snapshots, conditions and events of a row are deleted with it and are   *)
(* kept in it; conditions are replaced by each rescoring, so the number of *)
(* snapshots identifies them.  Events are a set: a pass records the same   *)
(* event again until the next rescoring.                                   *)
(***************************************************************************)
EXTENDS Entities

CONSTANTS
    TrendInputs,    \* measurements of a subject, see TrendScoring
    Judgements,     \* assessments of a candidate, see Assessment
    Verdicts        \* of check_condition, see Conditions

VARIABLES
    trends,         \* rows [entity, state, score, peak, history]
    opportunities   \* rows [trend, state, score, peak, history, condition, events]

analysisVars == <<trends, opportunities>>
vars == <<entityVars, analysisVars, requests, overlap>>

T == INSTANCE TrendScoring
A == INSTANCE Assessment

\* The column of a row after an update by a request that read old.
Updated(column, old, new) == IF new = old THEN column ELSE new

-----------------------------------------------------------------------------
(* Evaluation: one trend row per subject.                                  *)

Subjects == {signals[s].entity : s \in DOMAIN signals}
\* The code also looks for the geographic scope and the mode: here every subject has
\* one scope and every evaluation the same mode.
TrendsOf(e) == {t \in Live(trends) : trends[t].entity = e}

\* Rows of a table as a request reads them.
Copy(table, rows) == [i \in rows |-> table[i]]

Evaluate(r) ==
    /\ \A e \in Subjects : Cardinality(TrendsOf(e)) <= 1
    /\ \E inputs \in [Subjects -> TrendInputs] :
          Reads(r, "evaluate",
                [inputs |-> inputs, rows |-> Copy(trends, UNION {TrendsOf(e) : e \in Subjects})])
    /\ UNCHANGED <<entityVars, analysisVars>>

\* Two rows where one is expected: MultipleResultsFound.
EvaluateFails(r) ==
    /\ \E e \in Subjects : Cardinality(TrendsOf(e)) > 1
    /\ Ends(r, "evaluate", "new", "failed")
    /\ UNCHANGED <<entityVars, analysisVars>>

\* Mutant: the peak is the score of the last pass.
PeakLatest(column, old, score) == Updated(column, old, score)
\* The peak is only written when the score exceeds what was read.
Peak(column, old, score) == IF score > old THEN score ELSE column

NewTrend(e, inp) ==
    LET score == T!Score(inp)
    IN  [entity |-> e, state |-> T!NextState("candidate", score, inp), score |-> score,
         peak |-> score, history |-> <<score>>]

UpdatedTrend(row, old, inp) ==
    LET score == T!Score(inp)
    IN  [row EXCEPT !.state = Updated(@, old.state, T!NextState(old.state, old.peak, inp)),
                    !.score = Updated(@, old.score, score),
                    !.peak = Peak(@, old.peak, score),
                    !.history = Append(@, score)]

\* The subjects that had no row when they were read, in some order: a number is
\* only a name for a row.
Unseen(s) == SetToSeq({e \in DOMAIN s.inputs : \A t \in DOMAIN s.rows : s.rows[t].entity # e})

EvaluateConflicts(s) ==
    \/ ~(DOMAIN s.rows \subseteq Live(trends))
    \/ ~(DOMAIN s.inputs \subseteq Live(entities))

EvaluateCommit(r) ==
    LET s == requests[r].seen
        new == Unseen(s)
    IN  /\ Ends(r, "evaluate", "read", "done")
        /\ ~EvaluateConflicts(s)
        /\ trends' = [t \in DOMAIN trends |->
                         IF t \in DOMAIN s.rows
                         THEN UpdatedTrend(trends[t], s.rows[t], s.inputs[s.rows[t].entity])
                         ELSE trends[t]]
                     \o [i \in DOMAIN new |-> NewTrend(new[i], s.inputs[new[i]])]
        /\ UNCHANGED <<entityVars, opportunities>>

EvaluateLost(r) ==
    /\ Ends(r, "evaluate", "read", "failed")
    /\ EvaluateConflicts(requests[r].seen)
    /\ UNCHANGED <<entityVars, analysisVars>>

-----------------------------------------------------------------------------
(* Generation: one opportunity per trend, type and market.                 *)

OpportunitiesOf(t) == {o \in Live(opportunities) : opportunities[o].trend = t}

\* The trends that pass the gate, each with an assessment.
Generate(r) ==
    LET eligible == {t \in Live(trends) : trends[t].state \in A!EligibleTrendStates}
    IN  /\ \E judged \in [eligible -> Judgements] :
              LET kept == {t \in eligible : A!Stored(judged[t])}
              IN  Reads(r, "generate",
                        [judged |-> [t \in kept |-> judged[t]],
                         rows |-> Copy(opportunities, UNION {OpportunitiesOf(t) : t \in kept})])
        /\ UNCHANGED <<entityVars, analysisVars>>

NewOpportunity(t, a) ==
    [trend |-> t, state |-> A!StateOf(a, None, 0), score |-> a.score, peak |-> a.score,
     history |-> <<a.score>>, condition |-> "pending", events |-> {}]

UpdatedOpportunity(row, old, a) ==
    [row EXCEPT !.state = Updated(@, old.state, A!StateOf(a, old.state, old.peak)),
                !.score = Updated(@, old.score, a.score),
                !.peak = Peak(@, old.peak, a.score),
                !.history = Append(@, a.score),
                !.condition = "pending"]

Uncreated(s) == SetToSeq({t \in DOMAIN s.judged : \A o \in DOMAIN s.rows : s.rows[o].trend # t})

\* The unique key of an opportunity is enforced, that of a trend is not.
GenerateConflicts(s) ==
    \/ ~(DOMAIN s.rows \subseteq Live(opportunities))
    \/ ~(DOMAIN s.judged \subseteq Live(trends))
    \/ \E i \in DOMAIN Uncreated(s) : OpportunitiesOf(Uncreated(s)[i]) # {}

GenerateCommit(r) ==
    LET s == requests[r].seen
        new == Uncreated(s)
    IN  /\ Ends(r, "generate", "read", "done")
        /\ ~GenerateConflicts(s)
        /\ opportunities' =
               [o \in DOMAIN opportunities |->
                   IF o \in DOMAIN s.rows
                   THEN UpdatedOpportunity(opportunities[o], s.rows[o], s.judged[s.rows[o].trend])
                   ELSE opportunities[o]]
               \o [i \in DOMAIN new |-> NewOpportunity(new[i], s.judged[new[i]])]
        /\ UNCHANGED <<entityVars, trends>>

GenerateFails(r) ==
    /\ Ends(r, "generate", "read", "failed")
    /\ GenerateConflicts(requests[r].seen)
    /\ UNCHANGED <<entityVars, analysisVars>>

-----------------------------------------------------------------------------
(* Monitoring: the opportunities are read once, then each is checked and   *)
(* compared with its snapshots.                                            *)

ScoreEventThreshold == 500

Monitor(r) ==
    /\ Reads(r, "monitor", [rows |-> Copy(opportunities, Live(opportunities))])
    /\ UNCHANGED <<entityVars, analysisVars>>

\* Mutant: the newest snapshot is the previous one.
NewestSnapshot(history) == IF history = << >> THEN None ELSE Last(history)
LastSnapshot(history) == IF Len(history) < 2 THEN None ELSE history[Len(history) - 1]

\* Absolute difference
Moved(old, new) == Max({old - new, new - old}) >= ScoreEventThreshold

\* The row as it was read first, the snapshot and the condition as they are now.
DetectChanges(row, now, verdict) ==
    LET old == LastSnapshot(now.history)
        at == Len(now.history)
    IN    (IF old # None /\ Moved(old, row.score)
           THEN {[kind |-> IF row.score > old THEN "score_rose" ELSE "score_fell",
                  old |-> old, new |-> row.score, at |-> at]} ELSE {})
     \cup (IF verdict = "met" /\ now.condition # "met"
           THEN {[kind |-> "confirmation_met", at |-> at]} ELSE {})

MonitorCheck(r) ==
    LET rows == requests[r].seen.rows
        found == DOMAIN rows \cap Live(opportunities)
    IN  /\ At(r, "monitor", "read")
        /\ \E verdicts \in [found -> Verdicts] :
              ReadsOn(r, "monitor",
                  [checked |-> [o \in found |->
                      [at |-> Len(opportunities[o].history), condition |-> opportunities[o].condition,
                       verdict |-> verdicts[o],
                       events |-> DetectChanges(rows[o], opportunities[o], verdicts[o])]]])
        /\ UNCHANGED <<entityVars, analysisVars>>

\* The conditions checked were replaced, or deleted, in the meantime.
MonitorConflicts(s) ==
    \E o \in DOMAIN s.checked :
        o \in Live(opportunities) => Len(opportunities[o].history) # s.checked[o].at

MonitorCommit(r) ==
    LET s == requests[r].seen
    IN  /\ Ends(r, "monitor", "gathered", "done")
        /\ ~MonitorConflicts(s)
        /\ opportunities' = [o \in DOMAIN opportunities |->
               IF o \notin DOMAIN s.checked THEN opportunities[o]
               ELSE [opportunities[o] EXCEPT
                        !.condition = Updated(@, s.checked[o].condition, s.checked[o].verdict),
                        !.events = @ \cup s.checked[o].events]]
        /\ UNCHANGED <<entityVars, trends>>

MonitorFails(r) ==
    /\ Ends(r, "monitor", "gathered", "failed")
    /\ MonitorConflicts(requests[r].seen)
    /\ UNCHANGED <<entityVars, analysisVars>>

-----------------------------------------------------------------------------
(* A merge deletes the duplicate: its trends go, and their opportunities.  *)

DeletedTrends == {t \in Live(trends) : entities'[trends[t].entity] = None}

\* Mutant: the deletion of a trend leaves its opportunities.
CascadeShallow ==
    /\ trends' = [t \in DOMAIN trends |-> IF t \in DeletedTrends THEN None ELSE trends[t]]
    /\ UNCHANGED opportunities

Cascade ==
    /\ trends' = [t \in DOMAIN trends |-> IF t \in DeletedTrends THEN None ELSE trends[t]]
    /\ opportunities' = [o \in DOMAIN opportunities |->
           IF opportunities[o] # None /\ opportunities[o].trend \in DeletedTrends THEN None
           ELSE opportunities[o]]

\* An opportunity is also linked to its entity, without a cascade: whether the
\* link refuses the deletion depends on which of the two comes first.
LinkRefuses(r) ==
    LET s == requests[r].seen
    IN  /\ Ends(r, "decide", "gathered", "failed")
        /\ s.duplicate # None
        /\ \E t \in TrendsOf(s.duplicate) : OpportunitiesOf(t) # {}
        /\ UNCHANGED <<entityVars, analysisVars>>

Kinds == {"collect", "decide", "evaluate", "generate", "monitor"}

Next ==
    \E r \in Requests :
        \/ (Collect(r) \/ CollectCommit(r) \/ CollectFails(r)) /\ UNCHANGED analysisVars
        \/ (Decide(r) \/ DecideGather(r) \/ DecideClashes(r) \/ DecideFails(r)) /\ UNCHANGED analysisVars
        \/ DecideCommit(r) /\ Cascade
        \/ LinkRefuses(r)
        \/ Evaluate(r) \/ EvaluateFails(r) \/ EvaluateCommit(r) \/ EvaluateLost(r)
        \/ Generate(r) \/ GenerateCommit(r) \/ GenerateFails(r)
        \/ Monitor(r) \/ MonitorCheck(r) \/ MonitorCommit(r) \/ MonitorFails(r)

Init ==
    /\ entities = << >> /\ aliases = << >> /\ candidates = << >> /\ signals = << >>
    /\ trends = << >> /\ opportunities = << >>
    /\ requests \in [Requests -> {[kind |-> k, pc |-> "new", seen |-> None] : k \in Kinds}]
    /\ overlap = {}

Spec == Init /\ [][Next]_vars

-----------------------------------------------------------------------------
TypeOK ==
    /\ TypeOKEntities
    /\ \A r \in Requests : requests[r].kind \in Kinds
                           /\ requests[r].pc \in {"new", "read", "gathered", "done", "failed"}
    /\ \A t \in Live(trends) : trends[t].state \in T!TrendStates /\ trends[t].entity \in Live(entities)
    /\ \A o \in Live(opportunities) : opportunities[o].state \in A!OpportunityStates
                                      /\ opportunities[o].trend \in Live(trends)

(***************************************************************************)
(* The inductive invariant.                                                *)
(***************************************************************************)
TrendRows == [entity : Nat, state : T!TrendStates, score : Int, peak : Int, history : Seq(Int)]
Events == [kind : {"score_rose", "score_fell"}, old : Int, new : Int, at : Nat]
             \cup [kind : {"confirmation_met"}, at : Nat]
OpportunityRows == [trend : Nat, state : A!OpportunityStates, score : Int, peak : Int,
                    history : Seq(Int), condition : Verdicts \cup {"pending"}, events : SUBSET Events]

ASSUME RowsAssumption == None \notin Int \cup TrendRows \cup OpportunityRows

\* Scores are clamped sums of points.
ASSUME ScoresAssumption ==
    /\ \A inp \in TrendInputs : T!Score(inp) \in Int
    /\ \A a \in Judgements : a.score \in Int

AnalysisTables ==
    /\ trends \in Seq(TrendRows \cup {None})
    /\ opportunities \in Seq(OpportunityRows \cup {None})
    /\ \A t \in Live(trends) : trends[t].entity \in Live(entities)
    /\ \A o \in Live(opportunities) : opportunities[o].trend \in Live(trends)

\* The score of a row is its last snapshot, its peak the highest of all.
Kept(row) ==
    /\ row.history # << >> /\ row.score = Last(row.history)
    /\ row.peak \in Range(row.history) /\ \A v \in Range(row.history) : v <= row.peak

\* Alone, an evaluation has read the rows of its subjects as they are.
EvaluateSeen(s) ==
    /\ DOMAIN s.inputs \subseteq DOMAIN entities /\ \A e \in DOMAIN s.inputs : s.inputs[e] \in TrendInputs
    /\ DOMAIN s.rows \subseteq DOMAIN trends
    /\ \A t \in DOMAIN s.rows : s.rows[t] \in TrendRows /\ s.rows[t].entity \in DOMAIN s.inputs
    /\ \A t \in DOMAIN s.rows \cap Live(trends) : trends[t].entity = s.rows[t].entity
    /\ {"evaluate"} \notin overlap =>
          /\ \A t \in DOMAIN s.rows \cap Live(trends) : trends[t] = s.rows[t]
          /\ \A t \in Live(trends) : trends[t].entity \in DOMAIN s.inputs => t \in DOMAIN s.rows

\* Alone, a generation has read the scores as they are.
GenerateSeen(s) ==
    /\ DOMAIN s.judged \subseteq DOMAIN trends /\ \A t \in DOMAIN s.judged : s.judged[t] \in Judgements
    /\ DOMAIN s.rows \subseteq DOMAIN opportunities
    /\ \A o \in DOMAIN s.rows : s.rows[o] \in OpportunityRows /\ s.rows[o].trend \in DOMAIN s.judged
    /\ \A o \in DOMAIN s.rows \cap Live(opportunities) : opportunities[o].trend = s.rows[o].trend
    /\ {"generate"} \notin overlap =>
          \A o \in DOMAIN s.rows \cap Live(opportunities) :
              opportunities[o].score = s.rows[o].score /\ opportunities[o].peak = s.rows[o].peak

\* No generation overlaps another or a monitor pass.
Calm == overlap \cap {{"generate"}, {"monitor", "generate"}} = {}

\* The changes of score that a row tells of at its newest snapshot, and those due.
ScoreEvents(events) == {e \in events : e.kind # "confirmation_met"}
DueEvents(h) ==
    LET n == Len(h)
    IN  IF n > 1 /\ Moved(h[n - 1], h[n])
        THEN {[kind |-> IF h[n] > h[n - 1] THEN "score_rose" ELSE "score_fell",
               old |-> h[n - 1], new |-> h[n], at |-> n]}
        ELSE {}

MonitorSeen(s) ==
    /\ DOMAIN s.rows \subseteq DOMAIN opportunities /\ \A o \in DOMAIN s.rows : s.rows[o] \in OpportunityRows
    /\ Calm => /\ Live(opportunities) \subseteq DOMAIN s.rows
               /\ \A o \in Live(opportunities) : s.rows[o].score = Last(opportunities[o].history)

CheckedSeen(s) ==
    /\ DOMAIN s.checked \subseteq DOMAIN opportunities
    /\ \A o \in DOMAIN s.checked :
          s.checked[o].verdict \in Verdicts /\ s.checked[o].events \subseteq Events
    /\ Calm => /\ Live(opportunities) \subseteq DOMAIN s.checked
               /\ \A o \in Live(opportunities) :
                     ScoreEvents(s.checked[o].events) = DueEvents(opportunities[o].history)

AnalysisSeenBy(r) ==
    /\ requests[r].kind \in Kinds /\ requests[r].pc \in {"new", "read", "gathered", "done", "failed"}
    /\ At(r, "evaluate", "read") => EvaluateSeen(requests[r].seen)
    /\ At(r, "generate", "read") => GenerateSeen(requests[r].seen)
    /\ At(r, "monitor", "read") => MonitorSeen(requests[r].seen)
    /\ At(r, "monitor", "gathered") => CheckedSeen(requests[r].seen)

AnalysisSeen == \A r \in Requests : AnalysisSeenBy(r)

\* One row per subject, and histories that are complete.
TrendsKept ==
    {"evaluate"} \notin overlap =>
        /\ \A t, u \in Live(trends) : trends[t].entity = trends[u].entity => t = u
        /\ \A t \in Live(trends) : Kept(trends[t])

OpportunitiesKept ==
    {"generate"} \notin overlap => \A o \in Live(opportunities) : Kept(opportunities[o])

\* What a row tells of its newest snapshot is what is due, of older ones anything.
EventsKept ==
    Calm => \A o \in Live(opportunities) :
               LET row == opportunities[o]
               IN  \A e \in ScoreEvents(row.events) :
                       /\ e.at <= Len(row.history)
                       /\ e.at = Len(row.history) => e \in DueEvents(row.history)

AnalysisInv ==
    /\ EntitiesInv /\ AnalysisTables /\ AnalysisSeen
    /\ TrendsKept /\ OpportunitiesKept /\ EventsKept

-----------------------------------------------------------------------------
\* Without two evaluations, or two generations, at the same time no history is
\* lost: there is one row per subject, its score is that of the last snapshot and
\* its peak the highest of all.  That holds whatever else goes on: collections,
\* merges that delete rows in between, generations on trends that change, monitor
\* passes (evaluate_trends, _upsert_trend, generate_opportunities, _upsert).
HistoryIsKept ==
    LET kept(row) == row.score = Last(row.history) /\ row.peak = Max(Range(row.history))
    IN  /\ {"evaluate"} \notin overlap =>
              /\ \A e \in Live(entities) : Cardinality(TrendsOf(e)) <= 1
              /\ \A t \in Live(trends) : kept(trends[t])
        /\ {"generate"} \notin overlap =>
              \A o \in Live(opportunities) : kept(opportunities[o])

\* A change that is recorded is the difference of two snapshots that follow each
\* other, and a pass records it when it is the last one and large enough: unless a
\* generation runs during a pass or another generation, the events tell nothing that
\* did not happen and miss nothing that happened last (monitor_all, _last_snapshot,
\* detect_changes; _upsert, which replaces the conditions that are being checked).
EventsAreMoves ==
    [][overlap' \cap {{"generate"}, {"monitor", "generate"}} = {} =>
        \A r \in Requests :
            At(r, "monitor", "gathered") /\ requests'[r].pc = "done" =>
                \A o \in Live(opportunities) :
                    LET h == opportunities'[o].history
                        n == Len(h)
                        told == {e \in opportunities'[o].events : e.at = n /\ e.kind # "confirmation_met"}
                    IN  IF n > 1 /\ Moved(h[n - 1], h[n])
                        THEN \E e \in told : e.old = h[n - 1] /\ e.new = h[n] /\ told = {e}
                        ELSE told = {}]_vars

\* "One row per subject, updated over time" (Trend in models.py).
OneRowPerSubject == \A e \in Live(entities) : Cardinality(TrendsOf(e)) <= 1
=============================================================================
