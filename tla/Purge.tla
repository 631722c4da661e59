--------------------------------- MODULE Purge -------------------------------
(***************************************************************************)
(* scripts/purge_demo_data.py: one run with --apply, from the plan and its *)
(* refusals over the statements that delete demo evidence from a database  *)
(* with foreign keys to the comparison of the counts.  The run is one      *)
(* transaction of PostgreSQL's default isolation: each of its statements   *)
(* sees what others have committed by then, and others commit at any time. *)
(*                                                                         *)
(* A database is a function of its rows: [table, refs, source], where refs *)
(* are the columns that refer to another row and source says what kind of  *)
(* source a row of "sources" is.  One table stands for those with the same *)
(* keys and statements: "scores" for all that only hangs off an            *)
(* opportunity, "checks" for what hangs off one of those, "validations"    *)
(* for the credentials and the cache, "facts" for the match candidates.    *)
(* "notifications" has no rows: nothing writes any.                        *)
(***************************************************************************)
EXTENDS Integers, Sequences, FiniteSets

CONSTANTS Databases,    \* what the database may hold at first
          NewRows,      \* what others may add to it
          MaxRows       \* bound on the number of rows

VARIABLES committed,    \* the database without what the purge has changed
          db,           \* the database as the purge sees it
          purge,        \* where the run is, or how it ended
          statement,    \* the number of the next statement
          plan,         \* what build_plan found: trends, counts, and the protected rows
          demo,         \* the sources to be removed
          trends,       \* the trends to be removed
          late          \* somebody has written since the plan

purgeVars == <<committed, db, purge, statement, plan, demo, trends, late>>

-----------------------------------------------------------------------------
(* The schema.                                                             *)

\* <<table, column, table referred to>>, in the order of the latter.
ForeignKeys ==
    {"source_runs", "raw_records", "signals", "trend_signals", "evidence_items", "validations", "facts"}
        \X {"source"} \X {"sources"}
    \cup {<<"raw_records", "source_run", "source_runs">>}
    \cup {"signal_observations", "evidence_items"} \X {"raw_record"} \X {"raw_records"}
    \cup {"signal_observations", "trend_signals", "opportunity_signals"} \X {"signal"} \X {"signals"}
    \cup {<<"evidence_items", "observation", "signal_observations">>}
    \cup {"trend_signals", "trend_snapshots", "opportunities", "opportunity_trends", "watchlist_items"}
        \X {"trend"} \X {"trends"}
    \cup {"scores", "opportunity_trends", "opportunity_signals", "opportunity_decisions", "skeptic_reviews",
          "reports", "evidence_items", "watchlist_items", "alerts", "predictions", "model_runs",
          "user_notes", "user_decisions"} \X {"opportunity"} \X {"opportunities"}
    \cup {<<"checks", "score", "scores">>}
    \cup {<<"trends", "explanation", "model_runs">>, <<"reports", "model_run", "model_runs">>,
          <<"skeptic_reviews", "model_run", "model_runs">>}

\* ON DELETE CASCADE; every other reference forbids to delete what it refers to.
Cascades ==
    {<<"source_runs", "source">>, <<"validations", "source">>, <<"checks", "score">>}
    \cup {"signal_observations", "trend_signals"} \X {"signal"}
    \cup {"trend_signals", "trend_snapshots", "watchlist_items", "opportunities", "opportunity_trends"}
        \X {"trend"}
    \cup {"scores", "opportunity_trends", "opportunity_signals", "opportunity_decisions",
          "skeptic_reviews", "reports", "evidence_items"} \X {"opportunity"}

NotNull == {<<"source_runs", "source">>, <<"raw_records", "source">>, <<"signals", "source">>,
            <<"signal_observations", "signal">>}

\* What a person wrote.
Protected == {"user_notes", "user_decisions", "opportunity_decisions"}

Rows(d, table) == {r \in DOMAIN d : d[r].table = table}

Refers(row, column, to) == column \in DOMAIN row.refs /\ row.refs[column] \in to

Referring(d, table, column, to) == {r \in Rows(d, table) : Refers(d[r], column, to)}

\* What the foreign keys ask of a row of d.
KeysHold(d, row) ==
    /\ \A c \in DOMAIN row.refs :
          row.refs[c] \in DOMAIN d /\ <<row.table, c, d[row.refs[c]].table>> \in ForeignKeys
    /\ \A k \in NotNull : k[1] = row.table => k[2] \in DOMAIN row.refs

\* A record is stored by a run of its own source, and observed under a signal of
\* its own source.
OfOneSource(d, row) ==
    /\ row.table = "raw_records" =>
          \A s \in Rows(d, "sources") : \A run \in Referring(d, "source_runs", "source", {s}) :
              Refers(row, "source_run", {run}) => Refers(row, "source", {s})
    /\ row.table = "signal_observations" =>
          \A s \in Rows(d, "sources") : \A raw \in Referring(d, "raw_records", "source", {s}) :
              Refers(row, "raw_record", {raw}) =>
                  Refers(row, "signal", Referring(d, "signals", "source", {s}))

Fits(d, row) == KeysHold(d, row) /\ OfOneSource(d, row)

IsRow(row) ==
    row = [table |-> row.table, refs |-> [c \in DOMAIN row.refs |-> row.refs[c]], source |-> row.source]

Sound(d) == d = [r \in DOMAIN d |-> d[r]] /\ \A r \in DOMAIN d : IsRow(d[r]) /\ Fits(d, d[r])

\* The database accepts no other rows, and ingestion.py writes no others.
ASSUME PurgeAssumption == (\A d \in Databases : Sound(d)) /\ (\A row \in NewRows : IsRow(row))

-----------------------------------------------------------------------------
(* The plan.                                                               *)

\* The allow-list and the rule of provenance must agree.
ClassifySource(s) ==
    IF s.approved /\ ~s.eligible THEN "demo" ELSE IF s.eligible THEN "live" ELSE "unknown"

SourcesThatAre(d, kind) == {r \in Rows(d, "sources") : ClassifySource(d[r].source) = kind}

AllDemoTrends(d, sources) ==
    {t \in Rows(d, "trends") :
        LET links == Referring(d, "trend_signals", "trend", {t})
        IN  links # {} /\ \A l \in links : Refers(d[l], "source", sources)}

Doomed(d, chosen) == Referring(d, "opportunities", "trend", chosen)

CheckProtectedContent(d, chosen) ==
    {r \in DOMAIN d : d[r].table \in Protected /\ Refers(d[r], "opportunity", Doomed(d, chosen))}

\* The code compares ten tables.  The databases here have rows in three of them; what
\* others write to the rest makes the run refuse more often.
Counts(d) == [t \in Protected |-> Cardinality(Rows(d, t))]

PlanOf(d) ==
    [trends |-> AllDemoTrends(d, SourcesThatAre(d, "demo")), counts |-> Counts(d),
     words |-> {r \in DOMAIN d : d[r].table \in Protected}]

PlanRefuses(d) ==
    SourcesThatAre(d, "unknown") # {} \/ CheckProtectedContent(d, PlanOf(d).trends) # {}

-----------------------------------------------------------------------------
(* The statements.                                                         *)

\* Mutant: the trends are selected when their links are gone.
SelectedLate(d) ==
    LET resolved == AllDemoTrends(d, demo)
        doomed == Doomed(d, resolved)
        signals == Referring(d, "signals", "source", demo)
    IN  [demo |-> demo, trends |-> resolved, doomed |-> doomed, signals |-> signals,
         model_runs |-> Referring(d, "model_runs", "opportunity", doomed),
         observations |-> Referring(d, "signal_observations", "signal", signals),
         raw |-> Referring(d, "raw_records", "source", demo),
         source_runs |-> Referring(d, "source_runs", "source", demo)]

\* What the subqueries select, each time anew; the trends were resolved first.
Selected(d) ==
    LET doomed == Doomed(d, trends)
        signals == Referring(d, "signals", "source", demo)
    IN  [demo |-> demo, trends |-> trends, doomed |-> doomed, signals |-> signals,
         model_runs |-> Referring(d, "model_runs", "opportunity", doomed),
         observations |-> Referring(d, "signal_observations", "signal", signals),
         raw |-> Referring(d, "raw_records", "source", demo),
         source_runs |-> Referring(d, "source_runs", "source", demo)]

\* UPDATE table SET column = NULL, or DELETE FROM table, where one of some columns
\* holds something selected.
Update(table, column, selection) ==
    [table |-> table, sets |-> {column}, where |-> {<<column, selection>>}]
DeleteFrom(table, where) == [table |-> table, sets |-> {}, where |-> where]

Statements == <<
    Update("trends", "explanation", "model_runs"),
    Update("reports", "model_run", "model_runs"),
    Update("skeptic_reviews", "model_run", "model_runs"),
    DeleteFrom("model_runs", {<<"opportunity", "doomed">>}),
    DeleteFrom("opportunity_signals", {<<"signal", "signals">>}),
    DeleteFrom("evidence_items", {<<"source", "demo">>, <<"raw_record", "raw">>,
                                  <<"observation", "observations">>}),
    DeleteFrom("watchlist_items", {<<"opportunity", "doomed">>}),
    DeleteFrom("watchlist_items", {<<"trend", "trends">>}),
    DeleteFrom("alerts", {<<"opportunity", "doomed">>}),
    DeleteFrom("predictions", {<<"opportunity", "doomed">>}),
    DeleteFrom("opportunities", {<<"trend", "trends">>}),
    DeleteFrom("trend_signals", {<<"source", "demo">>}),
    DeleteFrom("trends", {<<"id", "trends">>}),
    DeleteFrom("signal_observations", {<<"signal", "signals">>}),
    DeleteFrom("signals", {<<"source", "demo">>}),
    DeleteFrom("raw_records", {<<"source", "demo">>}),
    DeleteFrom("raw_records", {<<"source_run", "source_runs">>}),
    DeleteFrom("source_runs", {<<"source", "demo">>}),
    DeleteFrom("validations", {<<"source", "demo">>}),
    DeleteFrom("facts", {<<"source", "demo">>}),
    DeleteFrom("sources", {<<"id", "demo">>})>>

Matching(d, s) ==
    LET selected == Selected(d)
    IN  {r \in Rows(d, s.table) : \E w \in s.where :
            IF w[1] = "id" THEN r \in selected[w[2]] ELSE Refers(d[r], w[1], selected[w[2]])}

Detached(d, rows, columns) ==
    [r \in DOMAIN d |-> IF r \in rows
        THEN [d[r] EXCEPT !.refs = [c \in DOMAIN d[r].refs \ columns |-> d[r].refs[c]]] ELSE d[r]]

\* What goes with some rows: cascades are two references deep at most.
WithCascades(d, rows) ==
    rows \cup {r \in DOMAIN d : \E c \in DOMAIN d[r].refs :
                   d[r].refs[c] \in rows /\ <<d[r].table, c>> \in Cascades}
Gone(d, rows) == WithCascades(d, WithCascades(d, rows))

\* Something that stays refers to something that goes.
Violates(d, gone) == \E r \in DOMAIN d \ gone : \E c \in DOMAIN d[r].refs : d[r].refs[c] \in gone

Without(d, gone) == [r \in DOMAIN d \ gone |-> d[r]]

-----------------------------------------------------------------------------
(* The run.                                                                *)

Running == purge \in {"planned", "classified", "purging"}

\* build_plan, read in one step, and the refusals of main.
Plan ==
    /\ purge = "idle"
    /\ purge' = IF PlanRefuses(db) THEN "refused" ELSE "planned"
    /\ plan' = PlanOf(db)
    /\ UNCHANGED <<committed, db, statement, demo, trends, late>>

Classify ==
    /\ purge = "planned" /\ purge' = "classified"
    /\ demo' = SourcesThatAre(db, "demo")
    /\ UNCHANGED <<committed, db, statement, plan, trends, late>>

Resolve ==
    /\ purge = "classified" /\ purge' = "purging"
    /\ trends' = AllDemoTrends(db, demo)
    /\ UNCHANGED <<committed, db, statement, plan, demo, late>>

\* One statement, which fails as a whole when a foreign key is violated; the
\* transaction is rolled back then.
Execute ==
    /\ purge = "purging" /\ statement \in DOMAIN Statements
    /\ LET s == Statements[statement]
           rows == Matching(db, s)
           gone == IF s.sets = {} THEN Gone(db, rows) ELSE {}
       IN  IF Violates(db, gone)
           THEN db' = committed /\ purge' = "violated" /\ UNCHANGED statement
           ELSE /\ db' = IF s.sets = {} THEN Without(db, gone) ELSE Detached(db, rows, s.sets)
                /\ statement' = statement + 1
                /\ UNCHANGED purge
    /\ UNCHANGED <<committed, plan, demo, trends, late>>

\* The counts are compared with those of the plan before the commit.
Compare ==
    /\ purge = "purging" /\ statement \notin DOMAIN Statements
    /\ IF Counts(db) = plan.counts THEN purge' = "done" /\ UNCHANGED db
       ELSE purge' = "moved" /\ db' = committed
    /\ UNCHANGED <<committed, statement, plan, demo, trends, late>>

\* Others write: a row that refers to rows which are there (one that refers to what
\* the purge has deleted waits for its end), or the explanation of a trend (which
\* waits when the purge has cleared the one before).
Write(r, row) ==
    /\ purge = "idle" \/ Running
    /\ r \notin DOMAIN committed /\ Cardinality(DOMAIN committed) < MaxRows
    /\ Fits(db, row)
    /\ committed' = [k \in DOMAIN committed \cup {r} |-> IF k = r THEN row ELSE committed[k]]
    /\ db' = [k \in DOMAIN db \cup {r} |-> IF k = r THEN row ELSE db[k]]
    /\ late' = Running
    /\ UNCHANGED <<purge, statement, plan, demo, trends>>

Explained(d, t, run) ==
    [d EXCEPT ![t].refs = [c \in DOMAIN d[t].refs \cup {"explanation"} |->
                              IF c = "explanation" THEN run ELSE d[t].refs[c]]]

Explain(t, run) ==
    /\ purge = "idle" \/ Running
    /\ db[t] = committed[t]
    /\ committed' = Explained(committed, t, run) /\ db' = Explained(db, t, run)
    /\ late' = Running
    /\ UNCHANGED <<purge, statement, plan, demo, trends>>

PurgeInit ==
    /\ committed \in Databases /\ db = committed
    /\ purge = "idle" /\ statement = 1 /\ plan = PlanOf(db)
    /\ demo = {} /\ trends = {} /\ late = FALSE

PurgeNext ==
    \/ Plan \/ Classify \/ Resolve \/ Execute \/ Compare
    \/ \E row \in NewRows : Write(Cardinality(DOMAIN committed) + 1, row)
    \/ \E t \in Rows(db, "trends"), run \in Rows(db, "model_runs") : Explain(t, run)

PurgeSpec == PurgeInit /\ [][PurgeNext]_purgeVars

-----------------------------------------------------------------------------
(* Properties.                                                             *)

\* The columns that are cleared.
Soft == {"explanation", "model_run"}

\* Reference: the rows that cannot do without some rows, by one reference after
\* another, and there are no longer chains of them.
Tied(d, s) == s \cup {r \in DOMAIN d : \E c \in DOMAIN d[r].refs \ Soft : d[r].refs[c] \in s}
RestsOn(d, s) == Tied(d, Tied(d, Tied(d, Tied(d, Tied(d, s)))))

Swept(d, gone) ==
    [r \in DOMAIN d \ gone |->
        [d[r] EXCEPT !.refs = [c \in {k \in DOMAIN d[r].refs : d[r].refs[k] \notin gone} |-> d[r].refs[c]]]]

\* What is committed in the end is the database, with everything in it that others
\* wrote in the meantime, without what rests on a demo source or on a trend that had
\* links to demo sources only; of the rest exactly the references to what is gone are
\* cleared.  Any other end leaves the database as it was (apply_purge).
ExactlyTheDemo ==
    /\ purge = "done" => db = Swept(committed, RestsOn(committed, demo \cup trends))
    /\ purge \in {"refused", "violated", "moved"} => db = committed

\* PostgreSQL accepts the statements in their order, and the counts agree, unless
\* somebody writes between the plan and the commit (apply_purge, main).
AcceptedWhenAlone == purge \in {"violated", "moved"} => late

\* No note or decision that was there at the plan is lost, whatever others write,
\* unless a trend has become one of demo only since (check_protected_content).
WordsStay == purge = "done" /\ trends \subseteq plan.trends => plan.words \subseteq DOMAIN db

PurgeIsExact == ExactlyTheDemo /\ AcceptedWhenAlone /\ WordsStay
=============================================================================
