------------------------------ MODULE PurgeProofs ----------------------------
(***************************************************************************)
(* The purge of demo data: what it commits, that it is not stopped unless  *)
(* somebody writes, and that no protected row goes, for every database     *)
(* that the foreign keys accept and whatever others write in between.      *)
(***************************************************************************)
EXTENDS Purge, TLAPS

-----------------------------------------------------------------------------
(* The invariant.  A column that is not soft is called hard.               *)

\* Row r of d refers to g.
Points(d, r, c, g) == r \in DOMAIN d /\ c \in DOMAIN d[r].refs /\ d[r].refs[c] = g

\* The rows of e are rows of d with the same hard columns.
Part(e, d) ==
    /\ DOMAIN e \subseteq DOMAIN d
    /\ \A r \in DOMAIN e : e[r].table = d[r].table /\ e[r].source = d[r].source
    /\ \A r \in DOMAIN e : \A c \in DOMAIN e[r].refs \ Soft :
          c \in DOMAIN d[r].refs /\ e[r].refs[c] = d[r].refs[c]
    /\ \A r \in DOMAIN e : DOMAIN d[r].refs \ Soft \subseteq DOMAIN e[r].refs

\* And they have no other columns.
Within(e, d) ==
    /\ Part(e, d)
    /\ \A r \in DOMAIN e : \A c \in DOMAIN e[r].refs : c \in DOMAIN d[r].refs /\ e[r].refs[c] = d[r].refs[c]

DoomedRuns(d, chosen) == Referring(d, "model_runs", "opportunity", Doomed(d, chosen))

\* What is cleared referred to something that goes with statement 4 or is gone.
ClearedInv ==
    \A r \in DOMAIN db : \A c \in DOMAIN committed[r].refs :
        \/ c \in DOMAIN db[r].refs
        \/ committed[r].refs[c] \notin DOMAIN db
        \/ statement <= 4 /\ committed[r].refs[c] \in DoomedRuns(db, trends)

EndOfStatements == 22

ControlInv ==
    /\ purge \in {"idle", "planned", "classified", "purging", "refused", "violated", "moved", "done"}
    /\ purge \notin {"purging", "done"} => db = committed
    /\ statement \in 1..EndOfStatements
    /\ purge \in {"idle", "planned", "classified"} => statement = 1
    /\ purge = "done" => statement = EndOfStatements

\* Statements 13 and 21 delete what is to be removed.
RootsInv ==
    /\ demo \subseteq Rows(committed, "sources") /\ trends \subseteq Rows(committed, "trends")
    /\ purge \in {"purging", "done"} /\ statement > 13 => trends \cap DOMAIN db = {}
    /\ purge \in {"purging", "done"} /\ statement > 21 => demo \cap DOMAIN db = {}

\* Nothing goes that does not rest on it.
UpperInv == DOMAIN committed \ DOMAIN db \subseteq RestsOn(committed, demo \cup trends)

\* What stood at the plan has not changed: none of it was in the way of it.
WordsInv ==
    purge \notin {"idle", "refused"} =>
        /\ plan.words \subseteq DOMAIN committed
        /\ \A r \in plan.words : committed[r].table \in Protected
        /\ plan.words \cap CheckProtectedContent(committed, plan.trends) = {}

\* Nothing matches the statements before the j-th any more.
Passed(d, j) == \A i \in 1..(j - 1) : Matching(d, Statements[i]) = {}

\* While nobody has written, the database is that of the plan, and what a statement
\* has dealt with does not come back.
AloneInv ==
    ~late =>
        /\ purge \in {"planned", "classified", "purging"} => plan = PlanOf(committed)
        /\ purge \in {"classified", "purging"} => demo = SourcesThatAre(committed, "demo")
        /\ purge = "purging" => trends = plan.trends
        /\ purge = "purging" => Passed(db, statement)

DataInv == Sound(committed) /\ Sound(db) /\ Within(db, committed)

PurgeInv ==
    /\ DataInv /\ ClearedInv /\ ControlInv /\ RootsInv /\ UpperInv /\ WordsInv /\ AloneInv
    /\ AcceptedWhenAlone

-----------------------------------------------------------------------------
(* The schema.                                                             *)

\* What refers to what.
LEMMA KeysByTarget ==
  ASSUME NEW t, NEW c, NEW u, <<t, c, u>> \in ForeignKeys
  PROVE  /\ u = "sources" => c = "source" /\ t \in {"source_runs", "raw_records", "signals",
                    "trend_signals", "evidence_items", "validations", "facts"}
         /\ u = "source_runs" => c = "source_run" /\ t = "raw_records"
         /\ u = "raw_records" => c = "raw_record" /\ t \in {"signal_observations", "evidence_items"}
         /\ u = "signals" =>
               c = "signal" /\ t \in {"signal_observations", "trend_signals", "opportunity_signals"}
         /\ u = "signal_observations" => c = "observation" /\ t = "evidence_items"
         /\ u = "trends" => c = "trend" /\ t \in {"trend_signals", "trend_snapshots", "opportunities",
                    "opportunity_trends", "watchlist_items"}
         /\ u = "opportunities" => c = "opportunity" /\ t \in {"scores", "opportunity_trends",
                    "opportunity_signals", "opportunity_decisions", "skeptic_reviews", "reports",
                    "evidence_items", "watchlist_items", "alerts", "predictions", "model_runs",
                    "user_notes", "user_decisions"}
         /\ u = "scores" => c = "score" /\ t = "checks"
         /\ u \in {"sources", "source_runs", "raw_records", "signals", "signal_observations", "trends",
                   "opportunities", "scores", "model_runs"}
  BY DEF ForeignKeys

LEMMA KeysToModelRuns ==
  ASSUME NEW t, NEW c, <<t, c, "model_runs">> \in ForeignKeys
  PROVE  \/ c = "explanation" /\ t = "trends"
         \/ c = "model_run" /\ (t = "reports" \/ t = "skeptic_reviews")
  BY DEF ForeignKeys

\* Where a column refers to.
LEMMA KeysByColumn ==
  ASSUME NEW t, NEW c, NEW u, <<t, c, u>> \in ForeignKeys
  PROVE  /\ c = "source" => u = "sources"
         /\ c = "source_run" => u = "source_runs"
         /\ c = "raw_record" => u = "raw_records"
         /\ c = "signal" => u = "signals"
         /\ c = "observation" => u = "signal_observations"
         /\ c = "trend" => u = "trends"
         /\ c = "opportunity" => u = "opportunities"
         /\ c \in Soft => u = "model_runs"
  BY DEF ForeignKeys, Soft

\* What the rows refer to that lead from a protected one to a trend.
LEMMA KeysByTable ==
  ASSUME NEW t, NEW c, NEW u, <<t, c, u>> \in ForeignKeys
  PROVE  /\ t \in Protected => c = "opportunity"
         /\ t = "opportunities" => c = "trend"
         /\ t = "trends" => c \in Soft
         /\ t # "sources"
  BY DEF ForeignKeys, Protected, Soft

LEMMA CascadesAreHard ==
  ASSUME NEW t, NEW c, <<t, c>> \in Cascades
  PROVE  c \notin Soft
  BY DEF Cascades, Soft

LEMMA NotNullIsHard ==
  ASSUME NEW k \in NotNull
  PROVE  k[2] \notin Soft
  BY DEF NotNull, Soft

\* What the statements select and where.
Kinds == {"demo", "trends", "doomed", "signals", "model_runs", "observations", "raw", "source_runs"}

Columns == {"id", "source", "source_run", "raw_record", "signal", "observation", "trend", "opportunity"}

LEMMA StatementsAre ==
  /\ DOMAIN Statements = 1..21
  /\ \A j \in 1..21 :
        IF j \in 1..3
        THEN /\ Statements[j].sets \subseteq Soft
             /\ \E c \in Soft : /\ Statements[j].sets = {c}
                              /\ Statements[j].where = {<<c, "model_runs">>}
        ELSE /\ Statements[j].sets = {}
             /\ \A w \in Statements[j].where : w[1] \in Columns /\ w[2] \in Kinds
  <1>1. DOMAIN Statements = 1..21
    BY DEF Statements
  <1>2. \A j \in 1..3 : /\ Statements[j].sets \subseteq Soft
                       /\ \E c \in Soft : /\ Statements[j].sets = {c}
                                        /\ Statements[j].where = {<<c, "model_runs">>}
    BY DEF Statements, Update, Soft
  <1>3. ASSUME NEW j \in 4..21
        PROVE  /\ Statements[j].sets = {}
               /\ \A w \in Statements[j].where : w[1] \in Columns /\ w[2] \in Kinds
    <2>1. CASE j \in 4..7
      BY <2>1 DEF Statements, DeleteFrom, Columns, Kinds
    <2>2. CASE j \in 8..12
      BY <2>2 DEF Statements, DeleteFrom, Columns, Kinds
    <2>3. CASE j \in 13..17
      BY <2>3 DEF Statements, DeleteFrom, Columns, Kinds
    <2>4. CASE j \in 18..21
      BY <2>4 DEF Statements, DeleteFrom, Columns, Kinds
    <2> QED
      BY <1>3, <2>1, <2>2, <2>3, <2>4
  <1> QED
    BY <1>1, <1>2, <1>3

-----------------------------------------------------------------------------
(* Sound databases.                                                        *)

LEMMA RowsAreEqual ==
  ASSUME NEW a, NEW b, IsRow(a), IsRow(b), a.table = b.table, a.source = b.source,
         DOMAIN a.refs = DOMAIN b.refs, \A c \in DOMAIN a.refs : a.refs[c] = b.refs[c]
  PROVE  a = b
  BY DEF IsRow

\* A row with other references.
LEMMA RowWithRefs ==
  ASSUME NEW row, IsRow(row), NEW refs, refs = [c \in DOMAIN refs |-> refs[c]]
  PROVE  LET other == [row EXCEPT !.refs = refs]
         IN  /\ IsRow(other) /\ other.table = row.table /\ other.source = row.source
             /\ other.refs = refs
  BY DEF IsRow

LEMMA KeyIsSound ==
  ASSUME NEW d, Sound(d), NEW r, NEW c, NEW g, Points(d, r, c, g)
  PROVE  r \in DOMAIN d /\ g \in DOMAIN d /\ <<d[r].table, c, d[g].table>> \in ForeignKeys
  BY DEF Sound, Fits, KeysHold, Points

LEMMA KeyIsThere ==
  ASSUME NEW d, Sound(d), NEW r \in DOMAIN d, NEW k \in NotNull, k[1] = d[r].table
  PROVE  \E g \in DOMAIN d : Points(d, r, k[2], g)
  BY DEF Sound, Fits, KeysHold, Points

LEMMA RunIsOfItsSource ==
  ASSUME NEW d, Sound(d), NEW x \in Rows(d, "raw_records"), NEW run, NEW s,
         Points(d, x, "source_run", run), Points(d, run, "source", s)
  PROVE  Points(d, x, "source", s)
  <1>1. /\ run \in DOMAIN d /\ d[run].table = "source_runs"
        /\ s \in DOMAIN d /\ d[s].table = "sources"
    BY KeyIsSound, KeysByColumn
  <1>2. OfOneSource(d, d[x]) /\ x \in DOMAIN d /\ d[x].table = "raw_records"
    BY DEF Sound, Fits, Rows
  <1>3. /\ s \in Rows(d, "sources") /\ run \in Referring(d, "source_runs", "source", {s})
        /\ Refers(d[x], "source_run", {run})
    BY <1>1 DEF Rows, Referring, Refers, Points
  <1>4. Refers(d[x], "source", {s})
    BY <1>2, <1>3 DEF OfOneSource
  <1> QED
    BY <1>2, <1>4 DEF Refers, Points

LEMMA ObservationIsOfItsSource ==
  ASSUME NEW d, Sound(d), NEW o \in Rows(d, "signal_observations"), NEW x, NEW s,
         Points(d, o, "raw_record", x), Points(d, x, "source", s)
  PROVE  \E g \in DOMAIN d : d[g].table = "signals" /\ Points(d, o, "signal", g) /\ Points(d, g, "source", s)
  <1>1. /\ x \in DOMAIN d /\ d[x].table = "raw_records"
        /\ s \in DOMAIN d /\ d[s].table = "sources"
    BY KeyIsSound, KeysByColumn
  <1>2. OfOneSource(d, d[o]) /\ o \in DOMAIN d /\ d[o].table = "signal_observations"
    BY DEF Sound, Fits, Rows
  <1>3. /\ s \in Rows(d, "sources") /\ x \in Referring(d, "raw_records", "source", {s})
        /\ Refers(d[o], "raw_record", {x})
    BY <1>1 DEF Rows, Referring, Refers, Points
  <1>4. Refers(d[o], "signal", Referring(d, "signals", "source", {s}))
    BY <1>2, <1>3 DEF OfOneSource
  <1> QED
    BY <1>2, <1>4 DEF Refers, Points, Referring, Rows

-----------------------------------------------------------------------------
(* Parts of a database.                                                    *)

LEMMA PartPoints ==
  ASSUME NEW e, NEW d, Part(e, d), NEW r, NEW c, c \notin Soft, NEW g
  PROVE  Points(e, r, c, g) <=> r \in DOMAIN e /\ Points(d, r, c, g)
  BY DEF Part, Points

LEMMA PartRefers ==
  ASSUME NEW e, NEW d, Part(e, d), NEW r \in DOMAIN e, NEW c, c \notin Soft, NEW to
  PROVE  Refers(e[r], c, to) <=> Refers(d[r], c, to)
  BY DEF Part, Refers

LEMMA PartRows ==
  ASSUME NEW e, NEW d, Part(e, d), NEW table
  PROVE  Rows(e, table) = Rows(d, table) \cap DOMAIN e
  BY DEF Part, Rows

LEMMA PartReferring ==
  ASSUME NEW e, NEW d, Part(e, d), NEW table, NEW c, c \notin Soft, NEW to
  PROVE  Referring(e, table, c, to) = Referring(d, table, c, to) \cap DOMAIN e
  BY PartRefers, PartRows DEF Referring

LEMMA WithinPasses ==
  ASSUME NEW a, NEW b, NEW d, Within(a, b), Within(b, d)
  PROVE  Within(a, d)
  <1>1. Part(a, d)
    BY DEF Within, Part
  <1>2. \A r \in DOMAIN a : \A c \in DOMAIN a[r].refs : c \in DOMAIN d[r].refs /\ a[r].refs[c] = d[r].refs[c]
    BY DEF Within, Part
  <1> QED
    BY <1>1, <1>2 DEF Within

\* A part whose keys hold is sound: what is of one source stays so.
LEMMA PartIsSound ==
  ASSUME NEW d, Sound(d), NEW e, Part(e, d), e = [r \in DOMAIN e |-> e[r]],
         \A r \in DOMAIN e : IsRow(e[r]) /\ KeysHold(e, e[r])
  PROVE  Sound(e)
  <1> SUFFICES ASSUME NEW r \in DOMAIN e PROVE OfOneSource(e, e[r])
    BY DEF Sound, Fits
  <1> USE DEF Soft
  <1>1. r \in DOMAIN d /\ d[r].table = e[r].table /\ OfOneSource(d, d[r])
    BY DEF Part, Sound, Fits
  <1>2. ASSUME e[r].table = "raw_records", NEW s \in Rows(e, "sources"),
               NEW run \in Referring(e, "source_runs", "source", {s}), Refers(e[r], "source_run", {run})
        PROVE  Refers(e[r], "source", {s})
    <2>1. /\ s \in Rows(d, "sources") /\ run \in Referring(d, "source_runs", "source", {s})
          /\ Refers(d[r], "source_run", {run})
      BY <1>2, PartRows, PartReferring, PartRefers
    <2>2. Refers(d[r], "source", {s})
      BY <1>1, <1>2, <2>1 DEF OfOneSource
    <2> QED
      BY <2>2, PartRefers
  <1>3. ASSUME e[r].table = "signal_observations", NEW s \in Rows(e, "sources"),
               NEW raw \in Referring(e, "raw_records", "source", {s}), Refers(e[r], "raw_record", {raw})
        PROVE  Refers(e[r], "signal", Referring(e, "signals", "source", {s}))
    <2>1. /\ s \in Rows(d, "sources") /\ raw \in Referring(d, "raw_records", "source", {s})
          /\ Refers(d[r], "raw_record", {raw})
      BY <1>3, PartRows, PartReferring, PartRefers
    <2>2. Refers(d[r], "signal", Referring(d, "signals", "source", {s}))
      BY <1>1, <1>3, <2>1 DEF OfOneSource
    <2>3. Refers(e[r], "signal", Referring(d, "signals", "source", {s}))
      BY <2>2, PartRefers
    <2>4. e[r].refs["signal"] \in DOMAIN e
      BY <2>3 DEF Refers, KeysHold
    <2> QED
      BY <2>3, <2>4, PartReferring DEF Refers
  <1> QED
    BY <1>2, <1>3 DEF OfOneSource

LEMMA WithoutIsSound ==
  ASSUME NEW d, Sound(d), NEW gone, ~Violates(d, gone)
  PROVE  Sound(Without(d, gone)) /\ Within(Without(d, gone), d)
  <1> DEFINE e == Without(d, gone)
  <1>1. DOMAIN e = DOMAIN d \ gone /\ e = [r \in DOMAIN e |-> e[r]]
    BY DEF Without
  <1>2. \A r \in DOMAIN e : e[r] = d[r]
    BY DEF Without
  <1> HIDE DEF e
  <1>3. Within(e, d)
    BY <1>1, <1>2 DEF Within, Part
  <1>4. ASSUME NEW r \in DOMAIN e
        PROVE  IsRow(e[r]) /\ KeysHold(e, e[r])
    <2>1. r \in DOMAIN d /\ IsRow(d[r]) /\ KeysHold(d, d[r]) /\ e[r] = d[r]
      BY <1>1, <1>2 DEF Sound, Fits
    <2>2. \A c \in DOMAIN d[r].refs : d[r].refs[c] \in DOMAIN e
      BY <1>1, <2>1 DEF KeysHold, Violates
    <2> QED
      BY <1>2, <2>1, <2>2 DEF KeysHold
  <1>5. Sound(e)
    BY <1>1, <1>3, <1>4, PartIsSound DEF Within
  <1> QED
    BY <1>3, <1>5 DEF e

LEMMA DetachedIsSound ==
  ASSUME NEW d, Sound(d), NEW rows, NEW columns \in SUBSET Soft, NEW e, e = Detached(d, rows, columns)
  PROVE  /\ Sound(e) /\ Within(e, d) /\ DOMAIN e = DOMAIN d
         /\ \A r \in DOMAIN d : DOMAIN e[r].refs =
                IF r \in rows THEN DOMAIN d[r].refs \ columns ELSE DOMAIN d[r].refs
  <1>1. DOMAIN e = DOMAIN d /\ e = [r \in DOMAIN e |-> e[r]]
    BY DEF Detached
  <1>2. ASSUME NEW r \in DOMAIN d
        PROVE  /\ IsRow(e[r]) /\ e[r].table = d[r].table /\ e[r].source = d[r].source
               /\ DOMAIN e[r].refs = IF r \in rows THEN DOMAIN d[r].refs \ columns ELSE DOMAIN d[r].refs
               /\ \A c \in DOMAIN e[r].refs : e[r].refs[c] = d[r].refs[c]
    <2>1. IsRow(d[r])
      BY DEF Sound
    <2>2. CASE r \in rows
      <3> DEFINE refs == [c \in DOMAIN d[r].refs \ columns |-> d[r].refs[c]]
      <3>1. e[r] = [d[r] EXCEPT !.refs = refs]
        BY <2>2 DEF Detached
      <3>2. refs = [c \in DOMAIN refs |-> refs[c]]
        OBVIOUS
      <3>3. /\ DOMAIN refs = DOMAIN d[r].refs \ columns
            /\ \A c \in DOMAIN refs : refs[c] = d[r].refs[c]
        OBVIOUS
      <3> HIDE DEF refs
      <3>4. IsRow(e[r]) /\ e[r].table = d[r].table /\ e[r].source = d[r].source /\ e[r].refs = refs
        BY <2>1, <3>1, <3>2, RowWithRefs
      <3> QED
        BY <2>2, <3>3, <3>4
    <2>3. CASE r \notin rows
      <3>1. e[r] = d[r]
        BY <2>3 DEF Detached
      <3> QED
        BY <2>1, <2>3, <3>1
    <2> QED
      BY <2>2, <2>3
  <1>3. Within(e, d)
    BY <1>1, <1>2 DEF Within, Part
  <1>4. ASSUME NEW r \in DOMAIN e
        PROVE  IsRow(e[r]) /\ KeysHold(e, e[r])
    <2>1. r \in DOMAIN d /\ KeysHold(d, d[r])
      BY <1>1 DEF Sound, Fits
    <2>2. ASSUME NEW c \in DOMAIN e[r].refs
          PROVE  e[r].refs[c] \in DOMAIN e /\ <<e[r].table, c, e[e[r].refs[c]].table>> \in ForeignKeys
      <3>1. c \in DOMAIN d[r].refs /\ e[r].refs[c] = d[r].refs[c] /\ e[r].table = d[r].table
        BY <1>2, <2>1, <2>2
      <3>2. d[r].refs[c] \in DOMAIN d /\ <<d[r].table, c, d[d[r].refs[c]].table>> \in ForeignKeys
        BY <2>1, <3>1 DEF KeysHold
      <3> QED
        BY <1>1, <1>2, <3>1, <3>2
    <2>3. ASSUME NEW k \in NotNull, k[1] = e[r].table
          PROVE  k[2] \in DOMAIN e[r].refs
      BY <1>1, <1>2, <2>1, <2>3, NotNullIsHard DEF KeysHold
    <2> QED
      BY <1>1, <1>2, <2>2, <2>3 DEF KeysHold
  <1>5. Sound(e)
    BY <1>1, <1>3, <1>4, PartIsSound DEF Within
  <1> QED
    BY <1>1, <1>2, <1>3, <1>5

\* What others write.
Added(d, r, row) == [k \in DOMAIN d \cup {r} |-> IF k = r THEN row ELSE d[k]]

LEMMA AddedIsSound ==
  ASSUME NEW d, Sound(d), NEW r, r \notin DOMAIN d, NEW row, IsRow(row), Fits(d, row)
  PROVE  Sound(Added(d, r, row)) /\ Part(d, Added(d, r, row))
  <1> DEFINE e == Added(d, r, row)
  <1>1. /\ DOMAIN e = DOMAIN d \cup {r} /\ e = [k \in DOMAIN e |-> e[k]]
        /\ e[r] = row /\ \A k \in DOMAIN d : e[k] = d[k]
    BY DEF Added
  <1> HIDE DEF e
  <1>2. Part(d, e)
    BY <1>1 DEF Part
  <1>3. ASSUME NEW k \in DOMAIN e
        PROVE  KeysHold(d, e[k]) /\ OfOneSource(d, e[k]) /\ IsRow(e[k])
    BY <1>1 DEF Sound, Fits
  <1>4. ASSUME NEW k \in DOMAIN e
        PROVE  KeysHold(e, e[k])
    BY <1>1, <1>3 DEF KeysHold
  <1>5. ASSUME NEW table, NEW c, NEW to
        PROVE  Rows(d, table) = Rows(e, table) \cap DOMAIN d
               /\ (c \notin Soft => Referring(d, table, c, to) = Referring(e, table, c, to) \cap DOMAIN d)
    BY <1>2, PartRows, PartReferring
  <1>6. ASSUME NEW k \in DOMAIN e
        PROVE  OfOneSource(e, e[k])
    <2> USE DEF Soft
    <2>1. ASSUME e[k].table = "raw_records", NEW s \in Rows(e, "sources"),
                 NEW run \in Referring(e, "source_runs", "source", {s}), Refers(e[k], "source_run", {run})
          PROVE  Refers(e[k], "source", {s})
      <3>1. run \in DOMAIN d
        BY <1>3, <2>1 DEF Refers, KeysHold
      <3>2. run \in Referring(d, "source_runs", "source", {s})
        BY <1>5, <2>1, <3>1
      <3>3. s \in Rows(d, "sources")
        <4>1. d[run].refs["source"] = s /\ "source" \in DOMAIN d[run].refs /\ run \in DOMAIN d
          BY <3>2 DEF Referring, Refers, Rows
        <4>2. s \in DOMAIN d
          BY <4>1 DEF Sound, Fits, KeysHold
        <4> QED
          BY <1>5, <2>1, <4>2
      <3> QED
        BY <1>3, <2>1, <3>2, <3>3 DEF OfOneSource
    <2>2. ASSUME e[k].table = "signal_observations", NEW s \in Rows(e, "sources"),
                 NEW raw \in Referring(e, "raw_records", "source", {s}), Refers(e[k], "raw_record", {raw})
          PROVE  Refers(e[k], "signal", Referring(e, "signals", "source", {s}))
      <3>1. raw \in DOMAIN d
        BY <1>3, <2>2 DEF Refers, KeysHold
      <3>2. raw \in Referring(d, "raw_records", "source", {s})
        BY <1>5, <2>2, <3>1
      <3>3. s \in Rows(d, "sources")
        <4>1. d[raw].refs["source"] = s /\ "source" \in DOMAIN d[raw].refs /\ raw \in DOMAIN d
          BY <3>2 DEF Referring, Refers, Rows
        <4>2. s \in DOMAIN d
          BY <4>1 DEF Sound, Fits, KeysHold
        <4> QED
          BY <1>5, <2>2, <4>2
      <3>4. Refers(e[k], "signal", Referring(d, "signals", "source", {s}))
        BY <1>3, <2>2, <3>2, <3>3 DEF OfOneSource
      <3> QED
        BY <1>5, <3>4 DEF Refers
    <2> QED
      BY <2>1, <2>2 DEF OfOneSource
  <1>7. Sound(e)
    BY <1>1, <1>3, <1>4, <1>6 DEF Sound, Fits
  <1> QED
    BY <1>2, <1>7 DEF e

LEMMA ExplainedIsSound ==
  ASSUME NEW d, Sound(d), NEW t \in Rows(d, "trends"), NEW run \in Rows(d, "model_runs")
  PROVE  LET e == Explained(d, t, run)
         IN  /\ Sound(e) /\ Part(e, d) /\ Part(d, e) /\ DOMAIN e = DOMAIN d
             /\ \A r \in DOMAIN d \ {t} : e[r] = d[r]
             /\ DOMAIN e[t].refs = DOMAIN d[t].refs \cup {"explanation"}
             /\ e[t].refs["explanation"] = run
             /\ \A c \in DOMAIN d[t].refs \ {"explanation"} : e[t].refs[c] = d[t].refs[c]
  <1> DEFINE e == Explained(d, t, run)
             refs == [c \in DOMAIN d[t].refs \cup {"explanation"} |->
                         IF c = "explanation" THEN run ELSE d[t].refs[c]]
  <1>1. t \in DOMAIN d /\ d[t].table = "trends" /\ run \in DOMAIN d /\ d[run].table = "model_runs"
    BY DEF Rows
  <1>2. /\ DOMAIN e = DOMAIN d /\ e = [r \in DOMAIN e |-> e[r]]
        /\ \A r \in DOMAIN d \ {t} : e[r] = d[r]
    BY <1>1 DEF Explained, Sound
  <1>3. e[t] = [d[t] EXCEPT !.refs = refs]
    BY <1>1 DEF Explained, Sound
  <1>4. /\ refs = [c \in DOMAIN refs |-> refs[c]]
        /\ DOMAIN refs = DOMAIN d[t].refs \cup {"explanation"} /\ refs["explanation"] = run
        /\ \A c \in DOMAIN d[t].refs \ {"explanation"} : refs[c] = d[t].refs[c]
    OBVIOUS
  <1> HIDE DEF e, refs
  <1>5. IsRow(e[t]) /\ e[t].table = d[t].table /\ e[t].source = d[t].source /\ e[t].refs = refs
    BY <1>1, <1>3, <1>4, RowWithRefs DEF Sound
  <1>6. Part(e, d)
    BY <1>1, <1>2, <1>4, <1>5 DEF Part, Soft
  <1>7. Part(d, e)
    BY <1>1, <1>2, <1>4, <1>5 DEF Part, Soft
  <1>8. ASSUME NEW r \in DOMAIN e
        PROVE  IsRow(e[r]) /\ KeysHold(e, e[r])
    <2>1. IsRow(d[r]) /\ KeysHold(d, d[r]) /\ r \in DOMAIN d
      BY <1>2 DEF Sound, Fits
    <2>2. \A k \in DOMAIN d : e[k].table = d[k].table
      BY <1>2, <1>5
    <2>3. CASE r # t
      BY <1>2, <2>1, <2>2, <2>3 DEF KeysHold
    <2>4. CASE r = t
      <3>1. <<"trends", "explanation", "model_runs">> \in ForeignKeys
        BY DEF ForeignKeys
      <3>2. ASSUME NEW c \in DOMAIN refs
            PROVE  refs[c] \in DOMAIN d /\ <<"trends", c, d[refs[c]].table>> \in ForeignKeys
        <4>1. CASE c = "explanation"
          BY <1>1, <1>4, <3>1, <4>1
        <4>2. CASE c # "explanation"
          <5>1. c \in DOMAIN d[t].refs /\ refs[c] = d[t].refs[c]
            BY <1>4, <3>2, <4>2
          <5> QED
            BY <1>1, <2>1, <2>4, <5>1 DEF KeysHold
        <4> QED
          BY <4>1, <4>2
      <3>3. \A c \in DOMAIN e[t].refs :
               e[t].refs[c] \in DOMAIN e /\ <<e[t].table, c, e[e[t].refs[c]].table>> \in ForeignKeys
        BY <1>1, <1>2, <1>5, <2>2, <3>2
      <3>4. \A k \in NotNull : k[1] = e[t].table => k[2] \in DOMAIN e[t].refs
        BY <1>4, <1>5, <2>1, <2>4 DEF KeysHold
      <3> QED
        BY <1>5, <2>4, <3>3, <3>4 DEF KeysHold
    <2> QED
      BY <2>3, <2>4
  <1>9. Sound(e)
    BY <1>2, <1>6, <1>8, PartIsSound
  <1> QED
    BY <1>2, <1>4, <1>5, <1>6, <1>7, <1>9 DEF e

-----------------------------------------------------------------------------
(* What rests on some rows.                                                *)

LEMMA TiedGrows ==
  ASSUME NEW e, NEW d, Part(e, d), NEW s, NEW u, s \subseteq u
  PROVE  Tied(e, s) \subseteq Tied(d, u)
  BY DEF Tied, Part

LEMMA RestsGrow ==
  ASSUME NEW e, NEW d, Part(e, d), NEW s, NEW u, s \subseteq u
  PROVE  RestsOn(e, s) \subseteq RestsOn(d, u)
  <1> DEFINE e1 == Tied(e, s)  d1 == Tied(d, u)  e2 == Tied(e, e1)  d2 == Tied(d, d1)
             e3 == Tied(e, e2)  d3 == Tied(d, d2)  e4 == Tied(e, e3)  d4 == Tied(d, d3)
  <1>1. e1 \subseteq d1
    BY TiedGrows
  <1>2. e2 \subseteq d2
    BY <1>1, TiedGrows
  <1>3. e3 \subseteq d3
    BY <1>2, TiedGrows
  <1>4. e4 \subseteq d4
    BY <1>3, TiedGrows
  <1>5. Tied(e, e4) \subseteq Tied(d, d4)
    BY <1>4, TiedGrows
  <1> QED
    BY <1>5 DEF RestsOn

LEMMA TiedContains ==
  ASSUME NEW d, NEW s
  PROVE  s \subseteq Tied(d, s)
  BY DEF Tied

\* What the subqueries select is at most two references away from what is removed.
LEMMA SelectedRests ==
  ASSUME NEW d, NEW k \in Kinds
  PROVE  Selected(d)[k] \subseteq Tied(d, Tied(d, demo \cup trends))
  <1> DEFINE roots == demo \cup trends
             doomed == Doomed(d, trends)
             signals == Referring(d, "signals", "source", demo)
  <1>1. ASSUME NEW table, NEW c, c \notin Soft, NEW s, NEW u, s \subseteq u
        PROVE  Referring(d, table, c, s) \subseteq Tied(d, u)
    BY <1>1 DEF Referring, Rows, Refers, Tied
  <1>2. doomed \subseteq Tied(d, roots) /\ signals \subseteq Tied(d, roots)
    BY <1>1 DEF Doomed, Soft
  <1>3. /\ Referring(d, "model_runs", "opportunity", doomed) \subseteq Tied(d, Tied(d, roots))
        /\ Referring(d, "signal_observations", "signal", signals) \subseteq Tied(d, Tied(d, roots))
    BY <1>1, <1>2 DEF Soft
  <1>4. /\ Referring(d, "raw_records", "source", demo) \subseteq Tied(d, roots)
        /\ Referring(d, "source_runs", "source", demo) \subseteq Tied(d, roots)
    BY <1>1 DEF Soft
  <1>5. roots \subseteq Tied(d, roots) /\ Tied(d, roots) \subseteq Tied(d, Tied(d, roots))
    BY TiedContains
  <1> QED
    BY <1>2, <1>3, <1>4, <1>5 DEF Kinds, Selected

LEMMA MatchingRests ==
  ASSUME NEW d, NEW j \in 4..21
  PROVE  Matching(d, Statements[j]) \subseteq Tied(d, Tied(d, Tied(d, demo \cup trends)))
  <1> DEFINE two == Tied(d, Tied(d, demo \cup trends))
  <1> SUFFICES ASSUME NEW r \in Matching(d, Statements[j]) PROVE r \in Tied(d, two)
    OBVIOUS
  <1>1. PICK w \in Statements[j].where :
             IF w[1] = "id" THEN r \in Selected(d)[w[2]] ELSE Refers(d[r], w[1], Selected(d)[w[2]])
    BY DEF Matching
  <1>2. r \in DOMAIN d
    BY DEF Matching, Rows
  <1>3. w[1] \in Columns /\ w[2] \in Kinds
    BY <1>1, StatementsAre
  <1>4. Selected(d)[w[2]] \subseteq two
    BY <1>3, SelectedRests
  <1> HIDE DEF two
  <1>5. CASE w[1] = "id"
    BY <1>1, <1>4, <1>5, TiedContains
  <1>6. CASE w[1] # "id"
    BY <1>1, <1>2, <1>3, <1>4, <1>6 DEF Refers, Tied, Columns, Soft
  <1> QED
    BY <1>5, <1>6

LEMMA CascadesAreTied ==
  ASSUME NEW d, NEW rows, NEW u, rows \subseteq u
  PROVE  WithCascades(d, rows) \subseteq Tied(d, u)
  BY CascadesAreHard DEF WithCascades, Tied

LEMMA GoneRests ==
  ASSUME NEW d, NEW j \in 4..21
  PROVE  Gone(d, Matching(d, Statements[j])) \subseteq RestsOn(d, demo \cup trends)
  <1>1. Matching(d, Statements[j]) \subseteq Tied(d, Tied(d, Tied(d, demo \cup trends)))
    BY MatchingRests
  <1> QED
    BY <1>1, CascadesAreTied DEF Gone, RestsOn

\* A row of a sound database does not rest on what the database lacks.
LEMMA WhatStaysIsFree ==
  ASSUME NEW e, Sound(e), NEW d, Part(e, d), NEW s, s \cap DOMAIN e = {}
  PROVE  Tied(d, s) \cap DOMAIN e = {}
  <1> SUFFICES ASSUME NEW r \in DOMAIN e, NEW c \in DOMAIN d[r].refs \ Soft, d[r].refs[c] \in s
               PROVE  FALSE
    BY DEF Tied
  <1>1. c \in DOMAIN e[r].refs /\ e[r].refs[c] = d[r].refs[c]
    BY DEF Part
  <1>2. e[r].refs[c] \in DOMAIN e
    BY <1>1 DEF Sound, Fits, KeysHold
  <1> QED
    BY <1>1, <1>2

LEMMA NothingRestsIn ==
  ASSUME NEW e, Sound(e), NEW d, Part(e, d), NEW s, s \cap DOMAIN e = {}
  PROVE  RestsOn(d, s) \cap DOMAIN e = {}
  <1> DEFINE d1 == Tied(d, s)  d2 == Tied(d, d1)  d3 == Tied(d, d2)  d4 == Tied(d, d3)
  <1>1. d1 \cap DOMAIN e = {}
    BY WhatStaysIsFree
  <1>2. d2 \cap DOMAIN e = {}
    BY <1>1, WhatStaysIsFree
  <1>3. d3 \cap DOMAIN e = {}
    BY <1>2, WhatStaysIsFree
  <1>4. d4 \cap DOMAIN e = {}
    BY <1>3, WhatStaysIsFree
  <1>5. Tied(d, d4) \cap DOMAIN e = {}
    BY <1>4, WhatStaysIsFree
  <1> QED
    BY <1>5 DEF RestsOn

-----------------------------------------------------------------------------
(* Protected rows.                                                         *)

\* A row of the part is in the way exactly when it is in the whole.
LEMMA CheckOfPart ==
  ASSUME NEW e, Sound(e), NEW d, Part(e, d), NEW chosen
  PROVE  CheckProtectedContent(e, chosen) = CheckProtectedContent(d, chosen) \cap DOMAIN e
  <1>1. Doomed(e, chosen) = Doomed(d, chosen) \cap DOMAIN e
    BY PartReferring DEF Doomed, Soft
  <1>2. ASSUME NEW r \in DOMAIN e
        PROVE  /\ e[r].table = d[r].table /\ r \in DOMAIN d
               /\ Refers(e[r], "opportunity", Doomed(e, chosen)) <=>
                      Refers(d[r], "opportunity", Doomed(d, chosen))
    <2>1. r \in DOMAIN d /\ e[r].table = d[r].table
      BY DEF Part
    <2>2. "opportunity" \in DOMAIN e[r].refs => e[r].refs["opportunity"] \in DOMAIN e
      BY DEF Sound, Fits, KeysHold
    <2>3. Refers(e[r], "opportunity", Doomed(d, chosen)) <=> Refers(d[r], "opportunity", Doomed(d, chosen))
      BY PartRefers DEF Soft
    <2> QED
      BY <1>1, <2>1, <2>2, <2>3 DEF Refers
  <1> QED
    BY <1>2 DEF CheckProtectedContent, Part

\* Of some rows, the trends are chosen, and what hangs off them hangs off those.
OfChosen(d, chosen, s) ==
    \A x \in s \cap DOMAIN d :
        /\ d[x].table = "trends" => x \in chosen
        /\ d[x].table = "opportunities" => x \in Doomed(d, chosen)
        /\ d[x].table \in Protected => x \in CheckProtectedContent(d, chosen)

LEMMA TiedIsOfChosen ==
  ASSUME NEW d, Sound(d), NEW chosen, NEW s, OfChosen(d, chosen, s)
  PROVE  OfChosen(d, chosen, Tied(d, s))
  <1> SUFFICES ASSUME NEW x \in DOMAIN d, NEW c \in DOMAIN d[x].refs \ Soft, d[x].refs[c] \in s
               PROVE  /\ d[x].table = "trends" => x \in chosen
                      /\ d[x].table = "opportunities" => x \in Doomed(d, chosen)
                      /\ d[x].table \in Protected => x \in CheckProtectedContent(d, chosen)
    BY DEF OfChosen, Tied
  <1> DEFINE g == d[x].refs[c]
  <1>1. g \in DOMAIN d /\ <<d[x].table, c, d[g].table>> \in ForeignKeys
    BY KeyIsSound DEF Points
  <1>2. d[x].table # "trends"
    BY <1>1, KeysByTable
  <1>3. ASSUME d[x].table = "opportunities"
        PROVE  x \in Doomed(d, chosen)
    <2>1. c = "trend" /\ d[g].table = "trends"
      BY <1>1, <1>3, KeysByTable, KeysByColumn
    <2>2. g \in chosen
      BY <1>1, <2>1 DEF OfChosen
    <2> QED
      BY <1>3, <2>1, <2>2 DEF Doomed, Referring, Refers, Rows
  <1>4. ASSUME d[x].table \in Protected
        PROVE  x \in CheckProtectedContent(d, chosen)
    <2>1. c = "opportunity" /\ d[g].table = "opportunities"
      BY <1>1, <1>4, KeysByTable, KeysByColumn
    <2>2. g \in Doomed(d, chosen)
      BY <1>1, <2>1 DEF OfChosen
    <2> QED
      BY <1>4, <2>1, <2>2 DEF CheckProtectedContent, Refers
  <1> QED
    BY <1>2, <1>3, <1>4

LEMMA ProtectedRests ==
  ASSUME NEW d, Sound(d), NEW sources, sources \subseteq Rows(d, "sources"),
         NEW chosen, chosen \subseteq Rows(d, "trends"),
         NEW r \in RestsOn(d, sources \cup chosen), r \in DOMAIN d, d[r].table \in Protected
  PROVE  r \in CheckProtectedContent(d, chosen)
  <1> DEFINE d0 == sources \cup chosen
             d1 == Tied(d, d0)  d2 == Tied(d, d1)  d3 == Tied(d, d2)  d4 == Tied(d, d3)
  <1>1. OfChosen(d, chosen, d0)
    BY DEF OfChosen, Rows, Protected
  <1>2. OfChosen(d, chosen, d1)
    BY <1>1, TiedIsOfChosen
  <1>3. OfChosen(d, chosen, d2)
    BY <1>2, TiedIsOfChosen
  <1>4. OfChosen(d, chosen, d3)
    BY <1>3, TiedIsOfChosen
  <1>5. OfChosen(d, chosen, d4)
    BY <1>4, TiedIsOfChosen
  <1>6. OfChosen(d, chosen, Tied(d, d4))
    BY <1>5, TiedIsOfChosen
  <1> QED
    BY <1>6 DEF RestsOn, OfChosen

-----------------------------------------------------------------------------
(* What the statements match.                                              *)

\* A statement with one condition.
Single(s, table, column, selection) == s.table = table /\ s.where = {<<column, selection>>}

LEMMA SingleStatements ==
  /\ Single(Statements[1], "trends", "explanation", "model_runs")
  /\ Single(Statements[2], "reports", "model_run", "model_runs")
  /\ Single(Statements[3], "skeptic_reviews", "model_run", "model_runs")
  /\ Single(Statements[4], "model_runs", "opportunity", "doomed")
  /\ Single(Statements[5], "opportunity_signals", "signal", "signals")
  /\ Single(Statements[7], "watchlist_items", "opportunity", "doomed")
  /\ Single(Statements[8], "watchlist_items", "trend", "trends")
  /\ Single(Statements[9], "alerts", "opportunity", "doomed")
  /\ Single(Statements[10], "predictions", "opportunity", "doomed")
  /\ Single(Statements[11], "opportunities", "trend", "trends")
  /\ Single(Statements[12], "trend_signals", "source", "demo")
  /\ Single(Statements[13], "trends", "id", "trends")
  /\ Single(Statements[14], "signal_observations", "signal", "signals")
  /\ Single(Statements[15], "signals", "source", "demo")
  /\ Single(Statements[16], "raw_records", "source", "demo")
  /\ Single(Statements[17], "raw_records", "source_run", "source_runs")
  /\ Single(Statements[18], "source_runs", "source", "demo")
  /\ Single(Statements[19], "validations", "source", "demo")
  /\ Single(Statements[20], "facts", "source", "demo")
  /\ Single(Statements[21], "sources", "id", "demo")
  BY DEF Statements, Update, DeleteFrom, Single

LEMMA SelectedShrinks ==
  ASSUME NEW e, NEW d, Part(e, d), NEW k \in Kinds
  PROVE  Selected(e)[k] \subseteq Selected(d)[k]
  <1> DEFINE doomed(b) == Doomed(b, trends)
             signals(b) == Referring(b, "signals", "source", demo)
  <1>1. ASSUME NEW table, NEW c, c \notin Soft, NEW s, NEW u, s \subseteq u
        PROVE  Referring(e, table, c, s) \subseteq Referring(d, table, c, u)
    BY <1>1, PartReferring DEF Referring, Refers
  <1>2. doomed(e) \subseteq doomed(d) /\ signals(e) \subseteq signals(d)
    BY <1>1 DEF Doomed, Soft
  <1>3. /\ Referring(e, "model_runs", "opportunity", doomed(e)) \subseteq
               Referring(d, "model_runs", "opportunity", doomed(d))
        /\ Referring(e, "signal_observations", "signal", signals(e)) \subseteq
               Referring(d, "signal_observations", "signal", signals(d))
    BY <1>1, <1>2 DEF Soft
  <1>4. /\ Referring(e, "raw_records", "source", demo) \subseteq Referring(d, "raw_records", "source", demo)
        /\ Referring(e, "source_runs", "source", demo) \subseteq Referring(d, "source_runs", "source", demo)
    BY <1>1 DEF Soft
  <1> QED
    BY <1>2, <1>3, <1>4 DEF Kinds, Selected

LEMMA MatchingShrinks ==
  ASSUME NEW e, NEW d, Within(e, d), NEW j \in 1..21
  PROVE  Matching(e, Statements[j]) \subseteq Matching(d, Statements[j])
  <1> SUFFICES ASSUME NEW r \in Matching(e, Statements[j]) PROVE r \in Matching(d, Statements[j])
    OBVIOUS
  <1>1. PICK w \in Statements[j].where :
             IF w[1] = "id" THEN r \in Selected(e)[w[2]] ELSE Refers(e[r], w[1], Selected(e)[w[2]])
    BY DEF Matching
  <1>2. r \in DOMAIN e /\ r \in Rows(d, Statements[j].table)
    BY DEF Matching, Rows, Within, Part
  <1>3. w[2] \in Kinds
    <2>1. CASE j \in 1..3
      BY <1>1, <2>1, StatementsAre DEF Kinds
    <2>2. CASE j \notin 1..3
      BY <1>1, <2>2, StatementsAre
    <2> QED
      BY <2>1, <2>2
  <1>4. Selected(e)[w[2]] \subseteq Selected(d)[w[2]]
    BY <1>3, SelectedShrinks DEF Within
  <1>5. Refers(e[r], w[1], Selected(e)[w[2]]) => Refers(d[r], w[1], Selected(d)[w[2]])
    BY <1>2, <1>4 DEF Within, Refers
  <1> QED
    BY <1>1, <1>2, <1>4, <1>5 DEF Matching

LEMMA SelectedIs ==
  ASSUME NEW d
  PROVE  LET selected == Selected(d)
         IN  /\ selected.demo = demo /\ selected.trends = trends
             /\ selected.doomed = Referring(d, "opportunities", "trend", trends)
             /\ selected.signals = Referring(d, "signals", "source", demo)
             /\ selected.model_runs = Referring(d, "model_runs", "opportunity", selected.doomed)
             /\ selected.observations = Referring(d, "signal_observations", "signal", selected.signals)
             /\ selected.raw = Referring(d, "raw_records", "source", demo)
             /\ selected.source_runs = Referring(d, "source_runs", "source", demo)
  BY DEF Selected, Doomed

LEMMA MatchingOne ==
  ASSUME NEW d, NEW s, NEW table, NEW c, c # "id", NEW k, Single(s, table, c, k)
  PROVE  Matching(d, s) = Referring(d, table, c, Selected(d)[k])
  BY DEF Single, Matching, Referring

LEMMA MatchingById ==
  ASSUME NEW d, NEW s, NEW table, NEW k, Single(s, table, "id", k)
  PROVE  Matching(d, s) = Rows(d, table) \cap Selected(d)[k]
  <1> DEFINE id == <<"id", k>>
  <1>1. s.table = table /\ id \in s.where /\ \A w \in s.where : w = id
    BY DEF Single
  <1>2. id[1] = "id" /\ id[2] = k
    OBVIOUS
  <1> HIDE DEF id
  <1>3. ASSUME NEW r \in Matching(d, s)
        PROVE  r \in Rows(d, table) /\ r \in Selected(d)[k]
    <2>1. PICK w \in s.where :
               IF w[1] = "id" THEN r \in Selected(d)[w[2]] ELSE Refers(d[r], w[1], Selected(d)[w[2]])
      BY DEF Matching
    <2>2. w = id /\ r \in Rows(d, table)
      BY <1>1, <2>1 DEF Matching
    <2> QED
      BY <1>2, <2>1, <2>2
  <1>4. ASSUME NEW r \in Rows(d, table), r \in Selected(d)[k]
        PROVE  r \in Matching(d, s)
    <2>1. r \in Rows(d, s.table)
      BY <1>1
    <2>2. IF id[1] = "id" THEN r \in Selected(d)[id[2]] ELSE Refers(d[r], id[1], Selected(d)[id[2]])
      BY <1>2, <1>4
    <2> QED
      BY <1>1, <2>1, <2>2 DEF Matching
  <1> QED
    BY <1>3, <1>4

\* The rows that each statement matches.
LEMMA MatchingIs ==
  ASSUME NEW d
  PROVE  LET selected == Selected(d)
         IN  /\ Matching(d, Statements[1]) = Referring(d, "trends", "explanation", selected.model_runs)
             /\ Matching(d, Statements[2]) = Referring(d, "reports", "model_run", selected.model_runs)
             /\ Matching(d, Statements[3]) = Referring(d, "skeptic_reviews", "model_run", selected.model_runs)
             /\ Matching(d, Statements[4]) = Referring(d, "model_runs", "opportunity", selected.doomed)
             /\ Matching(d, Statements[5]) = Referring(d, "opportunity_signals", "signal", selected.signals)
             /\ Matching(d, Statements[6]) = Referring(d, "evidence_items", "source", selected.demo)
                    \cup Referring(d, "evidence_items", "raw_record", selected.raw)
                    \cup Referring(d, "evidence_items", "observation", selected.observations)
             /\ Matching(d, Statements[7]) = Referring(d, "watchlist_items", "opportunity", selected.doomed)
             /\ Matching(d, Statements[8]) = Referring(d, "watchlist_items", "trend", selected.trends)
             /\ Matching(d, Statements[9]) = Referring(d, "alerts", "opportunity", selected.doomed)
             /\ Matching(d, Statements[10]) = Referring(d, "predictions", "opportunity", selected.doomed)
             /\ Matching(d, Statements[11]) = Referring(d, "opportunities", "trend", selected.trends)
             /\ Matching(d, Statements[12]) = Referring(d, "trend_signals", "source", selected.demo)
             /\ Matching(d, Statements[13]) = Rows(d, "trends") \cap selected.trends
             /\ Matching(d, Statements[14]) = Referring(d, "signal_observations", "signal", selected.signals)
             /\ Matching(d, Statements[15]) = Referring(d, "signals", "source", selected.demo)
             /\ Matching(d, Statements[16]) = Referring(d, "raw_records", "source", selected.demo)
             /\ Matching(d, Statements[17]) = Referring(d, "raw_records", "source_run", selected.source_runs)
             /\ Matching(d, Statements[18]) = Referring(d, "source_runs", "source", selected.demo)
             /\ Matching(d, Statements[19]) = Referring(d, "validations", "source", selected.demo)
             /\ Matching(d, Statements[20]) = Referring(d, "facts", "source", selected.demo)
             /\ Matching(d, Statements[21]) = Rows(d, "sources") \cap selected.demo
  <1>1. Matching(d, Statements[1]) = Referring(d, "trends", "explanation", Selected(d)["model_runs"])
    BY MatchingOne, SingleStatements
  <1>2. Matching(d, Statements[2]) = Referring(d, "reports", "model_run", Selected(d)["model_runs"])
    BY MatchingOne, SingleStatements
  <1>3. Matching(d, Statements[3]) = Referring(d, "skeptic_reviews", "model_run", Selected(d)["model_runs"])
    BY MatchingOne, SingleStatements
  <1>4. Matching(d, Statements[4]) = Referring(d, "model_runs", "opportunity", Selected(d)["doomed"])
    BY MatchingOne, SingleStatements
  <1>5. Matching(d, Statements[5]) = Referring(d, "opportunity_signals", "signal", Selected(d)["signals"])
    BY MatchingOne, SingleStatements
  <1>6. Matching(d, Statements[7]) = Referring(d, "watchlist_items", "opportunity", Selected(d)["doomed"])
    BY MatchingOne, SingleStatements
  <1>7. Matching(d, Statements[8]) = Referring(d, "watchlist_items", "trend", Selected(d)["trends"])
    BY MatchingOne, SingleStatements
  <1>8. Matching(d, Statements[9]) = Referring(d, "alerts", "opportunity", Selected(d)["doomed"])
    BY MatchingOne, SingleStatements
  <1>9. Matching(d, Statements[10]) = Referring(d, "predictions", "opportunity", Selected(d)["doomed"])
    BY MatchingOne, SingleStatements
  <1>10. Matching(d, Statements[11]) = Referring(d, "opportunities", "trend", Selected(d)["trends"])
    BY MatchingOne, SingleStatements
  <1>11. Matching(d, Statements[12]) = Referring(d, "trend_signals", "source", Selected(d)["demo"])
    BY MatchingOne, SingleStatements
  <1>12. Matching(d, Statements[14]) = Referring(d, "signal_observations", "signal", Selected(d)["signals"])
    BY MatchingOne, SingleStatements
  <1>13. Matching(d, Statements[15]) = Referring(d, "signals", "source", Selected(d)["demo"])
    BY MatchingOne, SingleStatements
  <1>14. Matching(d, Statements[16]) = Referring(d, "raw_records", "source", Selected(d)["demo"])
    BY MatchingOne, SingleStatements
  <1>15. Matching(d, Statements[17]) = Referring(d, "raw_records", "source_run", Selected(d)["source_runs"])
    BY MatchingOne, SingleStatements
  <1>16. Matching(d, Statements[18]) = Referring(d, "source_runs", "source", Selected(d)["demo"])
    BY MatchingOne, SingleStatements
  <1>17. Matching(d, Statements[19]) = Referring(d, "validations", "source", Selected(d)["demo"])
    BY MatchingOne, SingleStatements
  <1>18. Matching(d, Statements[20]) = Referring(d, "facts", "source", Selected(d)["demo"])
    BY MatchingOne, SingleStatements
  <1>19. Matching(d, Statements[6]) = Referring(d, "evidence_items", "source", Selected(d)["demo"])
           \cup Referring(d, "evidence_items", "raw_record", Selected(d)["raw"])
           \cup Referring(d, "evidence_items", "observation", Selected(d)["observations"])
    <2>1. Statements[6].table = "evidence_items" /\ Statements[6].where =
             {<<"source", "demo">>, <<"raw_record", "raw">>, <<"observation", "observations">>}
      BY DEF Statements, DeleteFrom
    <2> QED
      BY <2>1 DEF Matching, Referring
  <1>20. /\ Matching(d, Statements[13]) = Rows(d, "trends") \cap Selected(d)["trends"]
        /\ Matching(d, Statements[21]) = Rows(d, "sources") \cap Selected(d)["demo"]
    BY MatchingById, SingleStatements
  <1> QED
    BY <1>1, <1>2, <1>3, <1>4, <1>5, <1>6, <1>7, <1>8, <1>9, <1>10, <1>11,
       <1>12, <1>13, <1>14, <1>15, <1>16, <1>17, <1>18, <1>19, <1>20

-----------------------------------------------------------------------------
(* No foreign key is violated.                                             *)

\* Nothing refers to it.
Loose(d, q) == \A p, c : ~Points(d, p, c, q)

LEMMA NoTargetIsLoose ==
  ASSUME NEW d, Sound(d), NEW q,
         d[q].table \notin {"sources", "source_runs", "raw_records", "signals", "signal_observations", "trends",
                           "opportunities", "scores", "model_runs"}
  PROVE  Loose(d, q)
  <1> SUFFICES ASSUME NEW p, NEW c, Points(d, p, c, q) PROVE FALSE
    BY DEF Loose
  <1>1. <<d[p].table, c, d[q].table>> \in ForeignKeys
    BY KeyIsSound
  <1> QED
    BY <1>1, KeysByTarget

\* What refers to some rows goes with them, and so does what refers to that; no
\* foreign key reaches further.
LEMMA Accepts ==
  ASSUME NEW d, NEW rows,
         ASSUME NEW r, NEW c, NEW g \in rows, Points(d, r, c, g)
         PROVE  /\ <<d[r].table, c>> \in Cascades
                /\ \A q, k : Points(d, q, k, r) => <<d[q].table, k>> \in Cascades /\ Loose(d, q)
  PROVE  ~Violates(d, Gone(d, rows))
  <1> DEFINE one == WithCascades(d, rows)
             two == WithCascades(d, one)
  <1> SUFFICES ASSUME NEW r \in DOMAIN d \ two, NEW c \in DOMAIN d[r].refs, d[r].refs[c] \in two
               PROVE  FALSE
    BY DEF Violates, Gone
  <1>1. PICK g : g = d[r].refs[c] /\ Points(d, r, c, g)
    BY DEF Points
  <1>2. ASSUME NEW set, NEW q, NEW k, NEW h \in set, Points(d, q, k, h), <<d[q].table, k>> \in Cascades
        PROVE  q \in WithCascades(d, set)
    BY <1>2 DEF WithCascades, Points
  <1>3. ASSUME NEW set, NEW q \in WithCascades(d, set), q \notin set
        PROVE  \E k : \E h \in set : Points(d, q, k, h)
    BY <1>3 DEF WithCascades, Points
  <1>4. rows \subseteq one /\ one \subseteq two /\ r \notin two /\ g \in two
    BY <1>1 DEF WithCascades
  <1> HIDE DEF one, two
  <1>5. CASE g \in rows
    <2>1. <<d[r].table, c>> \in Cascades
      BY <1>1, <1>5
    <2>2. r \in one
      BY <1>1, <1>2, <1>5, <2>1 DEF one
    <2> QED
      BY <1>4, <2>2
  <1>6. CASE g \in one /\ g \notin rows
    <2>1. PICK k : \E h \in rows : Points(d, g, k, h)
      BY <1>3, <1>6 DEF one
    <2>2. <<d[r].table, c>> \in Cascades
      BY <1>1, <2>1
    <2>3. r \in two
      BY <1>1, <1>2, <1>6, <2>2 DEF two
    <2> QED
      BY <1>4, <2>3
  <1>7. CASE g \notin one
    <2>1. PICK k, h : h \in one /\ Points(d, g, k, h)
      BY <1>3, <1>4, <1>7 DEF two
    <2>2. h \notin rows
      <3> SUFFICES ASSUME h \in rows PROVE FALSE
        OBVIOUS
      <3>1. <<d[g].table, k>> \in Cascades
        BY <2>1
      <3> QED
        BY <1>2, <1>7, <2>1, <3>1 DEF one
    <2>3. PICK m : \E i \in rows : Points(d, h, m, i)
      BY <1>3, <2>1, <2>2 DEF one
    <2>4. Loose(d, g)
      BY <2>1, <2>3
    <2> QED
      BY <1>1, <2>4 DEF Loose
  <1> QED
    BY <1>5, <1>6, <1>7

LEMMA LooseRowsGo ==
  ASSUME NEW d, NEW rows, \A g \in rows : Loose(d, g)
  PROVE  ~Violates(d, Gone(d, rows))
  <1>1. ASSUME NEW r, NEW c, NEW g \in rows, Points(d, r, c, g)
        PROVE  FALSE
    BY <1>1 DEF Loose
  <1> QED
    BY <1>1, Accepts

LEMMA NoneRefers ==
  ASSUME NEW d, NEW table, NEW c, NEW to, Referring(d, table, c, to) = {},
         NEW r, NEW g, Points(d, r, c, g), d[r].table = table
  PROVE  g \notin to
  BY DEF Referring, Refers, Rows, Points

LEMMA ReferringIs ==
  ASSUME NEW d, NEW table, NEW c, NEW to, NEW r
  PROVE  r \in Referring(d, table, c, to) <=>
            r \in DOMAIN d /\ d[r].table = table /\ \E g \in to : Points(d, r, c, g)
  BY DEF Referring, Refers, Rows, Points

\* The rows of tables that nothing refers to.
LEMMA LeavesGo ==
  ASSUME NEW d, Sound(d), NEW j \in {5, 6, 7, 8, 9, 10, 12, 19, 20}
  PROVE  ~Violates(d, Gone(d, Matching(d, Statements[j])))
  <1>1. Statements[j].table \in {"opportunity_signals", "evidence_items", "watchlist_items", "alerts",
                                 "predictions", "trend_signals", "validations", "facts"}
    BY DEF Statements, DeleteFrom
  <1>2. \A r \in Matching(d, Statements[j]) : d[r].table = Statements[j].table
    BY DEF Matching, Rows
  <1>3. \A r \in Matching(d, Statements[j]) : Loose(d, r)
    BY <1>1, <1>2, NoTargetIsLoose
  <1> QED
    BY <1>3, LooseRowsGo

\* 4: the model runs were detached from what refers to them.
LEMMA ModelRunsGo ==
  ASSUME NEW d, Sound(d), Passed(d, 4)
  PROVE  ~Violates(d, Gone(d, Matching(d, Statements[4])))
  <1> DEFINE runs == Selected(d).model_runs
  <1>1. /\ Referring(d, "trends", "explanation", runs) = {}
        /\ Referring(d, "reports", "model_run", runs) = {}
        /\ Referring(d, "skeptic_reviews", "model_run", runs) = {}
        /\ Matching(d, Statements[4]) = runs /\ \A g \in runs : d[g].table = "model_runs"
    BY MatchingIs, SelectedIs, ReferringIs DEF Passed
  <1> HIDE DEF runs
  <1>2. ASSUME NEW g \in runs, NEW r, NEW c, Points(d, r, c, g)
        PROVE  FALSE
    <2>1. <<d[r].table, c, "model_runs">> \in ForeignKeys
      BY <1>1, <1>2, KeyIsSound
    <2>2. \/ c = "explanation" /\ d[r].table = "trends"
          \/ c = "model_run" /\ d[r].table \in {"reports", "skeptic_reviews"}
      BY <2>1, KeysToModelRuns
    <2> QED
      BY <1>1, <1>2, <2>2, NoneRefers
  <1> QED
    BY <1>1, <1>2, LooseRowsGo DEF Loose

\* 11: what else refers to the opportunities was deleted, and no protected row does.
LEMMA OpportunitiesGo ==
  ASSUME NEW d, Sound(d), Passed(d, 11), CheckProtectedContent(d, trends) = {}
  PROVE  ~Violates(d, Gone(d, Matching(d, Statements[11])))
  <1> DEFINE doomed == Selected(d).doomed
  <1>1. /\ doomed = Referring(d, "opportunities", "trend", trends)
        /\ Matching(d, Statements[11]) = doomed
    BY MatchingIs, SelectedIs
  <1>2. /\ Referring(d, "watchlist_items", "opportunity", doomed) = {}
        /\ Referring(d, "alerts", "opportunity", doomed) = {}
        /\ Referring(d, "predictions", "opportunity", doomed) = {}
        /\ Referring(d, "model_runs", "opportunity", doomed) = {}
    BY MatchingIs DEF Passed
  <1> HIDE DEF doomed
  <1>3. ASSUME NEW r, NEW c, NEW g \in doomed, Points(d, r, c, g)
        PROVE  /\ c = "opportunity"
               /\ d[r].table \in {"scores", "opportunity_trends", "opportunity_signals", "skeptic_reviews",
                                  "reports", "evidence_items"}
    <2>1. <<d[r].table, c, "opportunities">> \in ForeignKeys
      BY <1>1, <1>3, KeyIsSound, ReferringIs
    <2>2. c = "opportunity"
      BY <2>1, KeysByTarget
    <2>3. d[r].table \notin {"watchlist_items", "alerts", "predictions", "model_runs"}
      BY <1>2, <1>3, <2>2, NoneRefers
    <2>4. d[r].table \notin Protected
      BY <1>1, <1>3, <2>2 DEF CheckProtectedContent, Doomed, Points, Refers
    <2> QED
      BY <2>1, <2>2, <2>3, <2>4, KeysByTarget DEF Protected
  <1>4. ASSUME NEW r, NEW c, NEW g \in doomed, Points(d, r, c, g)
        PROVE  /\ <<d[r].table, c>> \in Cascades
               /\ \A q, k : Points(d, q, k, r) => <<d[q].table, k>> \in Cascades /\ Loose(d, q)
    <2>1. <<d[r].table, c>> \in Cascades
      BY <1>3, <1>4 DEF Cascades
    <2>2. ASSUME NEW q, NEW k, Points(d, q, k, r)
          PROVE  <<d[q].table, k>> \in Cascades /\ Loose(d, q)
      <3>1. <<d[q].table, k, d[r].table>> \in ForeignKeys
        BY <2>2, KeyIsSound
      <3>2. d[r].table = "scores"
        BY <1>3, <1>4, <3>1, KeysByTarget
      <3>3. k = "score" /\ d[q].table = "checks"
        BY <3>1, <3>2, KeysByTarget
      <3> QED
        BY <3>3, NoTargetIsLoose DEF Cascades
    <2> QED
      BY <2>1, <2>2
  <1> QED
    BY <1>1, <1>4, Accepts

\* 13: the opportunities are gone, and what else refers to the trends goes with them.
LEMMA TrendsGo ==
  ASSUME NEW d, Sound(d), Passed(d, 13)
  PROVE  ~Violates(d, Gone(d, Matching(d, Statements[13])))
  <1>1. Matching(d, Statements[13]) = Rows(d, "trends") \cap trends
    BY MatchingIs, SelectedIs
  <1>2. Referring(d, "opportunities", "trend", trends) = {}
    BY MatchingIs, SelectedIs DEF Passed
  <1>3. ASSUME NEW r, NEW c, NEW g \in Matching(d, Statements[13]), Points(d, r, c, g)
        PROVE  <<d[r].table, c>> \in Cascades /\ Loose(d, r)
    <2>1. <<d[r].table, c, "trends">> \in ForeignKeys /\ g \in trends
      BY <1>1, <1>3, KeyIsSound DEF Rows
    <2>2. c = "trend" /\ d[r].table \in {"trend_signals", "trend_snapshots", "opportunities",
                                         "opportunity_trends", "watchlist_items"}
      BY <2>1, KeysByTarget
    <2>3. d[r].table # "opportunities"
      BY <1>2, <1>3, <2>1, <2>2, NoneRefers
    <2> QED
      BY <2>2, <2>3, NoTargetIsLoose DEF Cascades
  <1>4. ASSUME NEW r, NEW c, NEW g \in Matching(d, Statements[13]), Points(d, r, c, g)
        PROVE  /\ <<d[r].table, c>> \in Cascades
               /\ \A q, k : Points(d, q, k, r) => <<d[q].table, k>> \in Cascades /\ Loose(d, q)
    BY <1>3, <1>4 DEF Loose
  <1> QED
    BY <1>4, Accepts

\* 14: the evidence that quotes the observations is gone.
LEMMA ObservationsGo ==
  ASSUME NEW d, Sound(d), Passed(d, 14)
  PROVE  ~Violates(d, Gone(d, Matching(d, Statements[14])))
  <1> DEFINE observations == Selected(d).observations
  <1>1. /\ Matching(d, Statements[14]) = observations
        /\ \A g \in observations : d[g].table = "signal_observations"
    BY MatchingIs, SelectedIs, ReferringIs
  <1>2. Referring(d, "evidence_items", "observation", observations) = {}
    BY MatchingIs DEF Passed
  <1> HIDE DEF observations
  <1>3. ASSUME NEW g \in observations, NEW r, NEW c, Points(d, r, c, g)
        PROVE  FALSE
    <2>1. <<d[r].table, c, "signal_observations">> \in ForeignKeys
      BY <1>1, <1>3, KeyIsSound
    <2>2. c = "observation" /\ d[r].table = "evidence_items"
      BY <2>1, KeysByTarget
    <2> QED
      BY <1>2, <1>3, <2>2, NoneRefers
  <1> QED
    BY <1>1, <1>3, LooseRowsGo DEF Loose

\* 15: the observations of the signals are gone, and so are the opportunities' links to them.
LEMMA SignalsGo ==
  ASSUME NEW d, Sound(d), Passed(d, 15)
  PROVE  ~Violates(d, Gone(d, Matching(d, Statements[15])))
  <1> DEFINE signals == Selected(d).signals
  <1>1. Matching(d, Statements[15]) = signals /\ \A g \in signals : d[g].table = "signals"
    BY MatchingIs, SelectedIs, ReferringIs
  <1>2. /\ Referring(d, "opportunity_signals", "signal", signals) = {}
        /\ Referring(d, "signal_observations", "signal", signals) = {}
    BY MatchingIs DEF Passed
  <1> HIDE DEF signals
  <1>3. ASSUME NEW r, NEW c, NEW g \in signals, Points(d, r, c, g)
        PROVE  <<d[r].table, c>> \in Cascades /\ Loose(d, r)
    <2>1. <<d[r].table, c, "signals">> \in ForeignKeys
      BY <1>1, <1>3, KeyIsSound
    <2>2. c = "signal" /\ d[r].table \in {"signal_observations", "trend_signals", "opportunity_signals"}
      BY <2>1, KeysByTarget
    <2>3. d[r].table = "trend_signals"
      BY <1>2, <1>3, <2>2, NoneRefers
    <2> QED
      BY <2>2, <2>3, NoTargetIsLoose DEF Cascades
  <1>4. ASSUME NEW r, NEW c, NEW g \in signals, Points(d, r, c, g)
        PROVE  /\ <<d[r].table, c>> \in Cascades
               /\ \A q, k : Points(d, q, k, r) => <<d[q].table, k>> \in Cascades /\ Loose(d, q)
    BY <1>3, <1>4 DEF Loose
  <1> QED
    BY <1>1, <1>4, Accepts

\* 16: what was observed in the records is of their source, and gone.
LEMMA RecordsGo ==
  ASSUME NEW d, Sound(d), Passed(d, 16)
  PROVE  ~Violates(d, Gone(d, Matching(d, Statements[16])))
  <1> DEFINE raw == Selected(d).raw
             signals == Selected(d).signals
  <1>1. /\ Matching(d, Statements[16]) = raw /\ \A g \in raw : d[g].table = "raw_records"
        /\ raw = Referring(d, "raw_records", "source", demo)
        /\ signals = Referring(d, "signals", "source", demo)
    BY MatchingIs, SelectedIs, ReferringIs
  <1>2. /\ Referring(d, "evidence_items", "raw_record", raw) = {}
        /\ Referring(d, "signal_observations", "signal", signals) = {}
    BY MatchingIs DEF Passed
  <1> HIDE DEF raw, signals
  <1>3. ASSUME NEW g \in raw, NEW r, NEW c, Points(d, r, c, g)
        PROVE  FALSE
    <2>1. <<d[r].table, c, "raw_records">> \in ForeignKeys /\ r \in DOMAIN d
      BY <1>1, <1>3, KeyIsSound
    <2>2. c = "raw_record" /\ d[r].table \in {"signal_observations", "evidence_items"}
      BY <2>1, KeysByTarget
    <2>3. r \in Rows(d, "signal_observations")
      BY <1>2, <1>3, <2>1, <2>2, NoneRefers DEF Rows
    <2>4. PICK s \in demo : Points(d, g, "source", s)
      BY <1>1, <1>3, ReferringIs
    <2>5. PICK h \in DOMAIN d : d[h].table = "signals" /\ Points(d, r, "signal", h) /\ Points(d, h, "source", s)
      BY <1>3, <2>2, <2>3, <2>4, ObservationIsOfItsSource
    <2>6. h \in signals
      BY <1>1, <2>5, ReferringIs
    <2> QED
      BY <1>2, <2>3, <2>5, <2>6, ReferringIs DEF Rows
  <1> QED
    BY <1>1, <1>3, LooseRowsGo DEF Loose

\* 17: a record of a run is of the run's source, and gone.
LEMMA RecordsAreGone ==
  ASSUME NEW d, Sound(d), Referring(d, "raw_records", "source", demo) = {}
  PROVE  Matching(d, Statements[17]) = {}
  <1> DEFINE runs == Selected(d).source_runs
  <1>1. /\ Matching(d, Statements[17]) = Referring(d, "raw_records", "source_run", runs)
        /\ runs = Referring(d, "source_runs", "source", demo)
    BY MatchingIs, SelectedIs
  <1> HIDE DEF runs
  <1>2. ASSUME NEW x \in Referring(d, "raw_records", "source_run", runs)
        PROVE  FALSE
    <2>1. x \in Rows(d, "raw_records") /\ \E g \in runs : Points(d, x, "source_run", g)
      BY <1>2, ReferringIs DEF Rows
    <2>2. PICK run \in runs : Points(d, x, "source_run", run)
      BY <2>1
    <2>3. PICK s \in demo : Points(d, run, "source", s)
      BY <1>1, <2>2, ReferringIs
    <2>4. Points(d, x, "source", s)
      BY <2>1, <2>2, <2>3, RunIsOfItsSource
    <2> QED
      BY <2>1, <2>4, ReferringIs DEF Rows
  <1> QED
    BY <1>1, <1>2

LEMMA RecordsOfRunsGo ==
  ASSUME NEW d, Sound(d), Passed(d, 17)
  PROVE  ~Violates(d, Gone(d, Matching(d, Statements[17])))
  <1>1. Referring(d, "raw_records", "source", demo) = {}
    BY MatchingIs, SelectedIs DEF Passed
  <1>2. Matching(d, Statements[17]) = {}
    BY <1>1, RecordsAreGone
  <1> QED
    BY <1>2, LooseRowsGo

\* 18: the records that the runs stored are gone.
LEMMA RunsGo ==
  ASSUME NEW d, Sound(d), Passed(d, 18)
  PROVE  ~Violates(d, Gone(d, Matching(d, Statements[18])))
  <1> DEFINE runs == Selected(d).source_runs
  <1>1. Matching(d, Statements[18]) = runs /\ \A g \in runs : d[g].table = "source_runs"
    BY MatchingIs, SelectedIs, ReferringIs
  <1>2. Referring(d, "raw_records", "source_run", runs) = {}
    BY MatchingIs DEF Passed
  <1> HIDE DEF runs
  <1>3. ASSUME NEW g \in runs, NEW r, NEW c, Points(d, r, c, g)
        PROVE  FALSE
    <2>1. <<d[r].table, c, "source_runs">> \in ForeignKeys
      BY <1>1, <1>3, KeyIsSound
    <2>2. c = "source_run" /\ d[r].table = "raw_records"
      BY <2>1, KeysByTarget
    <2> QED
      BY <1>2, <1>3, <2>2, NoneRefers
  <1> QED
    BY <1>1, <1>3, LooseRowsGo DEF Loose

\* 21: nothing of the sources is left.
LEMMA SourcesGo ==
  ASSUME NEW d, Sound(d), Passed(d, 21)
  PROVE  ~Violates(d, Gone(d, Matching(d, Statements[21])))
  <1>1. Matching(d, Statements[21]) = Rows(d, "sources") \cap demo
    BY MatchingIs, SelectedIs
  <1>2. /\ Referring(d, "source_runs", "source", demo) = {}
        /\ Referring(d, "raw_records", "source", demo) = {}
        /\ Referring(d, "signals", "source", demo) = {}
        /\ Referring(d, "trend_signals", "source", demo) = {}
        /\ Referring(d, "evidence_items", "source", demo) = {}
        /\ Referring(d, "validations", "source", demo) = {}
        /\ Referring(d, "facts", "source", demo) = {}
    BY MatchingIs, SelectedIs DEF Passed
  <1>3. ASSUME NEW g \in Matching(d, Statements[21]), NEW r, NEW c, Points(d, r, c, g)
        PROVE  FALSE
    <2>1. <<d[r].table, c, "sources">> \in ForeignKeys /\ g \in demo
      BY <1>1, <1>3, KeyIsSound DEF Rows
    <2>2. c = "source" /\ d[r].table \in {"source_runs", "raw_records", "signals", "trend_signals",
                                          "evidence_items", "validations", "facts"}
      BY <2>1, KeysByTarget
    <2> QED
      BY <1>2, <1>3, <2>1, <2>2, NoneRefers
  <1> QED
    BY <1>3, LooseRowsGo DEF Loose

\* PostgreSQL accepts every statement when those before it have found all there is.
LEMMA NoneViolates ==
  ASSUME NEW d, Sound(d), NEW j \in 4..21, Passed(d, j), CheckProtectedContent(d, trends) = {}
  PROVE  ~Violates(d, Gone(d, Matching(d, Statements[j])))
  <1>1. CASE j \in {5, 6, 7, 8, 9, 10, 12, 19, 20}
    BY <1>1, LeavesGo
  <1>2. CASE j \in {4, 11, 13, 14}
    BY <1>2, ModelRunsGo, OpportunitiesGo, TrendsGo, ObservationsGo
  <1>3. CASE j \in {15, 16, 17, 18, 21}
    BY <1>3, SignalsGo, RecordsGo, RecordsOfRunsGo, RunsGo, SourcesGo
  <1> QED
    BY <1>1, <1>2, <1>3

-----------------------------------------------------------------------------
(* The steps before the statements.                                        *)

LEMMA WithinItself ==
  ASSUME NEW d
  PROVE  Within(d, d)
  BY DEF Within, Part

LEMMA PurgeStarts == PurgeInit => PurgeInv
  <1> SUFFICES ASSUME PurgeInit PROVE PurgeInv
    OBVIOUS
  <1>1. /\ committed \in Databases /\ db = committed /\ purge = "idle" /\ statement = 1
        /\ demo = {} /\ trends = {}
    BY DEF PurgeInit
  <1>2. DataInv
    BY <1>1, PurgeAssumption, WithinItself DEF DataInv
  <1>3. ClearedInv /\ UpperInv
    BY <1>1 DEF ClearedInv, UpperInv
  <1>4. ControlInv /\ RootsInv /\ WordsInv /\ AloneInv /\ AcceptedWhenAlone
    BY <1>1 DEF ControlInv, EndOfStatements, RootsInv, WordsInv, AloneInv, AcceptedWhenAlone
  <1> QED
    BY <1>2, <1>3, <1>4 DEF PurgeInv

\* Before the first statement, and after a rollback, nothing is gone or cleared.
LEMMA NothingGone ==
  ASSUME Sound(committed'), db' = committed'
  PROVE  DataInv' /\ ClearedInv' /\ UpperInv'
  BY WithinItself DEF DataInv, ClearedInv, UpperInv

LEMMA PlanKeeps ==
  ASSUME PurgeInv, Plan
  PROVE  PurgeInv'
  <1>1. /\ purge = "idle" /\ purge' = IF PlanRefuses(db) THEN "refused" ELSE "planned"
        /\ plan' = PlanOf(db) /\ UNCHANGED <<committed, db, statement, demo, trends, late>>
    BY DEF Plan
  <1>2. db = committed /\ Sound(committed)
    BY <1>1 DEF PurgeInv, ControlInv, DataInv
  <1>3. DataInv' /\ ClearedInv' /\ UpperInv'
    BY <1>1, <1>2, NothingGone
  <1>4. ControlInv' /\ RootsInv' /\ AcceptedWhenAlone'
    BY <1>1, <1>2 DEF PurgeInv, ControlInv, RootsInv, AcceptedWhenAlone
  <1>5. WordsInv'
    <2>1. CASE PlanRefuses(db)
      BY <1>1, <2>1 DEF WordsInv
    <2>2. CASE ~PlanRefuses(db)
      BY <1>1, <1>2, <2>2 DEF WordsInv, PlanRefuses, PlanOf
    <2> QED
      BY <2>1, <2>2
  <1>6. AloneInv'
    BY <1>1, <1>2 DEF AloneInv
  <1> QED
    BY <1>3, <1>4, <1>5, <1>6 DEF PurgeInv

LEMMA ClassifyKeeps ==
  ASSUME PurgeInv, Classify
  PROVE  PurgeInv'
  <1>1. /\ purge = "planned" /\ purge' = "classified" /\ demo' = SourcesThatAre(db, "demo")
        /\ UNCHANGED <<committed, db, statement, plan, trends, late>>
    BY DEF Classify
  <1>2. db = committed /\ Sound(committed) /\ demo' \subseteq Rows(committed, "sources")
    BY <1>1 DEF PurgeInv, ControlInv, DataInv, SourcesThatAre
  <1>3. DataInv' /\ ClearedInv' /\ UpperInv'
    BY <1>1, <1>2, NothingGone
  <1>4. ControlInv' /\ RootsInv' /\ WordsInv' /\ AcceptedWhenAlone'
    BY <1>1, <1>2 DEF PurgeInv, ControlInv, RootsInv, WordsInv, AcceptedWhenAlone
  <1>5. AloneInv'
    BY <1>1, <1>2 DEF PurgeInv, AloneInv
  <1> QED
    BY <1>3, <1>4, <1>5 DEF PurgeInv

LEMMA ResolveKeeps ==
  ASSUME PurgeInv, Resolve
  PROVE  PurgeInv'
  <1>1. /\ purge = "classified" /\ purge' = "purging" /\ trends' = AllDemoTrends(db, demo)
        /\ UNCHANGED <<committed, db, statement, plan, demo, late>>
    BY DEF Resolve
  <1>2. /\ db = committed /\ Sound(committed) /\ trends' \subseteq Rows(committed, "trends")
        /\ statement = 1
    BY <1>1 DEF PurgeInv, ControlInv, DataInv, AllDemoTrends
  <1>3. DataInv' /\ ClearedInv' /\ UpperInv'
    BY <1>1, <1>2, NothingGone
  <1>4. ControlInv' /\ RootsInv' /\ WordsInv' /\ AcceptedWhenAlone'
    BY <1>1, <1>2 DEF PurgeInv, ControlInv, RootsInv, WordsInv, AcceptedWhenAlone
  <1>5. AloneInv'
    <2>1. ASSUME ~late
          PROVE  plan = PlanOf(committed) /\ demo = SourcesThatAre(committed, "demo")
                 /\ trends' = plan.trends
      BY <1>1, <1>2, <2>1 DEF PurgeInv, AloneInv, PlanOf
    <2>2. Passed(db, statement)'
      BY <1>1, <1>2 DEF Passed
    <2> QED
      BY <1>1, <2>1, <2>2 DEF AloneInv
  <1> QED
    BY <1>3, <1>4, <1>5 DEF PurgeInv

-----------------------------------------------------------------------------
(* The statements.                                                         *)

LEMMA SameSelection ==
  ASSUME UNCHANGED <<demo, trends>>
  PROVE  \A s : Matching(db, s)' = Matching(db', s)
  BY DEF Matching, Selected

LEMMA SmallerRuns ==
  ASSUME NEW e, NEW d, Part(e, d), NEW chosen
  PROVE  DoomedRuns(e, chosen) \subseteq DoomedRuns(d, chosen)
  <1>1. Doomed(e, chosen) \subseteq Doomed(d, chosen)
    BY PartReferring DEF Doomed, Soft
  <1> QED
    BY <1>1, PartReferring DEF DoomedRuns, Referring, Refers, Soft

\* What goes for every statement that is accepted.
LEMMA PassesOn ==
  ASSUME statement \in 1..21, Within(db', db), UNCHANGED <<demo, trends>>,
         Passed(db, statement), Matching(db', Statements[statement]) = {},
         statement' = statement + 1
  PROVE  Passed(db, statement)'
  <1>1. ASSUME NEW i \in 1..statement
        PROVE  Matching(db', Statements[i]) = {}
    <2>1. CASE i = statement
      BY <2>1
    <2>2. CASE i # statement
      <3>1. i \in 1..(statement - 1) /\ i \in 1..21
        BY <2>2
      <3>2. Matching(db, Statements[i]) = {}
        BY <3>1 DEF Passed
      <3> QED
        BY <3>1, <3>2, MatchingShrinks
    <2> QED
      BY <2>1, <2>2
  <1>2. ASSUME NEW i \in 1..(statement' - 1)
        PROVE  Matching(db, Statements[i])' = {}
    <2>1. i \in 1..statement
      BY <1>2
    <2> QED
      BY <1>1, <2>1, SameSelection DEF Statements
  <1> QED
    BY <1>2 DEF Passed

LEMMA UpdateKeeps ==
  ASSUME PurgeInv, Execute, statement \in 1..3
  PROVE  PurgeInv'
  <1> DEFINE s == Statements[statement]
             rows == Matching(db, s)
  <1>1. PICK column \in Soft : s.sets = {column} /\ s.where = {<<column, "model_runs">>}
    BY StatementsAre
  <1>2. ~Violates(db, {})
    BY DEF Violates
  <1>3. /\ purge = "purging" /\ db' = Detached(db, rows, s.sets) /\ statement' = statement + 1
        /\ UNCHANGED <<committed, purge, plan, demo, trends, late>>
    BY <1>1, <1>2 DEF Execute
  <1>4. Sound(committed) /\ Sound(db) /\ Within(db, committed)
    BY DEF PurgeInv, DataInv
  <1> HIDE DEF rows
  <1>5. /\ Sound(db') /\ Within(db', db) /\ DOMAIN db' = DOMAIN db
        /\ \A r \in DOMAIN db : DOMAIN db'[r].refs =
               IF r \in rows THEN DOMAIN db[r].refs \ {column} ELSE DOMAIN db[r].refs
    <2> DEFINE columns == s.sets
    <2>1. columns \in SUBSET Soft /\ columns = {column} /\ db' = Detached(db, rows, columns)
      BY <1>1, <1>3
    <2> HIDE DEF columns
    <2>2. \A e : e = Detached(db, rows, columns) =>
             /\ Sound(e) /\ Within(e, db) /\ DOMAIN e = DOMAIN db
             /\ \A r \in DOMAIN db : DOMAIN e[r].refs =
                    IF r \in rows THEN DOMAIN db[r].refs \ columns ELSE DOMAIN db[r].refs
      BY <1>4, <2>1, DetachedIsSound
    <2> QED
      BY <2>1, <2>2
  <1>6. DataInv'
    BY <1>3, <1>4, <1>5, WithinPasses DEF DataInv
  <1>7. rows = Referring(db, s.table, column, DoomedRuns(db, trends))
    <2>1. Single(s, s.table, column, "model_runs") /\ column # "id"
      BY <1>1 DEF Single, Soft
    <2>2. Selected(db)["model_runs"] = DoomedRuns(db, trends)
      BY DEF Selected, DoomedRuns
    <2> QED
      BY <2>1, <2>2, MatchingOne DEF rows
  <1>8. DoomedRuns(db', trends) = DoomedRuns(db, trends)
    <2>1. Part(db', db) /\ Part(db, db')
      BY <1>5 DEF Within, Part
    <2> QED
      BY <2>1, SmallerRuns
  <1>9. ClearedInv'
    <2>1. ASSUME NEW r \in DOMAIN db, NEW c \in DOMAIN committed[r].refs, c \notin DOMAIN db'[r].refs
          PROVE  committed[r].refs[c] \notin DOMAIN db \/ committed[r].refs[c] \in DoomedRuns(db, trends)
      <3>1. CASE c \notin DOMAIN db[r].refs
        BY <3>1, <2>1 DEF PurgeInv, ClearedInv
      <3>2. CASE c \in DOMAIN db[r].refs
        <4>1. r \in rows /\ c = column
          BY <1>5, <2>1, <3>2
        <4>2. db[r].refs[c] \in DoomedRuns(db, trends)
          BY <1>7, <4>1 DEF Referring, Refers
        <4>3. db[r].refs[c] = committed[r].refs[c]
          BY <1>4, <3>2 DEF Within
        <4> QED
          BY <4>2, <4>3
      <3> QED
        BY <3>1, <3>2
    <2>2. statement' <= 4
      BY <1>3
    <2>3. ASSUME NEW r \in DOMAIN db', NEW c \in DOMAIN committed'[r].refs
          PROVE  \/ c \in DOMAIN db'[r].refs
                 \/ committed'[r].refs[c] \notin DOMAIN db'
                 \/ statement' <= 4 /\ committed'[r].refs[c] \in DoomedRuns(db', trends')
      BY <1>3, <1>5, <1>8, <2>1, <2>2, <2>3
    <2> QED
      BY <2>3 DEF ClearedInv
  <1>10. ControlInv' /\ RootsInv' /\ UpperInv' /\ WordsInv' /\ AcceptedWhenAlone'
    <2>1. statement' \in 1..4
      BY <1>3
    <2>2. ControlInv' /\ WordsInv' /\ AcceptedWhenAlone'
      BY <1>3, <2>1 DEF PurgeInv, ControlInv, EndOfStatements, WordsInv, AcceptedWhenAlone
    <2>3. RootsInv'
      BY <1>3, <2>1 DEF PurgeInv, RootsInv
    <2>4. UpperInv'
      BY <1>3, <1>5 DEF PurgeInv, UpperInv
    <2> QED
      BY <2>2, <2>3, <2>4
  <1>11. AloneInv'
    <2>1. Matching(db', s) = {}
      <3> SUFFICES ASSUME NEW r \in Matching(db', s) PROVE FALSE
        OBVIOUS
      <3>1. r \in rows
        BY <1>5, MatchingShrinks DEF rows
      <3>2. column \in DOMAIN db'[r].refs
        BY <1>1 DEF Matching, Refers, Soft
      <3>3. r \in DOMAIN db
        BY <1>7, <3>1 DEF Referring, Rows
      <3> QED
        BY <1>5, <3>1, <3>2, <3>3
    <2>2. ASSUME ~late PROVE Passed(db, statement)'
      <3>1. Passed(db, statement)
        BY <1>3, <2>2 DEF PurgeInv, AloneInv
      <3>2. statement \in 1..21
        OBVIOUS
      <3> QED
        BY <1>3, <1>5, <2>1, <3>1, <3>2, PassesOn
    <2> QED
      BY <1>3, <2>2 DEF PurgeInv, AloneInv
  <1> QED
    BY <1>6, <1>9, <1>10, <1>11 DEF PurgeInv

\* While nobody has written nothing protected is in the way.
LEMMA NothingInTheWay ==
  ASSUME PurgeInv, purge = "purging", ~late
  PROVE  CheckProtectedContent(db, trends) = {}
  <1>1. plan = PlanOf(committed) /\ trends = plan.trends
    BY DEF PurgeInv, AloneInv
  <1>2. plan.words \cap CheckProtectedContent(committed, trends) = {}
    BY <1>1 DEF PurgeInv, WordsInv
  <1>3. CheckProtectedContent(committed, trends) \subseteq plan.words
    BY <1>1 DEF CheckProtectedContent, PlanOf
  <1> QED
    BY <1>2, <1>3, CheckOfPart DEF PurgeInv, DataInv, Within

LEMMA DeleteFails ==
  ASSUME PurgeInv, Execute, statement \in 4..21,
         Violates(db, Gone(db, Matching(db, Statements[statement])))
  PROVE  PurgeInv'
  <1>1. /\ purge = "purging" /\ db' = committed /\ purge' = "violated"
        /\ UNCHANGED <<committed, statement, plan, demo, trends, late>>
    BY StatementsAre DEF Execute
  <1>2. late
    <2> SUFFICES ASSUME ~late PROVE FALSE
      OBVIOUS
    <2>1. Sound(db) /\ Passed(db, statement)
      BY <1>1 DEF PurgeInv, DataInv, AloneInv
    <2> QED
      BY <1>1, <2>1, NothingInTheWay, NoneViolates
  <1>3. DataInv' /\ ClearedInv' /\ UpperInv'
    BY <1>1, NothingGone DEF PurgeInv, DataInv
  <1>4. ControlInv' /\ RootsInv' /\ WordsInv' /\ AcceptedWhenAlone' /\ AloneInv'
    BY <1>1, <1>2 DEF PurgeInv, ControlInv, RootsInv, WordsInv, AcceptedWhenAlone, AloneInv
  <1> QED
    BY <1>3, <1>4 DEF PurgeInv

LEMMA DeleteSucceeds ==
  ASSUME PurgeInv, Execute, statement \in 4..21,
         ~Violates(db, Gone(db, Matching(db, Statements[statement])))
  PROVE  PurgeInv'
  <1> DEFINE rows == Matching(db, Statements[statement])
             gone == Gone(db, rows)
  <1>1. /\ purge = "purging" /\ db' = Without(db, gone) /\ statement' = statement + 1
        /\ UNCHANGED <<committed, purge, plan, demo, trends, late>>
    BY StatementsAre DEF Execute
  <1>2. Sound(committed) /\ Sound(db) /\ Within(db, committed)
    BY DEF PurgeInv, DataInv
  <1>3. rows \subseteq gone /\ gone \subseteq RestsOn(db, demo \cup trends)
    BY GoneRests DEF Gone, WithCascades
  <1>4. rows = Matching(db, Statements[statement]) /\ ~Violates(db, gone)
    OBVIOUS
  <1> HIDE DEF gone, rows
  <1>5. Sound(db') /\ Within(db', db) /\ DOMAIN db' = DOMAIN db \ gone
    BY <1>1, <1>2, <1>4, WithoutIsSound DEF Without
  <1>6. DataInv'
    BY <1>1, <1>2, <1>5, WithinPasses DEF DataInv
  <1>7. ClearedInv'
    <2>1. ASSUME NEW r \in DOMAIN db', NEW c \in DOMAIN committed[r].refs, c \notin DOMAIN db'[r].refs
          PROVE  committed[r].refs[c] \notin DOMAIN db'
      <3>1. r \in DOMAIN db /\ c \notin DOMAIN db[r].refs
        BY <1>1, <1>5, <2>1 DEF Without
      <3>2. CASE committed[r].refs[c] \notin DOMAIN db
        BY <1>5, <3>2
      <3>3. CASE statement <= 4 /\ committed[r].refs[c] \in DoomedRuns(db, trends)
        <4>1. rows = DoomedRuns(db, trends)
          BY <1>4, <3>3, MatchingIs DEF Selected, DoomedRuns
        <4> QED
          BY <1>3, <1>5, <3>3, <4>1
      <3> QED
        BY <2>1, <3>1, <3>2, <3>3 DEF PurgeInv, ClearedInv
    <2> QED
      BY <1>1, <2>1 DEF ClearedInv
  <1>8. ControlInv' /\ WordsInv' /\ AcceptedWhenAlone'
    BY <1>1 DEF PurgeInv, ControlInv, EndOfStatements, WordsInv, AcceptedWhenAlone
  <1>9. RootsInv'
    <2>1. ASSUME statement = 13
          PROVE  trends \cap DOMAIN db' = {}
      <3>1. rows = Rows(db, "trends") \cap trends
        BY <1>4, <2>1, MatchingIs, SelectedIs
      <3>2. trends \cap DOMAIN db \subseteq Rows(db, "trends")
        BY <1>2, PartRows DEF PurgeInv, RootsInv, Within
      <3> QED
        BY <1>3, <1>5, <3>1, <3>2
    <2>2. ASSUME statement = 21
          PROVE  demo \cap DOMAIN db' = {}
      <3>1. rows = Rows(db, "sources") \cap demo
        BY <1>4, <2>2, MatchingIs, SelectedIs
      <3>2. demo \cap DOMAIN db \subseteq Rows(db, "sources")
        BY <1>2, PartRows DEF PurgeInv, RootsInv, Within
      <3> QED
        BY <1>3, <1>5, <3>1, <3>2
    <2>3. /\ statement > 13 => trends \cap DOMAIN db = {}
          /\ demo \subseteq Rows(committed, "sources") /\ trends \subseteq Rows(committed, "trends")
      BY <1>1 DEF PurgeInv, RootsInv
    <2>4. /\ statement + 1 > 13 => statement = 13 \/ statement > 13
          /\ statement + 1 > 21 => statement = 21
      OBVIOUS
    <2>5. statement' > 13 => trends \cap DOMAIN db' = {}
      BY <1>1, <1>5, <2>1, <2>3, <2>4
    <2>6. statement' > 21 => demo \cap DOMAIN db' = {}
      BY <1>1, <1>5, <2>2, <2>4
    <2> QED
      BY <1>1, <2>3, <2>5, <2>6 DEF RootsInv
  <1>10. UpperInv'
    <2>1. RestsOn(db, demo \cup trends) \subseteq RestsOn(committed, demo \cup trends)
      BY <1>2, RestsGrow DEF Within
    <2> QED
      BY <1>1, <1>3, <1>5, <2>1 DEF PurgeInv, UpperInv
  <1>11. AloneInv'
    <2>1. Matching(db', Statements[statement]) = {}
      <3> SUFFICES ASSUME NEW r \in Matching(db', Statements[statement]) PROVE FALSE
        OBVIOUS
      <3>1. r \in rows
        BY <1>4, <1>5, MatchingShrinks
      <3>2. r \in DOMAIN db'
        BY DEF Matching, Rows
      <3> QED
        BY <1>3, <1>5, <3>1, <3>2
    <2>2. ASSUME ~late PROVE Passed(db, statement)'
      BY <1>1, <1>5, <2>1, <2>2, PassesOn DEF PurgeInv, AloneInv
    <2> QED
      BY <1>1, <2>2 DEF PurgeInv, AloneInv
  <1> QED
    BY <1>6, <1>7, <1>8, <1>9, <1>10, <1>11 DEF PurgeInv

-----------------------------------------------------------------------------
(* The comparison.                                                         *)

\* The words that stood at the plan are there, unless other trends are removed.
LEMMA WordsAreThere ==
  ASSUME PurgeInv, purge \in {"purging", "done"}, trends \subseteq plan.trends
  PROVE  plan.words \subseteq DOMAIN db
  <1> SUFFICES ASSUME NEW r \in plan.words, r \notin DOMAIN db PROVE FALSE
    OBVIOUS
  <1>1. /\ r \in DOMAIN committed /\ committed[r].table \in Protected
        /\ r \notin CheckProtectedContent(committed, plan.trends)
    BY DEF PurgeInv, WordsInv
  <1>2. r \in RestsOn(committed, demo \cup trends)
    BY <1>1 DEF PurgeInv, UpperInv
  <1>3. r \in CheckProtectedContent(committed, trends)
    BY <1>1, <1>2, ProtectedRests DEF PurgeInv, DataInv, RootsInv
  <1>4. CheckProtectedContent(committed, trends) \subseteq CheckProtectedContent(committed, plan.trends)
    BY DEF CheckProtectedContent, Doomed, Referring, Refers
  <1> QED
    BY <1>1, <1>3, <1>4

LEMMA CompareKeeps ==
  ASSUME PurgeInv, Compare
  PROVE  PurgeInv'
  <1>1. /\ purge = "purging" /\ statement \notin DOMAIN Statements
        /\ UNCHANGED <<committed, statement, plan, demo, trends, late>>
    BY DEF Compare
  <1>2. statement = EndOfStatements
    BY <1>1, StatementsAre DEF PurgeInv, ControlInv, EndOfStatements
  <1>3. CASE Counts(db) = plan.counts
    <2>1. purge' = "done" /\ UNCHANGED db
      BY <1>3 DEF Compare
    <2>2. DataInv' /\ ClearedInv' /\ UpperInv' /\ WordsInv' /\ AloneInv' /\ AcceptedWhenAlone'
      BY <1>1, <2>1 DEF PurgeInv, DataInv, ClearedInv, UpperInv, WordsInv, AloneInv, AcceptedWhenAlone
    <2>3. ControlInv' /\ RootsInv'
      BY <1>1, <1>2, <2>1 DEF PurgeInv, ControlInv, RootsInv
    <2> QED
      BY <2>2, <2>3 DEF PurgeInv
  <1>4. CASE Counts(db) # plan.counts
    <2>1. purge' = "moved" /\ db' = committed
      BY <1>4 DEF Compare
    <2>2. late
      <3> SUFFICES ASSUME ~late PROVE FALSE
        OBVIOUS
      <3>1. plan = PlanOf(committed) /\ trends = plan.trends
        BY <1>1 DEF PurgeInv, AloneInv
      <3>2. plan.words \subseteq DOMAIN db
        BY <1>1, <3>1, WordsAreThere
      <3>3. plan.words = {r \in DOMAIN committed : committed[r].table \in Protected}
            /\ plan.counts = Counts(committed)
        BY <3>1 DEF PlanOf
      <3>4. ASSUME NEW t \in Protected
            PROVE  Rows(db, t) = Rows(committed, t)
        <4>1. Rows(committed, t) \subseteq DOMAIN db
          BY <3>2, <3>3, <3>4 DEF Rows
        <4>2. Rows(db, t) = Rows(committed, t) \cap DOMAIN db
          BY PartRows DEF PurgeInv, DataInv, Within
        <4> QED
          BY <4>1, <4>2
      <3>5. Counts(db) = Counts(committed)
        BY <3>4 DEF Counts
      <3> QED
        BY <1>4, <3>3, <3>5
    <2>3. DataInv' /\ ClearedInv' /\ UpperInv'
      BY <1>1, <2>1, NothingGone DEF PurgeInv, DataInv
    <2>4. ControlInv' /\ RootsInv' /\ WordsInv' /\ AloneInv' /\ AcceptedWhenAlone'
      BY <1>1, <2>1, <2>2 DEF PurgeInv, ControlInv, RootsInv, WordsInv, AloneInv, AcceptedWhenAlone
    <2> QED
      BY <2>3, <2>4 DEF PurgeInv
  <1> QED
    BY <1>3, <1>4

-----------------------------------------------------------------------------
(* What others write.                                                      *)

\* A row that fits the part fits the whole.
LEMMA FitsTheWhole ==
  ASSUME NEW d, Sound(d), NEW e, Sound(e), Part(e, d), NEW row, Fits(e, row)
  PROVE  Fits(d, row)
  <1> USE DEF Soft
  <1>1. KeysHold(e, row) /\ OfOneSource(e, row)
    BY DEF Fits
  <1>2. \A c \in DOMAIN row.refs : row.refs[c] \in DOMAIN e
    BY <1>1 DEF KeysHold
  <1>3. KeysHold(d, row)
    BY <1>1 DEF KeysHold, Part
  <1>4. ASSUME NEW table, NEW to, NEW x \in Referring(d, table, "source", to), x \in DOMAIN e
        PROVE  x \in Referring(e, table, "source", to) /\ e[x].refs["source"] \in DOMAIN e
    <2>1. x \in Referring(e, table, "source", to)
      BY <1>4, PartReferring
    <2> QED
      BY <2>1 DEF Referring, Refers, Rows, Sound, Fits, KeysHold
  <1>5. ASSUME NEW table, NEW s \in Rows(d, "sources"), NEW x \in Referring(d, table, "source", {s}),
               x \in DOMAIN e
        PROVE  s \in Rows(e, "sources") /\ x \in Referring(e, table, "source", {s})
    <2>1. x \in Referring(e, table, "source", {s}) /\ e[x].refs["source"] \in DOMAIN e
      BY <1>4, <1>5
    <2>2. e[x].refs["source"] = s
      BY <2>1 DEF Referring, Refers
    <2> QED
      BY <1>5, <2>1, <2>2, PartRows
  <1>6. ASSUME row.table = "raw_records", NEW s \in Rows(d, "sources"),
               NEW run \in Referring(d, "source_runs", "source", {s}), Refers(row, "source_run", {run})
        PROVE  Refers(row, "source", {s})
    <2>1. run \in DOMAIN e
      BY <1>2, <1>6 DEF Refers
    <2>2. s \in Rows(e, "sources") /\ run \in Referring(e, "source_runs", "source", {s})
      BY <1>5, <1>6, <2>1
    <2> QED
      BY <1>1, <1>6, <2>2 DEF OfOneSource
  <1>7. ASSUME row.table = "signal_observations", NEW s \in Rows(d, "sources"),
               NEW raw \in Referring(d, "raw_records", "source", {s}), Refers(row, "raw_record", {raw})
        PROVE  Refers(row, "signal", Referring(d, "signals", "source", {s}))
    <2>1. raw \in DOMAIN e
      BY <1>2, <1>7 DEF Refers
    <2>2. s \in Rows(e, "sources") /\ raw \in Referring(e, "raw_records", "source", {s})
      BY <1>5, <1>7, <2>1
    <2>3. Refers(row, "signal", Referring(e, "signals", "source", {s}))
      BY <1>1, <1>7, <2>2 DEF OfOneSource
    <2> QED
      BY <2>3, PartReferring DEF Refers
  <1>8. OfOneSource(d, row)
    BY <1>6, <1>7 DEF OfOneSource
  <1> QED
    BY <1>3, <1>8 DEF Fits

\* What stood at the plan keeps out of the way whatever is added to the database.
LEMMA WordsKeep ==
  ASSUME PurgeInv, Part(committed, committed'), UNCHANGED <<purge, plan>>
  PROVE  WordsInv'
  <1> SUFFICES ASSUME purge \notin {"idle", "refused"}
               PROVE  /\ plan.words \subseteq DOMAIN committed'
                      /\ \A r \in plan.words : committed'[r].table \in Protected
                      /\ plan.words \cap CheckProtectedContent(committed', plan.trends) = {}
    BY DEF WordsInv
  <1>1. /\ plan.words \subseteq DOMAIN committed
        /\ \A r \in plan.words : committed[r].table \in Protected
        /\ plan.words \cap CheckProtectedContent(committed, plan.trends) = {}
        /\ Sound(committed)
    BY DEF PurgeInv, WordsInv, DataInv
  <1>2. CheckProtectedContent(committed, plan.trends) =
           CheckProtectedContent(committed', plan.trends) \cap DOMAIN committed
    BY <1>1, CheckOfPart
  <1> QED
    BY <1>1, <1>2 DEF Part

\* What others write leaves the rest of the invariant as it is.
LEMMA OthersKeep ==
  ASSUME PurgeInv, UNCHANGED <<purge, statement, plan, demo, trends>>, late' = Running,
         purge = "idle" \/ Running, DataInv', ClearedInv', Part(committed, committed'),
         DOMAIN committed' \ DOMAIN db' = DOMAIN committed \ DOMAIN db,
         DOMAIN db' \cap DOMAIN committed = DOMAIN db,
         db = committed => db' = committed'
  PROVE  PurgeInv'
  <1>1. ControlInv' /\ AloneInv' /\ AcceptedWhenAlone'
    BY DEF PurgeInv, ControlInv, AloneInv, AcceptedWhenAlone, Running
  <1>2. WordsInv'
    BY WordsKeep
  <1>3. RootsInv'
    <2>1. \A table : Rows(committed, table) \subseteq Rows(committed', table)
      BY DEF Part, Rows
    <2>2. /\ demo \subseteq DOMAIN committed /\ trends \subseteq DOMAIN committed
          /\ demo \subseteq Rows(committed', "sources") /\ trends \subseteq Rows(committed', "trends")
      BY <2>1 DEF PurgeInv, RootsInv, Rows
    <2> QED
      BY <2>2 DEF PurgeInv, RootsInv
  <1>4. UpperInv'
    <2>1. RestsOn(committed, demo \cup trends) \subseteq RestsOn(committed', demo \cup trends)
      BY RestsGrow
    <2> QED
      BY <2>1 DEF PurgeInv, UpperInv
  <1> QED
    BY <1>1, <1>2, <1>3, <1>4 DEF PurgeInv

LEMMA WriteKeeps ==
  ASSUME PurgeInv, NEW r, NEW row \in NewRows, Write(r, row)
  PROVE  PurgeInv'
  <1>1. /\ purge = "idle" \/ Running
        /\ r \notin DOMAIN committed /\ Fits(db, row)
        /\ committed' = Added(committed, r, row) /\ db' = Added(db, r, row)
        /\ late' = Running /\ UNCHANGED <<purge, statement, plan, demo, trends>>
    BY DEF Write, Added
  <1>2. Sound(committed) /\ Sound(db) /\ Within(db, committed) /\ Part(db, committed)
    BY DEF PurgeInv, DataInv, Within
  <1>3. r \notin DOMAIN db /\ IsRow(row) /\ Fits(committed, row)
    BY <1>1, <1>2, FitsTheWhole, PurgeAssumption DEF Part
  <1>4. Sound(committed') /\ Sound(db') /\ Part(committed, committed') /\ Part(db, db')
    BY <1>1, <1>2, <1>3, AddedIsSound
  <1>5. /\ DOMAIN committed' = DOMAIN committed \cup {r} /\ DOMAIN db' = DOMAIN db \cup {r}
        /\ committed'[r] = row /\ db'[r] = row
        /\ \A k \in DOMAIN committed : committed'[k] = committed[k]
        /\ \A k \in DOMAIN db : db'[k] = db[k]
    BY <1>1, <1>3 DEF Added
  <1>6. DataInv'
    <2>1. Within(db', committed')
      BY <1>2, <1>3, <1>5 DEF Within, Part
    <2> QED
      BY <1>4, <2>1 DEF DataInv
  <1>7. ClearedInv'
    <2>1. ASSUME NEW k \in DOMAIN db, NEW c \in DOMAIN committed[k].refs, c \notin DOMAIN db[k].refs
          PROVE  \/ committed[k].refs[c] \notin DOMAIN db'
                 \/ statement <= 4 /\ committed[k].refs[c] \in DoomedRuns(db', trends)
      <3>1. committed[k].refs[c] \in DOMAIN committed
        BY <1>2, <2>1 DEF Sound, Fits, KeysHold, Within, Part
      <3>2. \/ committed[k].refs[c] \notin DOMAIN db
            \/ statement <= 4 /\ committed[k].refs[c] \in DoomedRuns(db, trends)
        BY <2>1 DEF PurgeInv, ClearedInv
      <3>3. DoomedRuns(db, trends) \subseteq DoomedRuns(db', trends)
        BY <1>4, SmallerRuns
      <3> QED
        BY <1>1, <1>5, <3>1, <3>2, <3>3
    <2>2. ASSUME NEW k \in DOMAIN db', NEW c \in DOMAIN committed'[k].refs
          PROVE  \/ c \in DOMAIN db'[k].refs
                 \/ committed'[k].refs[c] \notin DOMAIN db'
                 \/ statement' <= 4 /\ committed'[k].refs[c] \in DoomedRuns(db', trends')
      <3>1. CASE k = r
        BY <1>5, <2>2, <3>1
      <3>2. CASE k # r
        <4>1. k \in DOMAIN db /\ k \in DOMAIN committed /\ committed'[k] = committed[k] /\ db'[k] = db[k]
          BY <1>2, <1>5, <2>2, <3>2 DEF Part
        <4> QED
          BY <1>1, <2>1, <2>2, <4>1
      <3> QED
        BY <3>1, <3>2
    <2> QED
      BY <2>2 DEF ClearedInv
  <1>8. /\ DOMAIN committed' \ DOMAIN db' = DOMAIN committed \ DOMAIN db
        /\ DOMAIN db' \cap DOMAIN committed = DOMAIN db
        /\ db = committed => db' = committed'
    BY <1>1, <1>2, <1>3, <1>5 DEF Part
  <1> QED
    BY <1>1, <1>4, <1>6, <1>7, <1>8, OthersKeep

LEMMA ExplainKeeps ==
  ASSUME PurgeInv, NEW t \in Rows(db, "trends"), NEW run \in Rows(db, "model_runs"), Explain(t, run)
  PROVE  PurgeInv'
  <1>1. /\ purge = "idle" \/ Running
        /\ committed' = Explained(committed, t, run) /\ db' = Explained(db, t, run)
        /\ late' = Running /\ UNCHANGED <<purge, statement, plan, demo, trends>>
    BY DEF Explain
  <1>2. Sound(committed) /\ Sound(db) /\ Within(db, committed) /\ Part(db, committed)
    BY DEF PurgeInv, DataInv, Within
  <1>3. t \in Rows(committed, "trends") /\ run \in Rows(committed, "model_runs")
    BY <1>2, PartRows
  <1>4. /\ Sound(committed') /\ Part(committed, committed') /\ DOMAIN committed' = DOMAIN committed
        /\ \A k \in DOMAIN committed \ {t} : committed'[k] = committed[k]
        /\ DOMAIN committed'[t].refs = DOMAIN committed[t].refs \cup {"explanation"}
        /\ committed'[t].refs["explanation"] = run
        /\ \A c \in DOMAIN committed[t].refs \ {"explanation"} : committed'[t].refs[c] = committed[t].refs[c]
        /\ Part(committed', committed)
    BY <1>1, <1>2, <1>3, ExplainedIsSound
  <1>5. /\ Sound(db') /\ Part(db, db') /\ Part(db', db) /\ DOMAIN db' = DOMAIN db
        /\ \A k \in DOMAIN db \ {t} : db'[k] = db[k]
        /\ DOMAIN db'[t].refs = DOMAIN db[t].refs \cup {"explanation"}
        /\ db'[t].refs["explanation"] = run
        /\ \A c \in DOMAIN db[t].refs \ {"explanation"} : db'[t].refs[c] = db[t].refs[c]
    BY <1>1, <1>2, ExplainedIsSound
  <1>6. DataInv'
    <2>1. ASSUME NEW k \in DOMAIN db', NEW c \in DOMAIN db'[k].refs
          PROVE  c \in DOMAIN committed'[k].refs /\ db'[k].refs[c] = committed'[k].refs[c]
      <3>1. k \in DOMAIN db /\ k \in DOMAIN committed
        BY <1>2, <1>5 DEF Part
      <3>2. CASE k # t
        BY <1>2, <1>4, <1>5, <2>1, <3>1, <3>2 DEF Within
      <3>3. CASE k = t /\ c = "explanation"
        BY <1>4, <1>5, <3>3
      <3>4. CASE k = t /\ c # "explanation"
        <4>1. c \in DOMAIN db[t].refs /\ db'[t].refs[c] = db[t].refs[c]
          BY <1>5, <2>1, <3>4
        <4>2. c \in DOMAIN committed[t].refs /\ db[t].refs[c] = committed[t].refs[c]
          BY <1>2, <3>1, <3>4, <4>1 DEF Within
        <4> QED
          BY <1>4, <3>4, <4>1, <4>2
      <3> QED
        BY <3>2, <3>3, <3>4
    <2>2. Part(db', committed')
      <3>1. Part(db', committed)
        BY <1>2, <1>5 DEF Part
      <3> QED
        BY <1>4, <3>1 DEF Part
    <2> QED
      BY <1>4, <1>5, <2>1, <2>2 DEF DataInv, Within
  <1>7. ClearedInv'
    <2>1. DoomedRuns(db, trends) \subseteq DoomedRuns(db', trends)
      BY <1>5, SmallerRuns
    <2>2. ASSUME NEW k \in DOMAIN db', NEW c \in DOMAIN committed'[k].refs, c \notin DOMAIN db'[k].refs
          PROVE  \/ committed'[k].refs[c] \notin DOMAIN db'
                 \/ statement' <= 4 /\ committed'[k].refs[c] \in DoomedRuns(db', trends')
      <3>1. /\ k \in DOMAIN db /\ k \in DOMAIN committed /\ c \in DOMAIN committed[k].refs
            /\ c \notin DOMAIN db[k].refs /\ committed'[k].refs[c] = committed[k].refs[c]
        <4>1. CASE k # t
          BY <1>2, <1>4, <1>5, <2>2, <4>1 DEF Part
        <4>2. CASE k = t
          BY <1>2, <1>4, <1>5, <2>2, <4>2 DEF Part
        <4> QED
          BY <4>1, <4>2
      <3>2. \/ committed[k].refs[c] \notin DOMAIN db
            \/ statement <= 4 /\ committed[k].refs[c] \in DoomedRuns(db, trends)
        BY <3>1 DEF PurgeInv, ClearedInv
      <3> QED
        BY <1>1, <1>5, <2>1, <3>1, <3>2
    <2> QED
      BY <2>2 DEF ClearedInv
  <1>8. /\ DOMAIN committed' \ DOMAIN db' = DOMAIN committed \ DOMAIN db
        /\ DOMAIN db' \cap DOMAIN committed = DOMAIN db
        /\ db = committed => db' = committed'
    BY <1>1, <1>2, <1>4, <1>5 DEF Part
  <1> QED
    BY <1>1, <1>4, <1>6, <1>7, <1>8, OthersKeep

-----------------------------------------------------------------------------
(* The theorems.                                                           *)

LEMMA PurgeKeeps == PurgeInv /\ [PurgeNext]_purgeVars => PurgeInv'
  <1> SUFFICES ASSUME PurgeInv, [PurgeNext]_purgeVars PROVE PurgeInv'
    OBVIOUS
  <1>1. CASE Plan \/ Classify \/ Resolve
    BY <1>1, PlanKeeps, ClassifyKeeps, ResolveKeeps
  <1>2. CASE Execute
    <2>1. statement \in 1..21
      BY <1>2, StatementsAre DEF Execute
    <2>2. CASE statement \in 1..3
      BY <1>2, <2>2, UpdateKeeps
    <2>3. CASE statement \in 4..21
      BY <1>2, <2>3, DeleteFails, DeleteSucceeds
    <2> QED
      BY <2>1, <2>2, <2>3
  <1>3. CASE Compare
    BY <1>3, CompareKeeps
  <1>4. CASE \E row \in NewRows : Write(Cardinality(DOMAIN committed) + 1, row)
    BY <1>4, WriteKeeps
  <1>5. CASE \E t \in Rows(db, "trends"), run \in Rows(db, "model_runs") : Explain(t, run)
    BY <1>5, ExplainKeeps
  <1>6. CASE UNCHANGED purgeVars
    <2>1. UNCHANGED <<committed, db, purge, statement, plan, demo, trends, late>>
      BY <1>6 DEF purgeVars
    <2>2. DataInv' /\ ClearedInv' /\ ControlInv' /\ RootsInv' /\ UpperInv' /\ WordsInv'
      BY <2>1 DEF PurgeInv, DataInv, ClearedInv, ControlInv, RootsInv, UpperInv, WordsInv
    <2>3. Passed(db, statement) => Passed(db, statement)'
      BY <2>1, SameSelection DEF Passed
    <2>4. AloneInv' /\ AcceptedWhenAlone'
      BY <2>1, <2>3 DEF PurgeInv, AloneInv, AcceptedWhenAlone
    <2> QED
      BY <2>2, <2>4 DEF PurgeInv
  <1> QED
    BY <1>1, <1>2, <1>3, <1>4, <1>5, <1>6 DEF PurgeNext

\* The invariant of a run of purge_demo_data.py, whatever others write meanwhile.
THEOREM PurgeInvariant == PurgeSpec => []PurgeInv
  BY PurgeStarts, PurgeKeeps, PTL DEF PurgeSpec

LEMMA DoneIsExact ==
  ASSUME PurgeInv, purge = "done"
  PROVE  db = Swept(committed, RestsOn(committed, demo \cup trends))
  <1> DEFINE gone == RestsOn(committed, demo \cup trends)
             swept == Swept(committed, gone)
  <1>1. Sound(committed) /\ Sound(db) /\ Within(db, committed) /\ Part(db, committed)
    BY DEF PurgeInv, DataInv, Within
  <1>2. (demo \cup trends) \cap DOMAIN db = {} /\ ~(statement <= 4)
    BY DEF PurgeInv, ControlInv, RootsInv, EndOfStatements
  <1>3. gone \cap DOMAIN db = {}
    BY <1>1, <1>2, NothingRestsIn
  <1>4. DOMAIN committed \ DOMAIN db \subseteq gone
    BY DEF PurgeInv, UpperInv
  <1> HIDE DEF gone
  <1>5. DOMAIN db = DOMAIN committed \ gone
    BY <1>1, <1>3, <1>4 DEF Part
  <1>6. ASSUME NEW r \in DOMAIN db
        PROVE  db[r] = swept[r]
    <2> DEFINE refs == [c \in {k \in DOMAIN committed[r].refs : committed[r].refs[k] \notin gone} |->
                           committed[r].refs[c]]
    <2>1. r \in DOMAIN committed /\ IsRow(committed[r]) /\ IsRow(db[r])
      BY <1>1, <1>6 DEF Sound, Part
    <2>2. swept[r] = [committed[r] EXCEPT !.refs = refs]
      BY <1>5, <1>6 DEF Swept
    <2>3. /\ refs = [c \in DOMAIN refs |-> refs[c]]
          /\ DOMAIN refs = {k \in DOMAIN committed[r].refs : committed[r].refs[k] \notin gone}
          /\ \A c \in DOMAIN refs : refs[c] = committed[r].refs[c]
      OBVIOUS
    <2> HIDE DEF refs, swept
    <2>4. /\ IsRow(swept[r]) /\ swept[r].table = committed[r].table
          /\ swept[r].source = committed[r].source /\ swept[r].refs = refs
      BY <2>1, <2>2, <2>3, RowWithRefs
    <2>5. ASSUME NEW c \in DOMAIN db[r].refs
          PROVE  c \in DOMAIN refs /\ db[r].refs[c] = refs[c]
      <3>1. c \in DOMAIN committed[r].refs /\ db[r].refs[c] = committed[r].refs[c]
        BY <1>1, <1>6, <2>5 DEF Within
      <3>2. db[r].refs[c] \in DOMAIN db
        BY <1>1, <1>6, <2>5 DEF Sound, Fits, KeysHold
      <3> QED
        BY <1>3, <2>3, <3>1, <3>2
    <2>6. ASSUME NEW c \in DOMAIN refs
          PROVE  c \in DOMAIN db[r].refs
      <3>1. c \in DOMAIN committed[r].refs /\ committed[r].refs[c] \notin gone
        BY <2>3, <2>6
      <3>2. committed[r].refs[c] \in DOMAIN committed
        BY <1>1, <2>1, <3>1 DEF Sound, Fits, KeysHold
      <3> QED
        BY <1>2, <1>5, <1>6, <3>1, <3>2 DEF PurgeInv, ClearedInv
    <2>7. db[r].table = committed[r].table /\ db[r].source = committed[r].source
      BY <1>1, <1>6 DEF Part
    <2>8. DOMAIN db[r].refs = DOMAIN swept[r].refs
      BY <2>4, <2>5, <2>6
    <2> QED
      BY <2>1, <2>4, <2>5, <2>7, <2>8, RowsAreEqual
  <1>7. DOMAIN swept = DOMAIN db /\ swept = [r \in DOMAIN swept |-> swept[r]]
    BY <1>5 DEF Swept
  <1>8. db = [r \in DOMAIN db |-> db[r]]
    BY <1>1 DEF Sound
  <1> HIDE DEF swept
  <1>9. db = swept
    BY <1>6, <1>7, <1>8
  <1> QED
    BY <1>9 DEF swept, gone

\* What a run commits is the database, with what others wrote, without exactly what
\* rests on the demo sources and trends; any other end changes nothing.
THEOREM DemoIsRemovedExactly == PurgeSpec => []ExactlyTheDemo
  <1>1. PurgeInv => ExactlyTheDemo
    BY DoneIsExact DEF ExactlyTheDemo, PurgeInv, ControlInv
  <1> QED
    BY <1>1, PurgeInvariant, PTL

\* No foreign key and no count stops a run that nobody writes beside.
THEOREM AloneIsAccepted == PurgeSpec => []AcceptedWhenAlone
  <1>1. PurgeInv => AcceptedWhenAlone
    BY DEF PurgeInv
  <1> QED
    BY <1>1, PurgeInvariant, PTL

\* A run that removes no other trends than those of its plan keeps every note and
\* decision that was there at the plan.
THEOREM WordsAlwaysStay == PurgeSpec => []WordsStay
  <1>1. PurgeInv => WordsStay
    BY WordsAreThere DEF WordsStay
  <1> QED
    BY <1>1, PurgeInvariant, PTL

\* The three together, as the runs check them.
THEOREM PurgeIsAlwaysExact == PurgeSpec => []PurgeIsExact
  BY DemoIsRemovedExactly, AloneIsAccepted, WordsAlwaysStay, PTL DEF PurgeIsExact
=============================================================================
