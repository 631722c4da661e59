------------------------------ MODULE Conditions -----------------------------
(***************************************************************************)
(* Checking one condition of an opportunity against stored measurements    *)
(* (check_condition in services/monitoring.py), while measurements of the  *)
(* trend's signals arrive and days pass.  An observation is                *)
(* [signal, at, value], value Nothing when it is not usable; a condition   *)
(* is [type, comparator, value, window], Nothing where the measurable does *)
(* not say.                                                                *)
(***************************************************************************)
EXTENDS Integers, FiniteSets

CONSTANTS Nothing, Condition,
          Signals, Type,     \* the signals behind the trend, and the type of each
          Amounts,           \* what is measured
          RowLimit,          \* at most 200 observations are read
          LastReading, MaxReadings  \* bounds

Comparators == {"gt", "gte", "lt", "lte", "eq"}

\* What is measured is compared with each other; a window is a number of days.
ASSUME ConditionsAssumption ==
    /\ Amounts \subseteq Int /\ Nothing \notin Int
    /\ Condition.value \in Int \cup {Nothing} /\ Condition.window \in Nat \cup {Nothing}
    /\ RowLimit \in Nat \ {0} /\ LastReading \in Nat /\ MaxReadings \in Nat

VARIABLES today, measured
conditionsVars == <<today, measured>>

-----------------------------------------------------------------------------
Passes(comparator, v, threshold) ==
    \/ comparator = "gt" /\ v > threshold
    \/ comparator = "gte" /\ v >= threshold
    \/ comparator = "lt" /\ v < threshold
    \/ comparator = "lte" /\ v <= threshold
    \/ comparator = "eq" /\ v = threshold

DefaultWindowDays == 90
WindowOf(condition) == IF condition.window \in {Nothing, 0} THEN DefaultWindowDays ELSE condition.window

Found(observations, type, since) ==
    {o \in observations : Type[o.signal] = type /\ o.at >= since /\ o.value # Nothing}

\* ORDER BY observed_at DESC LIMIT: the newest rows.  Which come first among those of
\* one instant is up to the database.
ObservationsFor(found) ==
    {rows \in SUBSET found :
        /\ Cardinality(rows) <= RowLimit
        /\ rows # found => Cardinality(rows) = RowLimit
        /\ \A o \in rows, p \in found \ rows : p.at <= o.at}

\* Mutant: the rows are sorted the wrong way round.
LatestFirst(rows) == {o \in rows : \A p \in rows : o.at <= p.at}
Latest(rows) == {o \in rows : \A p \in rows : p.at <= o.at}

Passing(condition, rows) ==
    {o \in rows : Passes(condition.comparator, o.value, condition.value)}

\* Shares are compared in tenths: at least 0.6 of the readings.
Outcome(condition, rows, latest) ==
    LET passing == Passing(condition, rows)
    IN  IF latest \in passing
        THEN IF 10 * Cardinality(passing) >= 6 * Cardinality(rows) THEN "met" ELSE "partially_met"
        ELSE IF passing # {} THEN "partially_met" ELSE "failed"

Checkable(condition) ==
    condition.type # Nothing /\ condition.comparator \in Comparators /\ condition.value # Nothing

\* The outcomes a check may have.
CheckCondition(condition, observations, now) ==
    LET found == Found(observations, condition.type, now - WindowOf(condition))
    IN  IF ~Checkable(condition) \/ found = {} THEN {"unknown"}
        ELSE UNION {{Outcome(condition, rows, o) : o \in Latest(rows)} : rows \in ObservationsFor(found)}

-----------------------------------------------------------------------------
ConditionsInit == today = 0 /\ measured = {}

\* A measurement is stored, of today or of an earlier day; one for each signal and
\* time (ux_signal_obs_signal_time).
Observe(signal, at, value) ==
    /\ Cardinality(measured) < MaxReadings
    /\ \A o \in measured : o.signal # signal \/ o.at # at
    /\ measured' = measured \cup {[signal |-> signal, at |-> at, value |-> value]}
    /\ UNCHANGED today

DayPasses == today < LastReading /\ today' = today + 1 /\ UNCHANGED measured

ConditionsNext ==
    \/ \E s \in Signals, at \in 0..today, v \in Amounts \cup {Nothing} : Observe(s, at, v)
    \/ DayPasses

ConditionsSpec == ConditionsInit /\ [][ConditionsNext]_conditionsVars

-----------------------------------------------------------------------------
Rank(verdict) ==
    CASE verdict = "unknown" -> 1 [] verdict = "failed" -> 2
      [] verdict = "partially_met" -> 3 [] verdict = "met" -> 4

\* Whatever the database returned first, the outcome is no lower than it was.
NoLower(before, after) ==
    /\ \A v \in before : \E w \in after : Rank(v) <= Rank(w)
    /\ \A w \in after : \E v \in before : Rank(v) <= Rank(w)

Verdicts == CheckCondition(Condition, measured, today)

\* A new reading moves the verdict its own way, also when it arrives late, when others
\* are of the same instant and when it pushes an older one out of the rows that are
\* read: one that passes never lowers it; one that fails never raises a verdict on
\* evidence, and ends "met" if it is the newest; one that cannot be used, is of
\* another type or out of the window changes nothing (check_condition).
NewReadingMonotone ==
    [][\A new \in measured' \ measured :
        LET used == Found({new}, Condition.type, today - WindowOf(Condition)) # {} /\ Checkable(Condition)
            newest == \A o \in measured : o.at < new.at
        IN  IF ~used THEN Verdicts' = Verdicts
            ELSE IF Passes(Condition.comparator, new.value, Condition.value) THEN NoLower(Verdicts, Verdicts')
            ELSE /\ newest => "met" \notin Verdicts'
                 /\ Verdicts # {"unknown"} => NoLower(Verdicts', Verdicts)]_measured
=============================================================================
