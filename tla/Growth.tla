------------------------------- MODULE Growth -------------------------------
(***************************************************************************)
(* How one measured series is changing (analytics/growth.py).  A series is *)
(* a sequence of points [at, value], at a day; the value of a period that  *)
(* was not reported is None.  Percentages are whole; a median is kept      *)
(* doubled, so that the mean of the two middle values stays whole.         *)
(***************************************************************************)
EXTENDS Integers, Sequences, FiniteSets, SequencesExt, FiniteSetsExt

CONSTANT None

Size(v) == IF v < 0 THEN -v ELSE v

\* The points that were reported: a gap is not a zero.
Reported(series) == SelectSeq(series, LAMBDA p : p.value # None)
Values(series) == LET ok == Reported(series) IN [i \in DOMAIN ok |-> ok[i].value]

Total(s) == FoldLeft(+, 0, s)
Median2(s) ==
    LET r == SortSeq(s, <)
        n == Len(s)
    IN  r[(n + 1) \div 2] + r[(n + 2) \div 2]

Pct(current, previous) ==
    IF previous = 0 THEN None ELSE ((current - previous) * 100) \div Size(previous)

-----------------------------------------------------------------------------
\* The change over the last days, if the series is that long.
WindowedGrowth(ok, days) ==
    LET target == Last(ok).at - days
        earlier == {i \in DOMAIN ok : ok[i].at <= target}
    IN  IF Len(ok) < 2 \/ earlier = {} THEN None
        ELSE Pct(Last(ok).value, ok[Max(earlier)].value)

Momentum(ok) ==
    LET recent == SelectSeq(ok, LAMBDA p : p.at >= Last(ok).at - 30)
        w == IF Len(recent) < 3 THEN SubSeq(ok, Max({1, Len(ok) - 7}), Len(ok)) ELSE recent
        n == Len(w)
        x(i) == w[i].at - w[1].at
        sx == SumSet({0} \cup {x(i) : i \in 1..n})       \* the days are distinct
        sy == Total([i \in 1..n |-> w[i].value])
        sxy == Total([i \in 1..n |-> x(i) * w[i].value])
        sxx == Total([i \in 1..n |-> x(i) * x(i)])
        spread == n * sxx - sx * sx
    IN  IF Len(ok) < 4 \/ spread = 0 \/ sy = 0 THEN None
        ELSE ((n * sxy - sx * sy) * 100 * n) \div (spread * Size(sy))

\* numpy.array_split: the first blocks are one longer when n is not a multiple.
Block(s, blocks, b) ==
    LET n == Len(s)
        long == n % blocks
        from == (b - 1) * (n \div blocks) + Min({b - 1, long})
    IN  SubSeq(s, from + 1, from + (n \div blocks) + (IF b <= long THEN 1 ELSE 0))

Persistence(s) ==
    LET blocks == Min({5, Max({3, Len(s) \div 3})})
        rises == {b \in 1..blocks - 1 :
                    LET early == Block(s, blocks, b)
                        late == Block(s, blocks, b + 1)
                    IN  Total(late) * Len(early) > Total(early) * Len(late)}
    IN  IF Len(s) < 6 THEN None ELSE (100 * Cardinality(rises)) \div (blocks - 1)

Acceleration(s) ==
    LET half == Len(s) \div 2
        early == Pct(s[half], s[1])
        late == Pct(Last(s), s[half + 1])
    IN  IF Len(s) < 6 \/ early = None \/ late = None THEN None ELSE late - early

-----------------------------------------------------------------------------
SpikeRatio == 5
SpikeMaxWidth == 2

\* The run of raised points around the peak.
Plateau(s, peak, typical2) ==
    LET raised(i) == 2 * s[i] >= 3 * typical2
    IN  {i \in DOMAIN s : i = peak \/
            /\ i < peak /\ \A j \in i..peak - 1 : raised(j)}
        \cup {i \in DOMAIN s : i > peak /\ \A j \in peak + 1..i : raised(j)}

\* A single tall bar: far above the typical level and above its neighbours,
\* narrow, and gone again or too new to tell.
IsSpike(series) ==
    LET s == Values(series)
        n == Len(s)
        peak == CHOOSE i \in DOMAIN s : \A j \in DOMAIN s : s[j] < s[i] \/ (s[j] = s[i] /\ i <= j)
        typical2 == Median2(RemoveAt(s, peak))
        neighbours == {s[i] : i \in {peak - 1, peak + 1} \cap DOMAIN s} \ {0}
        after == SubSeq(s, peak + 1, n)
    IN  /\ n >= 5
        /\ typical2 > 0
        /\ 2 * s[peak] >= SpikeRatio * typical2
        /\ neighbours # {} /\ s[peak] >= SpikeRatio * Min(neighbours)
        /\ Cardinality(Plateau(s, peak, typical2)) <= SpikeMaxWidth
        /\ (after = << >> \/ Median2(after) <= 2 * typical2)

\* The current month is always high, and the year as a whole did not move.
MinDaysForSeasonality == 400
Month(at) == (at \div 30) % 12

IsSeasonal(series) ==
    LET ok == Reported(series)
        now == Last(ok).at
        Of(pick(_)) == Values(SelectSeq(ok, pick))
        all == Values(ok)
        month == Of(LAMBDA p : Month(p.at) = Month(now))
        year == Of(LAMBDA p : p.at > now - 365)
        before == Of(LAMBDA p : p.at > now - 730 /\ p.at <= now - 365)
    IN  /\ Len(ok) >= 24
        /\ now - ok[1].at >= MinDaysForSeasonality
        /\ Total(all) > 0
        /\ 20 * Total(month) * Len(all) >= 23 * Total(all) * Len(month)
        /\ before # << >> /\ Total(before) # 0
        /\ 100 * Size(Total(year) - Total(before)) < 15 * Total(before)

-----------------------------------------------------------------------------
Direction(ok) ==
    LET g30 == WindowedGrowth(ok, 30)
        g90 == WindowedGrowth(ok, 90)
        whole == Pct(Last(ok).value, ok[1].value)
        r == IF g30 # None THEN g30 ELSE IF g90 # None THEN g90 ELSE whole
    IN  CASE r = None -> "unknown"
          [] r # None -> IF r > 5 THEN "rising" ELSE IF r < -5 THEN "falling" ELSE "flat"

\* The early level is the median of the first few readings.
Baseline(s) == Median2(SubSeq(s, 1, Max({1, Min({5, Len(s) \div 4})}))) \div 2

AnalyseGrowth(series) ==
    LET ok == Reported(series)
        s == Values(series)
    IN  [obs |-> Len(ok), missing |-> Len(series) - Len(ok),
         history |-> Last(ok).at - ok[1].at, lastAt |-> Last(ok).at,
         latest |-> Last(s), baseline |-> Baseline(s), moved |-> Last(s) - Baseline(s),
         priorMax |-> IF Len(s) > 1 THEN Max(Range(Front(s))) ELSE None,
         g30 |-> WindowedGrowth(ok, 30), g90 |-> WindowedGrowth(ok, 90),
         momentum |-> Momentum(ok), persistence |-> Persistence(s), accel |-> Acceleration(s),
         direction |-> Direction(ok), spike |-> IsSpike(series), seasonal |-> IsSeasonal(series)]
=============================================================================
