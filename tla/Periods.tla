------------------------------- MODULE Periods -------------------------------
(***************************************************************************)
(* The canonical period of a digest (digest_period in services/alerts.py)  *)
(* and what a run owes (due_digest_frequencies in workers/schedule.py), in *)
(* one timezone, as the hours pass.  Instants are UTC hours.  A local day  *)
(* is a number; day 0 is a Monday.  Offset[d] is the offset from UTC at    *)
(* the midnight that starts day d, and changes where the clocks do;        *)
(* NewYear[y] is the first of January of year y.                           *)
(***************************************************************************)
EXTENDS Integers, Sequences, FiniteSets, FiniteSetsExt

CONSTANTS Offset, NewYear,
          WeeklyDay,         \* DIGEST_WEEKLY_DAY, 0 is Monday
          FirstDay, LastDay  \* bounds: the first and the last local day

Days == 0..LastDay

\* datetime(year, month, day, tzinfo=tz): the wall-clock midnight.
Midnight(day) == 24 * day - Offset[day]

\* The midnights come in the order of the days, whatever the clocks do; what is
\* reported on the first day is not before day 0, and that is in the first year.
ASSUME PeriodsAssumption ==
    /\ FirstDay \in Nat /\ LastDay \in Nat /\ 7 <= FirstDay /\ FirstDay <= LastDay
    /\ Offset \in [Days -> Int]
    /\ \A d, e \in Days : d < e => Midnight(d) < Midnight(e)
    /\ NewYear \in Seq(Int) /\ NewYear # << >> /\ NewYear[1] <= 3
    /\ WeeklyDay \in 0..6

VARIABLES clock,
          ran,       \* has the pipeline run on this local day?
          reported   \* the periods of the digests so far
periodsVars == <<clock, ran, reported>>

-----------------------------------------------------------------------------
\* astimezone(tz).date()
LocalDay(now) == Max({d \in Days : Midnight(d) <= now})

Weekday(day) == day % 7
Monday(day) == day - Weekday(day)

\* The ISO week of a day is that of its Thursday: <<year, week>>.
Year(day) == Max({y \in DOMAIN NewYear : NewYear[y] <= day})
\* Mutant: the calendar year with the ISO week.
IsoWeekCalendar(day) ==
    LET thursday == Monday(day) + 3
    IN  <<Year(day), (thursday - NewYear[Year(thursday)]) \div 7 + 1>>
IsoWeek(day) ==
    LET thursday == Monday(day) + 3
    IN  <<Year(thursday), (thursday - NewYear[Year(thursday)]) \div 7 + 1>>

Frequencies == {"daily", "weekly"}

\* The first day of the period that is reported today, and the day after its last.
FirstOf(frequency, today) == IF frequency = "daily" THEN today - 1 ELSE Monday(today) - 7
LastOf(frequency, today) == IF frequency = "daily" THEN today ELSE Monday(today)

PeriodAt(frequency, today) ==
    LET first == FirstOf(frequency, today)
    IN  [frequency |-> frequency,
         key |-> IF frequency = "daily" THEN <<first>> ELSE IsoWeek(first),
         start |-> Midnight(first), end |-> Midnight(LastOf(frequency, today))]

\* Mutant: a day has 24 hours.
DigestPeriodHours(frequency, now) ==
    [PeriodAt(frequency, LocalDay(now)) EXCEPT
        !.end = Midnight(FirstOf(frequency, LocalDay(now))) + IF frequency = "daily" THEN 24 ELSE 168]
DigestPeriod(frequency, now) == PeriodAt(frequency, LocalDay(now))

DueDigestFrequencies(now) ==
    {"daily"} \cup IF Weekday(LocalDay(now)) = WeeklyDay THEN {"weekly"} ELSE {}

-----------------------------------------------------------------------------
PeriodsInit == clock = Midnight(FirstDay) /\ ran = FALSE /\ reported = {}

\* The pipeline, which beat starts on every local day.
Run ==
    /\ reported' = reported \cup {DigestPeriod(f, clock) : f \in DueDigestFrequencies(clock)}
    /\ ran' = TRUE /\ UNCHANGED clock

\* task_run_digests with the frequencies an administrator names.
RunManually(frequency) ==
    /\ reported' = reported \cup {DigestPeriod(frequency, clock)}
    /\ UNCHANGED <<clock, ran>>

HourPasses ==
    /\ clock < Midnight(LastDay)
    /\ LocalDay(clock + 1) # LocalDay(clock) => ran
    /\ clock' = clock + 1
    /\ ran' = (ran /\ LocalDay(clock + 1) = LocalDay(clock))
    /\ UNCHANGED reported

PeriodsNext == Run \/ HourPasses \/ \E f \in Frequencies : RunManually(f)

PeriodsSpec == PeriodsInit /\ [][PeriodsNext]_periodsVars

-----------------------------------------------------------------------------
\* The midnights at which a period of this frequency may begin.
Begins(frequency, day) == frequency = "weekly" => Weekday(day) = 0

\* The period a run reports follows the clock: it is over, and it is the last that
\* is; when another one takes its place, that begins where it ended and has another
\* key; also when a day has 23 or 25 hours and when the ISO year changes
\* (digest_period).
PeriodsTile ==
    [][clock' # clock => \A f \in Frequencies :
            LET old == DigestPeriod(f, clock)
                new == DigestPeriod(f, clock')
            IN  /\ new = old \/ (new.start = old.end /\ new.key # old.key)
                /\ new.end <= clock'
                /\ \A d \in Days : Begins(f, d) /\ Midnight(d) > new.end => clock' < Midnight(d)]_clock

\* No hour is reported twice and none is left out, whichever day of the week the
\* weekly digest is due and whatever is run by hand besides: two periods of a
\* frequency have different keys and do not overlap, and before any but the first
\* one the period that ends where it begins is reported as well, as one run each day
\* is enough for (due_digest_frequencies, digest_period, ux_digest_period).
ReportedInFull ==
    \A p, q \in reported : p.frequency = q.frequency /\ p # q =>
        /\ p.key # q.key
        /\ p.end <= q.start \/ q.end <= p.start
        /\ p.start < q.start =>
               \E r \in reported : r.frequency = q.frequency /\ r.end = q.start

-----------------------------------------------------------------------------
(* Why: the parts of the inductive invariant.                              *)

Today == LocalDay(clock)

ClockInv == clock \in Midnight(FirstDay)..Midnight(LastDay) /\ ran \in BOOLEAN

\* What is reported is the period of one of the days so far.
OnlyPast ==
    \A p \in reported : \E f \in Frequencies, d \in FirstDay..Today : p = PeriodAt(f, d)

\* On every day so far that had its run, what was due is reported.
AllDue ==
    \A d \in FirstDay..Today : d < Today \/ ran =>
        /\ PeriodAt("daily", d) \in reported
        /\ Weekday(d) = WeeklyDay => PeriodAt("weekly", d) \in reported

PeriodsInv == ClockInv /\ OnlyPast /\ AllDue
=============================================================================
