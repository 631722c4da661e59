-------------------------- MODULE AlgorithmsProofs ---------------------------
(***************************************************************************)
(* Four of the machines of MCAlgorithms: the periods of digests, the       *)
(* verdicts on a condition, the rate limiters and the topics, each in a    *)
(* part of its own.                                                        *)
(***************************************************************************)
EXTENDS Periods, Conditions, RateLimiter, Clusters, FiniteSetTheorems, WellFoundedInduction, TLAPS

\* A set of numbers that is not empty has a least one.
LEMMA LeastNumber ==
  ASSUME NEW S \in SUBSET Nat, S # {}
  PROVE  \E n \in S : \A m \in S : n <= m
  <1>1. IsWellFoundedOn(OpToRel(<, Nat), Nat)
    BY NatLessThanWellFounded
  <1>2. PICK n \in S : \A m \in S : ~(<<m, n>> \in OpToRel(<, Nat))
    BY <1>1, WFMin
  <1>3. \A m \in S : ~(m < n)
    BY <1>2 DEF OpToRel
  <1>4. n \in Nat /\ \A m \in S : m \in Nat
    OBVIOUS
  <1>5. \A m \in S : n <= m
    BY <1>3, <1>4
  <1> QED
    BY <1>5

-----------------------------------------------------------------------------
(***************************************************************************)
(* The digest periods tile the time line, whatever the timezone does and   *)
(* whichever day the weekly digest is due.                                 *)
(***************************************************************************)

\* A bounded one has a greatest, which is what Max chooses.
LEMMA GreatestNumber ==
  ASSUME NEW n \in Nat, NEW S \in SUBSET (0..n), S # {}
  PROVE  Max(S) \in S /\ \A m \in S : m <= Max(S)
  <1> DEFINE below == {k \in 0..n : n - k \in S}
  <1>1. below \in SUBSET Nat /\ below # {}
    <2>1. PICK m \in S : m \in 0..n
      OBVIOUS
    <2>2. n - m \in 0..n /\ n - (n - m) = m
      BY <2>1
    <2>3. n - m \in below
      BY <2>1, <2>2
    <2> QED
      BY <2>3
  <1>2. PICK k \in below : \A j \in below : k <= j
    BY <1>1, LeastNumber
  <1>3. k \in 0..n /\ n - k \in S
    BY <1>2
  <1>4. ASSUME NEW m \in S PROVE n - k >= m
    <2>1. m \in 0..n /\ n - m \in 0..n /\ n - (n - m) = m
      BY <1>4
    <2>2. n - m \in below
      BY <1>4, <2>1
    <2>3. k <= n - m
      BY <1>2, <2>2
    <2> QED
      BY <1>3, <2>1, <2>3
  <1>5. \E x \in S : \A y \in S : x >= y
    BY <1>3, <1>4
  <1>6. Max(S) \in S /\ \A y \in S : Max(S) >= y
    BY <1>5 DEF Max
  <1> QED
    BY <1>6

-----------------------------------------------------------------------------
(* The calendar.                                                           *)

\* Midnights are whole hours, in the order of the days.
LEMMA Midnights ==
  /\ \A d \in Days : Midnight(d) \in Int /\ d \in Int
  /\ \A d, e \in Days : d <= e <=> Midnight(d) <= Midnight(e)
  <1>1. \A d \in Days : Midnight(d) \in Int /\ d \in Int
    BY PeriodsAssumption DEF Days, Midnight
  <1>2. \A d, e \in Days : d < e => Midnight(d) < Midnight(e)
    BY PeriodsAssumption
  <1>3. ASSUME NEW d \in Days, NEW e \in Days PROVE d <= e <=> Midnight(d) <= Midnight(e)
    <2>1. d \in Int /\ e \in Int /\ Midnight(d) \in Int /\ Midnight(e) \in Int
      BY <1>1
    <2>2. CASE d < e
      BY <1>2, <2>1, <2>2
    <2>3. CASE e < d
      BY <1>2, <2>1, <2>3
    <2>4. CASE d = e
      BY <2>1, <2>4
    <2> QED
      BY <2>1, <2>2, <2>3, <2>4
  <1> QED
    BY <1>1, <1>3

\* The local day of an instant is the one whose midnight is the last before it.
LEMMA LocalDayIs ==
  ASSUME NEW now \in Int, now >= Midnight(0)
  PROVE  /\ LocalDay(now) \in Days /\ Midnight(LocalDay(now)) <= now
         /\ \A d \in Days : Midnight(d) <= now <=> d <= LocalDay(now)
  <1> DEFINE past == {d \in Days : Midnight(d) <= now}
  <1>1. LastDay \in Nat /\ past \in SUBSET (0..LastDay) /\ 0 \in past
    BY PeriodsAssumption DEF Days
  <1>2. Max(past) \in past /\ \A d \in past : d <= Max(past)
    BY <1>1, GreatestNumber
  <1>3. LocalDay(now) = Max(past)
    BY DEF LocalDay
  <1> HIDE DEF past
  <1>4. LocalDay(now) \in Days /\ Midnight(LocalDay(now)) <= now
    BY <1>2, <1>3 DEF past
  <1>5. ASSUME NEW d \in Days PROVE Midnight(d) <= now <=> d <= LocalDay(now)
    <2>1. Midnight(d) <= now => d <= LocalDay(now)
      BY <1>2, <1>3 DEF past
    <2>2. d <= LocalDay(now) => Midnight(d) <= Midnight(LocalDay(now))
      BY <1>4, Midnights
    <2>3. Midnight(d) \in Int /\ Midnight(LocalDay(now)) \in Int
      BY <1>4, Midnights
    <2> QED
      BY <1>4, <2>1, <2>2, <2>3
  <1> QED
    BY <1>4, <1>5

\* When an hour passes it is the same day or the next, which begins just then.
LEMMA NextHour ==
  ASSUME NEW now \in Int, now >= Midnight(0)
  PROVE  \/ LocalDay(now + 1) = LocalDay(now)
         \/ LocalDay(now + 1) = LocalDay(now) + 1 /\ Midnight(LocalDay(now + 1)) = now + 1
  <1> DEFINE d == LocalDay(now)
             e == LocalDay(now + 1)
  <1>1. now + 1 \in Int /\ Midnight(0) \in Int
    BY Midnights, PeriodsAssumption DEF Days
  <1>2. /\ d \in Days /\ Midnight(d) <= now
        /\ \A c \in Days : Midnight(c) <= now <=> c <= d
    BY LocalDayIs
  <1>3. /\ e \in Days /\ Midnight(e) <= now + 1
        /\ \A c \in Days : Midnight(c) <= now + 1 <=> c <= e
    BY <1>1, LocalDayIs
  <1> HIDE DEF d, e
  <1>4. /\ d \in Int /\ e \in Int /\ Midnight(d) \in Int /\ Midnight(e) \in Int
        /\ d \in 0..LastDay /\ e \in 0..LastDay /\ LastDay \in Nat
    BY <1>2, <1>3, Midnights, PeriodsAssumption DEF Days
  <1>5. d <= e
    BY <1>2, <1>3, <1>4
  <1>6. CASE d < e
    <2>1. d + 1 \in Days /\ d + 1 <= e /\ ~(d + 1 <= d)
      BY <1>4, <1>6 DEF Days
    <2>2. ~(Midnight(d + 1) <= now) /\ Midnight(d + 1) \in Int
      BY <1>2, <2>1, Midnights
    <2>3. Midnight(d + 1) <= Midnight(e)
      BY <1>3, <2>1, Midnights
    <2>4. Midnight(e) = now + 1 /\ Midnight(e) <= Midnight(d + 1)
      BY <1>3, <1>4, <2>2, <2>3
    <2>5. e <= d + 1
      BY <1>3, <2>1, <2>4, Midnights
    <2> QED
      BY <1>4, <2>1, <2>4, <2>5 DEF d, e
  <1> QED
    BY <1>4, <1>5, <1>6 DEF d, e

\* A week begins on its Monday.
LEMMA Mondays ==
  ASSUME NEW day \in Int
  PROVE  /\ Monday(day) \in Int /\ Weekday(day) \in 0..6 /\ Weekday(Monday(day)) = 0
         /\ Monday(day) <= day /\ day < Monday(day) + 7 /\ day = Monday(day) + Weekday(day)
         /\ \A d \in Int : Weekday(d) = 0 => (d <= day <=> d <= Monday(day))
  BY DEF Monday, Weekday

\* Two Mondays are weeks apart.
LEMMA MondaysApart ==
  ASSUME NEW a \in Int, NEW b \in Int, Weekday(a) = 0, Weekday(b) = 0
  PROVE  /\ Monday(a) = a /\ a < b => a <= b - 7
         /\ Weekday(a - 7) = 0 /\ Weekday(a + 7) = 0
  BY DEF Monday, Weekday

\* A day from the first Thursday on is in a year.
LEMMA YearIs ==
  ASSUME NEW day \in Int, day >= 3
  PROVE  Year(day) \in DOMAIN NewYear /\ NewYear[Year(day)] \in Int
  <1> DEFINE begun == {y \in DOMAIN NewYear : NewYear[y] <= day}
  <1>1. /\ DOMAIN NewYear = 1..Len(NewYear) /\ Len(NewYear) \in Nat /\ 1 \in DOMAIN NewYear
        /\ \A y \in DOMAIN NewYear : NewYear[y] \in Int
    BY PeriodsAssumption
  <1>2. begun \in SUBSET (0..Len(NewYear)) /\ begun # {}
    <2>1. NewYear[1] \in Int /\ NewYear[1] <= 3
      BY <1>1, PeriodsAssumption
    <2>2. 1 \in begun
      BY <1>1, <2>1
    <2> QED
      BY <1>1, <2>2
  <1>3. Max(begun) \in begun
    BY <1>1, <1>2, GreatestNumber
  <1> QED
    BY <1>1, <1>3 DEF Year

\* The ISO week names a week: no two Mondays have the same one.
LEMMA WeeksHaveNames ==
  ASSUME NEW a \in Nat, NEW b \in Nat, Weekday(a) = 0, Weekday(b) = 0, IsoWeek(a) = IsoWeek(b)
  PROVE  a = b
  <1>1. Monday(a) = a /\ Monday(b) = b
    BY DEF Monday, Weekday
  <1> DEFINE y == Year(a + 3)
             z == Year(b + 3)
  <1>2. NewYear[y] \in Int
    BY YearIs
  <1> DEFINE week(d, year) == ((d + 3) - NewYear[year]) \div 7 + 1
  <1>3. ASSUME NEW d \in Nat, Monday(d) = d
        PROVE  IsoWeek(d) = <<Year(d + 3), week(d, Year(d + 3))>>
    <2>1. IsoWeek(d) = <<Year(Monday(d) + 3), ((Monday(d) + 3) - NewYear[Year(Monday(d) + 3)]) \div 7 + 1>>
      BY DEF IsoWeek
    <2> QED
      BY <1>3, <2>1
  <1>4. <<y, week(a, y)>> = <<z, week(b, z)>>
    BY <1>1, <1>3
  <1> HIDE DEF y, z
  <1>5. y = z /\ week(a, y) = week(b, z)
    BY <1>4
  <1>6. ((a + 3) - NewYear[y]) \div 7 + 1 = ((b + 3) - NewYear[y]) \div 7 + 1
    BY <1>5
  <1>7. ASSUME NEW c \in Int, NEW s \in Nat, NEW t \in Nat, s % 7 = 0, t % 7 = 0,
               (s + 3 - c) \div 7 + 1 = (t + 3 - c) \div 7 + 1
        PROVE  s = t
    BY <1>7
  <1> QED
    BY <1>2, <1>6, <1>7 DEF Weekday

-----------------------------------------------------------------------------
(* The periods.                                                            *)

\* Where the clock stands.
LEMMA ClockIs ==
  ASSUME ClockInv
  PROVE  /\ clock \in Int /\ clock >= Midnight(0) /\ clock >= Midnight(FirstDay)
         /\ Today \in Days /\ Today \in Nat /\ Today >= FirstDay /\ Midnight(Today) <= clock
  <1>1. /\ 0 \in Days /\ FirstDay \in Days /\ LastDay \in Days /\ 0 <= FirstDay
        /\ FirstDay \in Nat /\ LastDay \in Nat
    BY PeriodsAssumption DEF Days
  <1>2. /\ Midnight(0) \in Int /\ Midnight(FirstDay) \in Int /\ Midnight(LastDay) \in Int
        /\ Midnight(0) <= Midnight(FirstDay)
    BY <1>1, Midnights
  <1>3. clock \in Int /\ clock >= Midnight(0) /\ clock >= Midnight(FirstDay)
    BY <1>2 DEF ClockInv
  <1>4. /\ Today \in Days /\ Midnight(Today) <= clock
        /\ Midnight(FirstDay) <= clock <=> FirstDay <= Today
    BY <1>1, <1>3, LocalDayIs DEF Today
  <1>5. Today \in Nat
    BY <1>1, <1>4 DEF Days
  <1> QED
    BY <1>3, <1>4, <1>5

\* The period of a day from the first on begins and ends on days of the table.
LEMMA PeriodIs ==
  ASSUME NEW f \in Frequencies, NEW d \in Days, d >= FirstDay
  PROVE  /\ FirstOf(f, d) \in Days /\ LastOf(f, d) \in Days /\ FirstOf(f, d) \in Nat /\ LastOf(f, d) \in Nat
         /\ FirstOf(f, d) < LastOf(f, d) /\ LastOf(f, d) <= d /\ LastOf(f, d) <= FirstOf(f, d) + 7
         /\ f = "weekly" => /\ LastOf(f, d) = Monday(d) /\ FirstOf(f, d) = Monday(d) - 7
                            /\ Weekday(FirstOf(f, d)) = 0 /\ Weekday(LastOf(f, d)) = 0
         /\ f = "daily" => LastOf(f, d) = d /\ FirstOf(f, d) = d - 1
         /\ PeriodAt(f, d).frequency = f
         /\ PeriodAt(f, d).key = (IF f = "daily" THEN <<FirstOf(f, d)>> ELSE IsoWeek(FirstOf(f, d)))
         /\ PeriodAt(f, d).start = Midnight(FirstOf(f, d)) /\ PeriodAt(f, d).end = Midnight(LastOf(f, d))
  <1>1. d \in Nat /\ LastDay \in Nat /\ d <= LastDay /\ d >= 7 /\ Days = 0..LastDay
    BY PeriodsAssumption DEF Days
  <1>2. Monday(d) \in Int /\ Monday(d) <= d /\ d < Monday(d) + 7 /\ Weekday(Monday(d)) = 0
    BY <1>1, Mondays
  <1>3. Weekday(7) = 0 /\ (7 <= d <=> 7 <= Monday(d))
    BY <1>1, Mondays DEF Weekday
  <1>4. Weekday(Monday(d) - 7) = 0
    BY <1>2, MondaysApart
  <1>5. /\ f = "weekly" => LastOf(f, d) = Monday(d) /\ FirstOf(f, d) = Monday(d) - 7
        /\ f = "daily" => LastOf(f, d) = d /\ FirstOf(f, d) = d - 1
        /\ f \in {"daily", "weekly"}
    BY DEF FirstOf, LastOf, Frequencies
  <1>6. /\ FirstOf(f, d) \in Days /\ LastOf(f, d) \in Days /\ FirstOf(f, d) \in Nat /\ LastOf(f, d) \in Nat
        /\ FirstOf(f, d) < LastOf(f, d) /\ LastOf(f, d) <= d /\ LastOf(f, d) <= FirstOf(f, d) + 7
    BY <1>1, <1>2, <1>3, <1>5
  <1>7. f = "weekly" => Weekday(FirstOf(f, d)) = 0 /\ Weekday(LastOf(f, d)) = 0
    BY <1>2, <1>4, <1>5
  <1>8. /\ PeriodAt(f, d).frequency = f
        /\ PeriodAt(f, d).key = (IF f = "daily" THEN <<FirstOf(f, d)>> ELSE IsoWeek(FirstOf(f, d)))
        /\ PeriodAt(f, d).start = Midnight(FirstOf(f, d)) /\ PeriodAt(f, d).end = Midnight(LastOf(f, d))
    BY DEF PeriodAt
  <1> QED
    BY <1>5, <1>6, <1>7, <1>8

\* Two days have the same period, or periods with different keys.
LEMMA KeysAreNames ==
  ASSUME NEW f \in Frequencies, NEW d \in Days, NEW e \in Days, d >= FirstDay, e >= FirstDay,
         PeriodAt(f, d).key = PeriodAt(f, e).key
  PROVE  FirstOf(f, d) = FirstOf(f, e)
  <1>1. CASE f = "daily"
    <2>1. PeriodAt(f, d).key = <<FirstOf(f, d)>>
      BY <1>1, PeriodIs
    <2>2. PeriodAt(f, e).key = <<FirstOf(f, e)>>
      BY <1>1, PeriodIs
    <2>3. <<FirstOf(f, d)>> = <<FirstOf(f, e)>>
      BY <2>1, <2>2
    <2> QED
      BY <2>3
  <1>2. CASE f = "weekly"
    <2>1. /\ PeriodAt(f, d).key = IsoWeek(FirstOf(f, d))
          /\ FirstOf(f, d) \in Nat /\ Weekday(FirstOf(f, d)) = 0
      BY <1>2, PeriodIs
    <2>2. /\ PeriodAt(f, e).key = IsoWeek(FirstOf(f, e))
          /\ FirstOf(f, e) \in Nat /\ Weekday(FirstOf(f, e)) = 0
      BY <1>2, PeriodIs
    <2>3. IsoWeek(FirstOf(f, d)) = IsoWeek(FirstOf(f, e))
      BY <2>1, <2>2
    <2> QED
      BY <2>1, <2>2, <2>3, WeeksHaveNames
  <1> QED
    BY <1>1, <1>2 DEF Frequencies

\* The first day says everything about the period.
LEMMA FirstDayDecides ==
  ASSUME NEW f \in Frequencies, NEW d \in Days, NEW e \in Days, d >= FirstDay, e >= FirstDay,
         FirstOf(f, d) = FirstOf(f, e)
  PROVE  PeriodAt(f, d) = PeriodAt(f, e) /\ LastOf(f, d) = LastOf(f, e)
  <1>1. LastOf(f, d) = LastOf(f, e)
    <2>1. d \in Int /\ e \in Int
      BY Midnights
    <2>2. Monday(d) \in Int /\ Monday(e) \in Int
      BY <2>1, Mondays
    <2> QED
      BY <2>1, <2>2, PeriodIs DEF Frequencies
  <1> QED
    BY <1>1 DEF PeriodAt

\* Of two periods the earlier ends before the later begins.
LEMMA PeriodsInOrder ==
  ASSUME NEW f \in Frequencies, NEW d \in Days, NEW e \in Days, d >= FirstDay, e >= FirstDay,
         FirstOf(f, d) < FirstOf(f, e)
  PROVE  LastOf(f, d) <= FirstOf(f, e) /\ d < e
  <1>1. d \in Int /\ e \in Int /\ d \in Nat /\ e \in Nat
    BY Midnights, PeriodsAssumption DEF Days
  <1>2. CASE f = "daily"
    <2>1. FirstOf(f, d) = d - 1 /\ LastOf(f, d) = d
      BY <1>2, PeriodIs
    <2>2. FirstOf(f, e) = e - 1
      BY <1>2, PeriodIs
    <2> QED
      BY <1>1, <2>1, <2>2
  <1>3. CASE f = "weekly"
    <2>1. Monday(d) \in Int /\ Weekday(Monday(d)) = 0 /\ d < Monday(d) + 7
      BY <1>1, Mondays
    <2>2. Monday(e) \in Int /\ Weekday(Monday(e)) = 0 /\ Monday(e) <= e
      BY <1>1, Mondays
    <2>3. FirstOf(f, d) = Monday(d) - 7 /\ LastOf(f, d) = Monday(d)
      BY <1>3, PeriodIs
    <2>4. FirstOf(f, e) = Monday(e) - 7
      BY <1>3, PeriodIs
    <2>5. Monday(d) < Monday(e)
      BY <2>1, <2>2, <2>3, <2>4
    <2>6. Monday(d) <= Monday(e) - 7
      BY <2>1, <2>2, <2>5 DEF Weekday
    <2> QED
      BY <1>1, <2>1, <2>2, <2>3, <2>4, <2>6
  <1> QED
    BY <1>2, <1>3 DEF Frequencies

-----------------------------------------------------------------------------
(* The inductive invariant.                                                *)

LEMMA PeriodsStart == PeriodsInit => PeriodsInv
  <1> SUFFICES ASSUME PeriodsInit PROVE PeriodsInv
    OBVIOUS
  <1>1. /\ FirstDay \in Days /\ LastDay \in Days /\ FirstDay <= LastDay
        /\ FirstDay \in Nat /\ clock = Midnight(FirstDay) /\ ran = FALSE /\ reported = {}
    BY PeriodsAssumption DEF PeriodsInit, Days
  <1>2. Midnight(FirstDay) \in Int /\ Midnight(LastDay) \in Int /\ Midnight(FirstDay) <= Midnight(LastDay)
    BY <1>1, Midnights
  <1>3. ClockInv
    <2>1. clock \in Midnight(FirstDay)..Midnight(LastDay)
      BY <1>1, <1>2
    <2>2. ran \in BOOLEAN
      BY <1>1
    <2> QED
      BY <2>1, <2>2 DEF ClockInv
  <1>4. Today <= FirstDay /\ Today \in Nat
    <2>1. Today \in Days /\ Today \in Nat /\ Midnight(Today) <= clock
      BY <1>3, ClockIs
    <2>2. Today <= FirstDay
      BY <1>1, <2>1, Midnights
    <2> QED
      BY <2>1, <2>2
  <1>5. OnlyPast
    BY <1>1 DEF OnlyPast
  <1>6. AllDue
    BY <1>1, <1>4 DEF AllDue
  <1> QED
    BY <1>3, <1>5, <1>6 DEF PeriodsInv

LEMMA RunKeeps ==
  ASSUME PeriodsInv, Run
  PROVE  PeriodsInv'
  <1>1. ClockInv /\ OnlyPast /\ AllDue /\ Today \in Nat /\ Today >= FirstDay /\ FirstDay \in Nat
    BY ClockIs, PeriodsAssumption DEF PeriodsInv
  <1>2. /\ clock' = clock /\ ran' = TRUE /\ Today' = Today
        /\ reported' = reported \cup {PeriodAt(f, Today) : f \in DueDigestFrequencies(clock)}
    BY DEF Run, Today, DigestPeriod
  <1>3. /\ DueDigestFrequencies(clock) \subseteq Frequencies /\ "daily" \in DueDigestFrequencies(clock)
        /\ Weekday(Today) = WeeklyDay => "weekly" \in DueDigestFrequencies(clock)
    BY DEF DueDigestFrequencies, Frequencies, Today
  <1>4. ClockInv'
    BY <1>1, <1>2 DEF ClockInv
  <1>5. OnlyPast'
    <2> SUFFICES ASSUME NEW p \in reported'
                 PROVE  \E f \in Frequencies, d \in FirstDay..Today : p = PeriodAt(f, d)
      BY <1>2 DEF OnlyPast
    <2>1. CASE p \in reported
      BY <1>1, <2>1 DEF OnlyPast
    <2>2. CASE p \notin reported
      <3>1. PICK f \in DueDigestFrequencies(clock) : p = PeriodAt(f, Today)
        BY <1>2, <2>2
      <3>2. f \in Frequencies /\ Today \in FirstDay..Today
        BY <1>1, <1>3
      <3> QED
        BY <3>1, <3>2
    <2> QED
      BY <2>1, <2>2
  <1>6. AllDue'
    <2> SUFFICES ASSUME NEW d \in FirstDay..Today
                 PROVE  /\ PeriodAt("daily", d) \in reported'
                        /\ Weekday(d) = WeeklyDay => PeriodAt("weekly", d) \in reported'
      BY <1>2 DEF AllDue
    <2>1. CASE d = Today
      BY <1>2, <1>3, <2>1
    <2>2. CASE d # Today
      <3>1. d < Today
        BY <1>1, <2>2
      <3> QED
        BY <1>1, <1>2, <3>1 DEF AllDue
    <2> QED
      BY <2>1, <2>2
  <1> QED
    BY <1>4, <1>5, <1>6 DEF PeriodsInv

LEMMA RunManuallyKeeps ==
  ASSUME PeriodsInv, NEW f \in Frequencies, RunManually(f)
  PROVE  PeriodsInv'
  <1>1. ClockInv /\ OnlyPast /\ AllDue /\ Today \in Nat /\ Today >= FirstDay /\ FirstDay \in Nat
    BY ClockIs, PeriodsAssumption DEF PeriodsInv
  <1>2. /\ clock' = clock /\ ran' = ran /\ Today' = Today
        /\ reported' = reported \cup {PeriodAt(f, Today)}
    BY DEF RunManually, Today, DigestPeriod
  <1>3. Today \in FirstDay..Today
    BY <1>1
  <1>4. ClockInv'
    BY <1>1, <1>2 DEF ClockInv
  <1>5. OnlyPast'
    BY <1>1, <1>2, <1>3 DEF OnlyPast
  <1>6. AllDue'
    BY <1>1, <1>2 DEF AllDue
  <1> QED
    BY <1>4, <1>5, <1>6 DEF PeriodsInv

\* The clock after an hour.
LEMMA HourIs ==
  ASSUME ClockInv, HourPasses
  PROVE  /\ ClockInv' /\ clock' = clock + 1
         /\ Today' = Today \/ (Today' = Today + 1 /\ ran)
         /\ ran' => Today' = Today /\ ran
  <1>1. clock \in Int /\ clock >= Midnight(0) /\ clock >= Midnight(FirstDay)
    BY ClockIs
  <1>2. Midnight(FirstDay) \in Int /\ Midnight(LastDay) \in Int /\ ran \in BOOLEAN
    BY Midnights, PeriodsAssumption DEF Days, ClockInv
  <1>3. clock' = clock + 1 /\ clock < Midnight(LastDay) /\ ran' \in BOOLEAN
    BY DEF HourPasses
  <1>4. ClockInv'
    BY <1>1, <1>2, <1>3 DEF ClockInv
  <1>5. Today' = LocalDay(clock + 1) /\ Today = LocalDay(clock)
    BY <1>3 DEF Today
  <1>6. Today' = Today \/ Today' = Today + 1
    BY <1>1, <1>5, NextHour
  <1>7. (Today' # Today => ran) /\ (ran' => Today' = Today /\ ran)
    BY <1>5 DEF HourPasses
  <1> QED
    BY <1>3, <1>4, <1>6, <1>7

LEMMA HourKeeps ==
  ASSUME PeriodsInv, HourPasses
  PROVE  PeriodsInv'
  <1>1. ClockInv /\ OnlyPast /\ AllDue /\ Today \in Nat /\ FirstDay \in Nat
    BY ClockIs, PeriodsAssumption DEF PeriodsInv
  <1>2. /\ ClockInv' /\ reported' = reported
        /\ Today' = Today \/ (Today' = Today + 1 /\ ran)
        /\ ran' => Today' = Today /\ ran
    BY <1>1, HourIs DEF HourPasses
  <1>3. OnlyPast'
    <2>1. FirstDay..Today \subseteq FirstDay..Today'
      BY <1>1, <1>2
    <2> QED
      BY <1>1, <1>2, <2>1 DEF OnlyPast
  <1>4. AllDue'
    <2> SUFFICES ASSUME NEW d \in FirstDay..Today', d < Today' \/ ran'
                 PROVE  /\ PeriodAt("daily", d) \in reported
                        /\ Weekday(d) = WeeklyDay => PeriodAt("weekly", d) \in reported
      BY <1>2 DEF AllDue
    <2>1. d \in FirstDay..Today /\ (d < Today \/ ran)
      BY <1>1, <1>2
    <2> QED
      BY <1>1, <2>1 DEF AllDue
  <1> QED
    BY <1>2, <1>3, <1>4 DEF PeriodsInv

LEMMA PeriodsStep == PeriodsInv /\ [PeriodsNext]_periodsVars => PeriodsInv'
  <1> SUFFICES ASSUME PeriodsInv, [PeriodsNext]_periodsVars PROVE PeriodsInv'
    OBVIOUS
  <1>1. CASE Run
    BY <1>1, RunKeeps
  <1>2. CASE HourPasses
    BY <1>2, HourKeeps
  <1>3. CASE \E f \in Frequencies : RunManually(f)
    BY <1>3, RunManuallyKeeps
  <1>4. CASE UNCHANGED periodsVars
    BY <1>4 DEF periodsVars, PeriodsInv, ClockInv, OnlyPast, AllDue, Today
  <1> QED
    BY <1>1, <1>2, <1>3, <1>4 DEF PeriodsNext

\* The inductive invariant holds in every state.
THEOREM PeriodsInvariant == PeriodsSpec => []PeriodsInv
  <1>1. PeriodsInit => PeriodsInv
    BY PeriodsStart
  <1>2. PeriodsInv /\ [PeriodsNext]_periodsVars => PeriodsInv'
    BY PeriodsStep
  <1> QED
    BY <1>1, <1>2, PTL DEF PeriodsSpec

-----------------------------------------------------------------------------
(* What follows from it.                                                   *)

\* Two reported periods, and what is reported besides.
LEMMA TwoReports ==
  ASSUME PeriodsInv, NEW f \in Frequencies, NEW d \in FirstDay..Today, NEW e \in FirstDay..Today,
         PeriodAt(f, d) \in reported, FirstOf(f, d) < FirstOf(f, e)
  PROVE  /\ PeriodAt(f, d).end <= PeriodAt(f, e).start
         /\ PeriodAt(f, d).start < PeriodAt(f, e).start
         /\ \E r \in reported : r.frequency = f /\ r.end = PeriodAt(f, e).start
  <1>1. /\ Today \in Nat /\ FirstDay \in Nat /\ Today \in Days /\ LastDay \in Nat /\ WeeklyDay \in 0..6
        /\ AllDue
    BY ClockIs, PeriodsAssumption DEF PeriodsInv
  <1>2. /\ d \in Days /\ e \in Days /\ d >= FirstDay /\ e >= FirstDay /\ d \in Nat /\ e \in Nat
        /\ d <= Today /\ e <= Today
    BY <1>1 DEF Days
  <1>3. LastOf(f, d) <= FirstOf(f, e) /\ d < e
    BY <1>2, PeriodsInOrder
  <1>4. /\ FirstOf(f, d) \in Days /\ LastOf(f, d) \in Days /\ FirstOf(f, d) \in Nat /\ LastOf(f, d) \in Nat
        /\ PeriodAt(f, d).start = Midnight(FirstOf(f, d)) /\ PeriodAt(f, d).end = Midnight(LastOf(f, d))
        /\ PeriodAt(f, d).frequency = f
    BY <1>2, PeriodIs
  <1>5. /\ FirstOf(f, e) \in Days /\ FirstOf(f, e) \in Nat
        /\ PeriodAt(f, e).start = Midnight(FirstOf(f, e))
    BY <1>2, PeriodIs
  <1>6. PeriodAt(f, d).end <= PeriodAt(f, e).start
    BY <1>3, <1>4, <1>5, Midnights
  <1>7. PeriodAt(f, d).start < PeriodAt(f, e).start
    BY <1>4, <1>5, PeriodsAssumption
  <1>8. \E r \in reported : r.frequency = f /\ r.end = PeriodAt(f, e).start
    <2>1. CASE f = "daily"
      <3>1. FirstOf(f, e) = e - 1
        BY <1>2, <2>1, PeriodIs
      <3>2. e - 1 \in FirstDay..Today /\ e - 1 < Today /\ e - 1 \in Days /\ e - 1 >= FirstDay
        BY <1>1, <1>2, <1>3 DEF Days
      <3>3. PeriodAt(f, e - 1) \in reported
        BY <1>1, <2>1, <3>2 DEF AllDue
      <3>4. /\ PeriodAt(f, e - 1).frequency = f /\ PeriodAt(f, e - 1).end = Midnight(LastOf(f, e - 1))
            /\ LastOf(f, e - 1) = e - 1
        BY <2>1, <3>2, PeriodIs
      <3> QED
        BY <1>5, <3>1, <3>3, <3>4
    <2>2. CASE f = "weekly"
      <3>1. Monday(d) \in Int /\ Weekday(Monday(d)) = 0 /\ d < Monday(d) + 7
        BY <1>2, Mondays
      <3>2. Monday(e) \in Int /\ Weekday(Monday(e)) = 0 /\ Monday(e) <= e
        BY <1>2, Mondays
      <3>3. FirstOf(f, e) = Monday(e) - 7
        BY <1>2, <2>2, PeriodIs
      <3>4. LastOf(f, d) = Monday(d)
        BY <1>2, <2>2, PeriodIs
      <3>5. CASE Monday(d) = Monday(e) - 7
        BY <1>4, <1>5, <3>3, <3>4, <3>5
      <3>6. CASE Monday(d) # Monday(e) - 7
        <4> DEFINE s == Monday(e) - 7 + WeeklyDay
        <4>1. Monday(d) < Monday(e) - 7
          BY <1>3, <3>1, <3>2, <3>3, <3>4, <3>6
        <4>2. Monday(d) + 7 <= Monday(e) - 7
          BY <3>1, <3>2, <4>1 DEF Weekday
        <4>3. s \in FirstDay..Today /\ s < Today /\ s \in Int
          BY <1>1, <1>2, <3>1, <3>2, <4>2
        <4>4. Weekday(s) = WeeklyDay /\ Monday(s) = Monday(e) - 7
          <5>1. ASSUME NEW m \in Int, Weekday(m) = 0
                PROVE  Weekday(m - 7 + WeeklyDay) = WeeklyDay /\ Monday(m - 7 + WeeklyDay) = m - 7
            BY <1>1, <5>1 DEF Weekday, Monday
          <5> QED
            BY <3>2, <5>1
        <4> HIDE DEF s
        <4>5. PeriodAt("weekly", s) \in reported
          BY <1>1, <4>3, <4>4 DEF AllDue
        <4>6. s \in Days /\ s >= FirstDay
          BY <1>1, <4>3 DEF Days
        <4>7. /\ PeriodAt(f, s).frequency = f /\ PeriodAt(f, s).end = Midnight(LastOf(f, s))
              /\ LastOf(f, s) = Monday(s)
          BY <2>2, <4>6, PeriodIs
        <4> QED
          BY <1>5, <2>2, <3>3, <4>4, <4>5, <4>7
      <3> QED
        BY <3>5, <3>6
    <2> QED
      BY <2>1, <2>2 DEF Frequencies
  <1> QED
    BY <1>6, <1>7, <1>8

LEMMA ReportsAreFull == PeriodsInv => ReportedInFull
  <1> SUFFICES ASSUME PeriodsInv, NEW p \in reported, NEW q \in reported,
                      p.frequency = q.frequency, p # q
               PROVE  /\ p.key # q.key
                      /\ p.end <= q.start \/ q.end <= p.start
                      /\ p.start < q.start =>
                             \E r \in reported : r.frequency = q.frequency /\ r.end = q.start
    BY DEF ReportedInFull
  <1>1. OnlyPast /\ FirstDay \in Nat /\ Today \in Nat /\ Today \in Days /\ LastDay \in Nat
    BY ClockIs, PeriodsAssumption DEF PeriodsInv
  <1>2. PICK f \in Frequencies, d \in FirstDay..Today : p = PeriodAt(f, d)
    BY <1>1 DEF OnlyPast
  <1>3. PICK g \in Frequencies, e \in FirstDay..Today : q = PeriodAt(g, e)
    BY <1>1 DEF OnlyPast
  <1>4. d \in Days /\ e \in Days /\ d >= FirstDay /\ e >= FirstDay
    BY <1>1 DEF Days
  <1>5. f = g
    <2>1. p.frequency = f
      BY <1>2, <1>4, PeriodIs
    <2>2. q.frequency = g
      BY <1>3, <1>4, PeriodIs
    <2> QED
      BY <2>1, <2>2
  <1>6. FirstOf(f, d) \in Nat /\ p.frequency = f /\ p.start = Midnight(FirstOf(f, d)) /\ FirstOf(f, d) \in Days
    BY <1>2, <1>4, PeriodIs
  <1>7. FirstOf(f, e) \in Nat /\ q.frequency = f /\ q.start = Midnight(FirstOf(f, e)) /\ FirstOf(f, e) \in Days
    BY <1>3, <1>4, <1>5, PeriodIs
  <1>8. FirstOf(f, d) # FirstOf(f, e)
    BY <1>2, <1>3, <1>4, <1>5, FirstDayDecides
  <1>9. p.key # q.key
    BY <1>2, <1>3, <1>4, <1>5, <1>8, KeysAreNames
  <1>10. CASE FirstOf(f, d) < FirstOf(f, e)
    <2>1. /\ p.end <= q.start
          /\ \E r \in reported : r.frequency = f /\ r.end = q.start
      BY <1>2, <1>3, <1>5, <1>10, TwoReports
    <2> QED
      BY <1>7, <1>9, <2>1
  <1>11. CASE FirstOf(f, e) < FirstOf(f, d)
    <2>1. q.end <= p.start /\ q.start < p.start
      BY <1>2, <1>3, <1>5, <1>11, TwoReports
    <2>2. p.start \in Int /\ q.start \in Int
      BY <1>6, <1>7, Midnights
    <2> QED
      BY <1>9, <2>1, <2>2
  <1> QED
    BY <1>6, <1>7, <1>8, <1>10, <1>11

\* The period a run reports, seen from a day.
PeriodFits(f, thisDay, now) ==
    /\ PeriodAt(f, thisDay).end <= now
    /\ \A d \in Days : Begins(f, d) /\ Midnight(d) > PeriodAt(f, thisDay).end => now < Midnight(d)

LEMMA PeriodIsTheLast ==
  ASSUME NEW f \in Frequencies, NEW now \in Int, now >= Midnight(0), LocalDay(now) >= FirstDay
  PROVE  PeriodFits(f, LocalDay(now), now)
  <1> DEFINE thisDay == LocalDay(now)
  <1>1. thisDay \in Days /\ Midnight(thisDay) <= now /\ \A d \in Days : Midnight(d) <= now <=> d <= thisDay
    BY LocalDayIs
  <1>2. thisDay >= FirstDay
    OBVIOUS
  <1> HIDE DEF thisDay
  <1>3. /\ LastOf(f, thisDay) \in Days /\ LastOf(f, thisDay) <= thisDay
        /\ PeriodAt(f, thisDay).end = Midnight(LastOf(f, thisDay))
    BY <1>1, <1>2, PeriodIs
  <1>4. Midnight(LastOf(f, thisDay)) <= now
    BY <1>1, <1>3
  <1>5. ASSUME NEW d \in Days, Begins(f, d), Midnight(d) > Midnight(LastOf(f, thisDay))
        PROVE  now < Midnight(d)
    <2>1. d \in Int /\ Midnight(d) \in Int /\ thisDay \in Int /\ LastOf(f, thisDay) \in Int
          /\ Midnight(LastOf(f, thisDay)) \in Int
      BY <1>1, <1>3, Midnights
    <2>2. ~(d <= LastOf(f, thisDay))
      BY <1>3, <1>5, <2>1, Midnights
    <2>3. ~(d <= thisDay)
      <3>1. CASE f = "daily"
        <4>1. LastOf(f, thisDay) = thisDay
          BY <1>1, <1>2, <3>1, PeriodIs
        <4> QED
          BY <2>2, <4>1
      <3>2. CASE f = "weekly"
        <4>1. LastOf(f, thisDay) = Monday(thisDay)
          BY <1>1, <1>2, <3>2, PeriodIs
        <4>2. Weekday(d) = 0
          BY <1>5, <3>2 DEF Begins
        <4>3. d <= thisDay <=> d <= Monday(thisDay)
          BY <2>1, <4>2, Mondays
        <4> QED
          BY <2>2, <4>1, <4>3
      <3> QED
        BY <3>1, <3>2 DEF Frequencies
    <2>4. ~(Midnight(d) <= now)
      BY <1>1, <2>3
    <2> QED
      BY <2>1, <2>4
  <1> QED
    BY <1>3, <1>4, <1>5 DEF PeriodFits, thisDay

\* Tomorrow's period is thisDay's, or the next one.
LEMMA PeriodOfTomorrow ==
  ASSUME NEW f \in Frequencies, NEW d \in Days, d + 1 \in Days, d >= FirstDay
  PROVE  \/ PeriodAt(f, d + 1) = PeriodAt(f, d)
         \/ /\ PeriodAt(f, d + 1).start = PeriodAt(f, d).end
            /\ PeriodAt(f, d + 1).key # PeriodAt(f, d).key
  <1>1. d \in Int /\ d + 1 >= FirstDay /\ d + 1 \in Int
    BY Midnights, PeriodsAssumption
  <1>2. FirstOf(f, d + 1) = FirstOf(f, d) \/ FirstOf(f, d + 1) = LastOf(f, d)
    <2>1. CASE f = "daily"
      BY <1>1, <2>1 DEF FirstOf, LastOf
    <2>2. CASE f = "weekly"
      <3>1. Monday(d + 1) = Monday(d) \/ Monday(d + 1) = Monday(d) + 7
        BY <1>1 DEF Monday, Weekday
      <3>2. Monday(d) \in Int
        BY <1>1, Mondays
      <3> QED
        BY <2>2, <3>1, <3>2 DEF FirstOf, LastOf
    <2> QED
      BY <2>1, <2>2 DEF Frequencies
  <1>3. CASE FirstOf(f, d + 1) = FirstOf(f, d)
    BY <1>1, <1>3, FirstDayDecides
  <1>4. CASE FirstOf(f, d + 1) = LastOf(f, d)
    <2>1. /\ PeriodAt(f, d).end = Midnight(LastOf(f, d))
          /\ FirstOf(f, d) \in Nat /\ LastOf(f, d) \in Nat /\ FirstOf(f, d) < LastOf(f, d)
      BY PeriodIs
    <2>2. PeriodAt(f, d + 1).start = Midnight(FirstOf(f, d + 1))
      BY DEF PeriodAt
    <2>3. FirstOf(f, d + 1) # FirstOf(f, d)
      BY <1>4, <2>1
    <2>4. PeriodAt(f, d + 1).key # PeriodAt(f, d).key
      BY <1>1, <2>3, KeysAreNames
    <2> QED
      BY <1>4, <2>1, <2>2, <2>4
  <1> QED
    BY <1>2, <1>3, <1>4

TileStep ==
    clock' # clock => \A f \in Frequencies :
        LET old == DigestPeriod(f, clock)
            new == DigestPeriod(f, clock')
        IN  /\ new = old \/ (new.start = old.end /\ new.key # old.key)
            /\ new.end <= clock'
            /\ \A d \in Days : Begins(f, d) /\ Midnight(d) > new.end => clock' < Midnight(d)

LEMMA TilesStep == PeriodsInv /\ [PeriodsNext]_periodsVars => [TileStep]_clock
  <1> SUFFICES ASSUME PeriodsInv, [PeriodsNext]_periodsVars, clock' # clock
               PROVE  TileStep
    OBVIOUS
  <1>1. HourPasses /\ ClockInv
    BY DEF PeriodsNext, Run, RunManually, periodsVars, PeriodsInv
  <1>2. /\ ClockInv' /\ clock' = clock + 1
        /\ Today' = Today \/ Today' = Today + 1
    BY <1>1, HourIs
  <1>3. clock \in Int /\ clock >= Midnight(0) /\ Today \in Days /\ Today >= FirstDay
    BY <1>1, ClockIs
  <1>4. clock' \in Int /\ clock' >= Midnight(0) /\ Today' \in Days
    <2>1. Midnight(0) \in Int
      BY Midnights, PeriodsAssumption DEF Days
    <2>2. clock' \in Int /\ clock' >= Midnight(0)
      BY <1>2, <1>3, <2>1
    <2> QED
      BY <2>2, LocalDayIs DEF Today
  <1>5. Today' >= FirstDay
    BY <1>2, <1>3, Midnights, PeriodsAssumption
  <1> SUFFICES ASSUME NEW f \in Frequencies
               PROVE  /\ \/ PeriodAt(f, Today') = PeriodAt(f, Today)
                         \/ /\ PeriodAt(f, Today').start = PeriodAt(f, Today).end
                            /\ PeriodAt(f, Today').key # PeriodAt(f, Today).key
                      /\ PeriodFits(f, Today', clock')
    BY DEF TileStep, DigestPeriod, Today, PeriodFits
  <1>6. \/ PeriodAt(f, Today') = PeriodAt(f, Today)
        \/ /\ PeriodAt(f, Today').start = PeriodAt(f, Today).end
           /\ PeriodAt(f, Today').key # PeriodAt(f, Today).key
    <2>1. CASE Today' = Today
      BY <2>1
    <2>2. CASE Today' = Today + 1
      BY <1>3, <1>4, <2>2, PeriodOfTomorrow
    <2> QED
      BY <1>2, <2>1, <2>2
  <1>7. PeriodFits(f, Today', clock')
    BY <1>4, <1>5, PeriodIsTheLast DEF Today
  <1> QED
    BY <1>6, <1>7

\* Whatever the timezone does, no hour is reported twice and none is left out
\* between the first report and the last, also with runs by hand
\* (due_digest_frequencies, digest_period).
THEOREM EverythingReported == PeriodsSpec => []ReportedInFull
  <1>1. PeriodsInv => ReportedInFull
    BY ReportsAreFull
  <1> QED
    BY <1>1, PeriodsInvariant, PTL

\* The period a run reports is over, is the last that is, and the next one begins
\* where it ends under another key (digest_period).
THEOREM PeriodsAlwaysTile == PeriodsSpec => PeriodsTile
  <1>1. PeriodsInv /\ [PeriodsNext]_periodsVars => [TileStep]_clock
    BY TilesStep
  <1>2. PeriodsSpec => [][TileStep]_clock
    BY <1>1, PeriodsInvariant, PTL DEF PeriodsSpec
  <1> QED
    BY <1>2 DEF PeriodsTile, TileStep

-----------------------------------------------------------------------------
(***************************************************************************)
(* A new reading moves the verdict on a condition its own way, for every   *)
(* condition, limit of rows, and order in which readings arrive.           *)
(***************************************************************************)

-----------------------------------------------------------------------------
(* Readings in the order of their times.                                   *)

Readings == [signal : Signals, at : 0..LastReading, value : Amounts \cup {Nothing}]

\* Of some readings one is the oldest and one the latest.
LEMMA OldestAndLatest ==
  ASSUME NEW rows \in SUBSET Readings, rows # {}
  PROVE  /\ \E o \in rows : \A p \in rows : o.at <= p.at
         /\ \E o \in rows : \A p \in rows : p.at <= o.at
  <1> DEFINE times == {o.at : o \in rows}
             left == {LastReading - o.at : o \in rows}
  <1>1. LastReading \in Nat /\ \A o \in rows : o.at \in 0..LastReading
    BY ConditionsAssumption DEF Readings
  <1>2. times \in SUBSET Nat /\ times # {} /\ left \in SUBSET Nat /\ left # {}
    BY <1>1
  <1>3. PICK n \in times : \A m \in times : n <= m
    BY <1>2, LeastNumber
  <1>4. PICK k \in left : \A j \in left : k <= j
    BY <1>2, LeastNumber
  <1>5. PICK o \in rows : o.at = n
    BY <1>3
  <1>6. PICK q \in rows : LastReading - q.at = k
    BY <1>4
  <1>7. \A p \in rows : o.at <= p.at
    BY <1>3, <1>5
  <1>8. \A p \in rows : p.at <= q.at
    <2> SUFFICES ASSUME NEW p \in rows PROVE p.at <= q.at
      OBVIOUS
    <2>1. LastReading - q.at <= LastReading - p.at
      BY <1>4, <1>6
    <2>2. q.at \in 0..LastReading /\ p.at \in 0..LastReading
      BY <1>1
    <2> QED
      BY <1>1, <2>1, <2>2
  <1> QED
    BY <1>5, <1>6, <1>7, <1>8

\* How the rows that are read change when a reading arrives: not at all, by that
\* reading, or by that reading in place of the oldest.
Grows(rows, after, new) == new \notin rows /\ after = rows \cup {new}
Replaces(rows, after, new, old) ==
    /\ old \in rows /\ new \notin rows /\ after = (rows \ {old}) \cup {new}
    /\ \A o \in after : old.at <= o.at
Moved(rows, after, new) ==
    after = rows \/ Grows(rows, after, new) \/ \E old \in rows : Replaces(rows, after, new, old)

\* Every way the rows may be read after comes from a way they may be read before.
LEMMA RowsBefore ==
  ASSUME NEW found \in SUBSET Readings, IsFiniteSet(found), NEW new \in Readings, new \notin found,
         NEW after \in ObservationsFor(found \cup {new})
  PROVE  \E rows \in ObservationsFor(found) : Moved(rows, after, new)
  <1>1. /\ RowLimit \in Nat /\ RowLimit > 0
        /\ IsFiniteSet(after) /\ Cardinality(after) \in Nat /\ IsFiniteSet(found \cup {new})
    BY FS_AddElement, FS_Subset, FS_CardinalityType, ConditionsAssumption DEF ObservationsFor
  <1>2. /\ after \subseteq found \cup {new} /\ Cardinality(after) <= RowLimit
        /\ after # found \cup {new} => Cardinality(after) = RowLimit
        /\ \A o \in after, p \in (found \cup {new}) \ after : p.at <= o.at
    BY DEF ObservationsFor
  <1>3. CASE new \notin after
    <2>1. after \in ObservationsFor(found)
      BY <1>2, <1>3 DEF ObservationsFor
    <2> QED
      BY <2>1 DEF Moved
  <1> DEFINE kept == after \ {new}
  <1>4. CASE new \in after
    <2>1. kept \subseteq found /\ IsFiniteSet(kept) /\ Cardinality(kept) = Cardinality(after) - 1
          /\ after = kept \cup {new} /\ new \notin kept
      BY <1>1, <1>2, <1>4, FS_RemoveElement
    <2>2. CASE kept = found
      <3>1. found \in ObservationsFor(found)
        BY <1>1, <1>2, <2>1, <2>2 DEF ObservationsFor
      <3>2. Grows(found, after, new)
        BY <2>1, <2>2 DEF Grows
      <3> QED
        BY <3>1, <3>2 DEF Moved
    <2>3. CASE kept # found
      <3>1. PICK old \in found \ kept : \A p \in found \ kept : p.at <= old.at
        <4>1. found \ kept \in SUBSET Readings /\ found \ kept # {}
          BY <2>1, <2>3
        <4> QED
          BY <4>1, OldestAndLatest
      <3> DEFINE rows == kept \cup {old}
      <3>2. Cardinality(after) = RowLimit /\ \A o \in after, p \in found \ kept : p.at <= o.at
        BY <1>2, <2>1, <2>3
      <3>3. Cardinality(rows) = RowLimit
        <4>1. old \notin kept
          BY <3>1
        <4>2. Cardinality(kept \cup {old}) = Cardinality(kept) + 1
          BY <2>1, <4>1, FS_AddElement
        <4> QED
          BY <1>1, <2>1, <3>2, <4>2
      <3>4. \A o \in rows, p \in found \ rows : p.at <= o.at
        BY <2>1, <3>1, <3>2
      <3>5. rows \in ObservationsFor(found)
        BY <1>1, <2>1, <3>1, <3>3, <3>4 DEF ObservationsFor
      <3>6. Replaces(rows, after, new, old)
        BY <2>1, <3>1, <3>2 DEF Replaces
      <3> QED
        BY <3>1, <3>5, <3>6 DEF Moved
    <2> QED
      BY <2>2, <2>3
  <1> QED
    BY <1>3, <1>4

\* Every way the rows may be read before leads to a way they may be read after.
LEMMA RowsAfter ==
  ASSUME NEW found \in SUBSET Readings, IsFiniteSet(found), NEW new \in Readings, new \notin found,
         NEW rows \in ObservationsFor(found)
  PROVE  \E after \in ObservationsFor(found \cup {new}) : Moved(rows, after, new)
  <1>1. /\ RowLimit \in Nat /\ RowLimit > 0
        /\ IsFiniteSet(rows) /\ Cardinality(rows) \in Nat /\ IsFiniteSet(found \cup {new})
    BY FS_AddElement, FS_Subset, FS_CardinalityType, ConditionsAssumption DEF ObservationsFor
  <1>2. /\ rows \subseteq found /\ Cardinality(rows) <= RowLimit
        /\ rows # found => Cardinality(rows) = RowLimit
        /\ \A o \in rows, p \in found \ rows : p.at <= o.at
        /\ new \notin rows
    BY DEF ObservationsFor
  <1>3. CASE Cardinality(rows) < RowLimit
    <2>1. rows = found /\ Cardinality(found \cup {new}) = Cardinality(rows) + 1
      BY <1>1, <1>2, <1>3, FS_AddElement
    <2>2. found \cup {new} \in ObservationsFor(found \cup {new})
      BY <1>1, <1>3, <2>1 DEF ObservationsFor
    <2>3. Grows(rows, found \cup {new}, new)
      BY <1>2, <2>1 DEF Grows
    <2> QED
      BY <2>2, <2>3 DEF Moved
  <1>4. CASE Cardinality(rows) = RowLimit
    <2>1. rows # {}
      BY <1>1, <1>4, FS_EmptySet
    <2>2. PICK old \in rows : \A o \in rows : old.at <= o.at
      <3>1. rows \in SUBSET Readings
        BY <1>2
      <3> QED
        BY <2>1, <3>1, OldestAndLatest
    <2>3. old.at \in Int /\ new.at \in Int /\ \A o \in found : o.at \in Int
      BY <1>2, <2>2, ConditionsAssumption DEF Readings
    <2>4. CASE new.at <= old.at
      <3>1. \A o \in rows : new.at <= o.at
        BY <1>2, <2>2, <2>3, <2>4
      <3>2. rows \in ObservationsFor(found \cup {new})
        BY <1>1, <1>2, <1>4, <3>1 DEF ObservationsFor
      <3> QED
        BY <3>2 DEF Moved
    <2>5. CASE old.at < new.at
      <3> DEFINE after == (rows \ {old}) \cup {new}
      <3>1. Cardinality(rows \ {old}) = RowLimit - 1 /\ IsFiniteSet(rows \ {old})
        BY <1>1, <1>4, <2>2, FS_RemoveElement
      <3>2. Cardinality(after) = RowLimit
        <4>1. Cardinality((rows \ {old}) \cup {new}) = Cardinality(rows \ {old}) + 1
          BY <1>2, <3>1, FS_AddElement
        <4> QED
          BY <1>1, <3>1, <4>1
      <3>3. \A o \in after : old.at <= o.at
        BY <2>2, <2>3, <2>5
      <3>4. \A o \in after, p \in (found \cup {new}) \ after : p.at <= o.at
        <4> SUFFICES ASSUME NEW o \in after, NEW p \in (found \cup {new}) \ after PROVE p.at <= o.at
          OBVIOUS
        <4>1. p = old \/ p \in found \ rows
          OBVIOUS
        <4>2. CASE p = old
          BY <3>3, <4>2
        <4>3. CASE p \in found \ rows /\ o \in rows
          BY <1>2, <4>3
        <4>4. CASE p \in found \ rows /\ o = new
          <5>1. p.at <= old.at
            BY <1>2, <2>2, <4>4
          <5> QED
            BY <2>3, <2>5, <4>4, <5>1
        <4> QED
          BY <4>1, <4>2, <4>3, <4>4
      <3>5. after \in ObservationsFor(found \cup {new})
        BY <1>1, <1>2, <3>2, <3>4 DEF ObservationsFor
      <3>6. Replaces(rows, after, new, old)
        BY <1>2, <2>2, <3>3 DEF Replaces
      <3> QED
        BY <2>2, <3>5, <3>6 DEF Moved
    <2>6. old \in found
      BY <1>1, <1>2, <2>2
    <2>7. old.at \in Int /\ new.at \in Int
      BY <2>3, <2>6
    <2>8. new.at <= old.at \/ old.at < new.at
      BY <2>7
    <2> QED
      BY <2>4, <2>5, <2>8
  <1> QED
    BY <1>1, <1>2, <1>3, <1>4

-----------------------------------------------------------------------------
(* The verdict on the rows that are read.                                   *)

\* There is always a way to read the rows, and a latest one of them.
LEMMA LatestExists ==
  ASSUME NEW found \in SUBSET Readings, found # {}, IsFiniteSet(found), NEW rows \in ObservationsFor(found)
  PROVE  rows # {} /\ rows \in SUBSET Readings /\ IsFiniteSet(rows) /\ Latest(rows) # {}
  <1>1. rows \subseteq found /\ IsFiniteSet(rows) /\ (rows # found => Cardinality(rows) = RowLimit)
    BY FS_Subset DEF ObservationsFor
  <1>2. rows # {}
    BY <1>1, FS_EmptySet, ConditionsAssumption
  <1>3. rows \in SUBSET Readings
    BY <1>1
  <1> QED
    BY <1>1, <1>2, <1>3, OldestAndLatest DEF Latest

\* The latest rows after a reading arrived: it, or one that was among the latest.
LEMMA LatestMoves ==
  ASSUME NEW rows \in SUBSET Readings, NEW after, NEW new \in Readings,
         Grows(rows, after, new) \/ \E old \in rows : Replaces(rows, after, new, old)
  PROVE  /\ new \in after
         /\ \A o \in Latest(after) : o = new \/ o \in Latest(rows)
         /\ \A o \in Latest(rows) : new \in Latest(after) \/ o \in Latest(after)
  <1>1. new.at \in Int /\ \A o \in rows : o.at \in Int
    BY ConditionsAssumption DEF Readings
  <1>2. CASE Grows(rows, after, new)
    BY <1>1, <1>2 DEF Grows, Latest
  <1>3. ASSUME NEW old \in rows, Replaces(rows, after, new, old)
        PROVE  /\ new \in after
               /\ \A o \in Latest(after) : o = new \/ o \in Latest(rows)
               /\ \A o \in Latest(rows) : new \in Latest(after) \/ o \in Latest(after)
    <2>1. after = (rows \ {old}) \cup {new} /\ \A o \in after : old.at <= o.at
      BY <1>3 DEF Replaces
    <2>2. \A o \in Latest(after) : o = new \/ o \in Latest(rows)
      BY <2>1 DEF Latest
    <2>3. ASSUME NEW o \in Latest(rows) PROVE new \in Latest(after) \/ o \in Latest(after)
      <3>1. o \in rows /\ (\A p \in rows : p.at <= o.at) /\ o.at \in Int /\ old.at \in Int /\ old.at <= new.at
        BY <1>1, <2>1 DEF Latest
      <3>2. CASE o = old
        <4>1. \A p \in after : p.at <= new.at
          BY <1>1, <2>1, <3>1, <3>2
        <4> QED
          BY <2>1, <4>1 DEF Latest
      <3>3. CASE o # old /\ new.at <= o.at
        BY <2>1, <3>1, <3>3 DEF Latest
      <3>4. CASE o.at < new.at
        <4>1. \A p \in after : p.at <= new.at
          BY <1>1, <2>1, <3>1, <3>4
        <4> QED
          BY <2>1, <4>1 DEF Latest
      <3> QED
        BY <1>1, <3>1, <3>2, <3>3, <3>4
    <2> QED
      BY <2>1, <2>2, <2>3
  <1> QED
    BY <1>2, <1>3

\* How many rows there are and how many pass, after a reading arrived.
LEMMA Tallies ==
  ASSUME NEW rows \in SUBSET Readings, IsFiniteSet(rows), NEW after, NEW new \in Readings, NEW condition,
         Grows(rows, after, new) \/ \E old \in rows : Replaces(rows, after, new, old)
  PROVE  LET p == Cardinality(Passing(condition, rows))
             q == Cardinality(Passing(condition, after))
             n == Cardinality(rows)
             m == Cardinality(after)
             passes == Passes(condition.comparator, new.value, condition.value)
         IN  /\ p \in Nat /\ q \in Nat /\ n \in Nat /\ m \in Nat
             /\ passes => (q >= p /\ (m = n \/ (m = n + 1 /\ q = p + 1)))
             /\ ~passes => (q <= p /\ (m = n \/ m = n + 1))
  <1> DEFINE P == Passing(condition, rows)
             Q == Passing(condition, after)
             passes == Passes(condition.comparator, new.value, condition.value)
  <1>1. IsFiniteSet(P) /\ Cardinality(P) \in Nat /\ Cardinality(rows) \in Nat
    BY FS_Subset, FS_CardinalityType DEF Passing
  <1>2. CASE Grows(rows, after, new)
    <2>1. new \notin rows /\ after = rows \cup {new}
      BY <1>2 DEF Grows
    <2>2. Cardinality(after) = Cardinality(rows) + 1 /\ IsFiniteSet(after)
      BY <2>1, FS_AddElement
    <2>3. CASE passes
      <3>1. Q = P \cup {new} /\ new \notin P
        BY <2>1, <2>3 DEF Passing
      <3>2. Cardinality(P \cup {new}) = Cardinality(P) + 1
        BY <1>1, <3>1, FS_AddElement
      <3> QED
        BY <1>1, <2>2, <2>3, <3>1, <3>2
    <2>4. CASE ~passes
      <3>1. Q = P
        BY <2>1, <2>4 DEF Passing
      <3> QED
        BY <1>1, <2>2, <2>4, <3>1
    <2> QED
      BY <2>3, <2>4
  <1>3. ASSUME NEW old \in rows, Replaces(rows, after, new, old)
        PROVE  /\ Cardinality(Q) \in Nat /\ Cardinality(after) = Cardinality(rows)
               /\ passes => Cardinality(Q) >= Cardinality(P)
               /\ ~passes => Cardinality(Q) <= Cardinality(P)
    <2>1. new \notin rows /\ after = (rows \ {old}) \cup {new}
      BY <1>3 DEF Replaces
    <2>2. Cardinality(after) = Cardinality(rows)
      <3>1. IsFiniteSet(rows \ {old}) /\ Cardinality(rows \ {old}) = Cardinality(rows) - 1
        BY FS_RemoveElement
      <3>2. Cardinality((rows \ {old}) \cup {new}) = Cardinality(rows \ {old}) + 1
        BY <2>1, <3>1, FS_AddElement
      <3> QED
        BY <1>1, <2>1, <3>1, <3>2
    <2>3. /\ IsFiniteSet(P \ {old}) /\ Cardinality(P \ {old}) \in Nat
          /\ Cardinality(P \ {old}) <= Cardinality(P) /\ Cardinality(P) <= Cardinality(P \ {old}) + 1
      <3>1. CASE old \in P
        <4>1. IsFiniteSet(P \ {old}) /\ Cardinality(P \ {old}) = Cardinality(P) - 1
          BY <1>1, <3>1, FS_RemoveElement
        <4>2. Cardinality(P \ {old}) \in Nat
          BY <4>1, FS_CardinalityType
        <4> HIDE DEF P
        <4> QED
          BY <1>1, <4>1, <4>2
      <3>2. CASE old \notin P
        <4>1. P \ {old} = P
          BY <3>2
        <4> QED
          BY <1>1, <4>1
      <3> QED
        BY <3>1, <3>2
    <2>4. CASE passes
      <3>1. Q = (P \ {old}) \cup {new} /\ new \notin P \ {old}
        BY <2>1, <2>4 DEF Passing
      <3>2. Cardinality((P \ {old}) \cup {new}) = Cardinality(P \ {old}) + 1
        BY <2>3, <3>1, FS_AddElement
      <3> QED
        BY <1>1, <2>2, <2>3, <2>4, <3>1, <3>2
    <2>5. CASE ~passes
      <3>1. Q = P \ {old}
        BY <2>1, <2>5 DEF Passing
      <3> QED
        BY <1>1, <2>2, <2>3, <2>5, <3>1
    <2> QED
      BY <2>4, <2>5
  <1> QED
    BY <1>1, <1>2, <1>3

\* A reading that passes: the verdict on the rows is no lower, if the latest of them is
\* as it was or that reading.
LEMMA PassingRaises ==
  ASSUME NEW rows \in SUBSET Readings, IsFiniteSet(rows), NEW after, NEW new \in Readings, NEW condition,
         Grows(rows, after, new) \/ \E old \in rows : Replaces(rows, after, new, old),
         Passes(condition.comparator, new.value, condition.value),
         NEW o \in rows, NEW latest \in after, latest = o \/ latest = new
  PROVE  Rank(Outcome(condition, rows, o)) <= Rank(Outcome(condition, after, latest))
  <1> DEFINE P == Passing(condition, rows)
             Q == Passing(condition, after)
  <1>1. /\ Cardinality(P) \in Nat /\ Cardinality(Q) \in Nat
        /\ Cardinality(rows) \in Nat /\ Cardinality(after) \in Nat
        /\ Cardinality(Q) >= Cardinality(P)
        /\ Cardinality(after) # Cardinality(rows) =>
              (Cardinality(after) = Cardinality(rows) + 1 /\ Cardinality(Q) = Cardinality(P) + 1)
    <2>1. /\ Cardinality(P) \in Nat /\ Cardinality(Q) \in Nat
          /\ Cardinality(rows) \in Nat /\ Cardinality(after) \in Nat
      BY Tallies
    <2>2. Cardinality(Q) >= Cardinality(P)
      BY Tallies
    <2>3. Cardinality(after) # Cardinality(rows) => Cardinality(after) = Cardinality(rows) + 1
      BY Tallies
    <2>4. Cardinality(after) # Cardinality(rows) => Cardinality(Q) = Cardinality(P) + 1
      BY Tallies
    <2> QED
      BY <2>1, <2>2, <2>3, <2>4
  <1>2. new \in Q
    BY DEF Grows, Replaces, Passing
  <1>3. o \in P => latest \in Q
    BY <1>2 DEF Passing
  <1>4. 10 * Cardinality(P) >= 6 * Cardinality(rows) => 10 * Cardinality(Q) >= 6 * Cardinality(after)
    <2> HIDE DEF P, Q
    <2> QED
      BY <1>1
  <1>5. CASE Outcome(condition, rows, o) = "met"
    <2>1. o \in P /\ 10 * Cardinality(P) >= 6 * Cardinality(rows)
      BY <1>5 DEF Outcome
    <2>2. Outcome(condition, after, latest) = "met"
      BY <1>3, <1>4, <2>1 DEF Outcome
    <2> QED
      BY <1>5, <2>2 DEF Rank
  <1>6. CASE Outcome(condition, rows, o) # "met"
    <2>1. Outcome(condition, rows, o) \in {"partially_met", "failed"}
      BY <1>6 DEF Outcome
    <2>2. Outcome(condition, after, latest) \in {"met", "partially_met"}
      BY <1>2 DEF Outcome
    <2> QED
      BY <2>1, <2>2 DEF Rank
  <1> QED
    BY <1>5, <1>6

\* A reading that fails: the verdict on the rows is no higher.
LEMMA FailingLowers ==
  ASSUME NEW rows \in SUBSET Readings, IsFiniteSet(rows), NEW after, NEW new \in Readings, NEW condition,
         Grows(rows, after, new) \/ \E old \in rows : Replaces(rows, after, new, old),
         ~Passes(condition.comparator, new.value, condition.value),
         NEW o \in rows, NEW latest \in after, latest = o \/ latest = new
  PROVE  Rank(Outcome(condition, after, latest)) <= Rank(Outcome(condition, rows, o))
  <1> DEFINE P == Passing(condition, rows)
             Q == Passing(condition, after)
  <1>1. /\ Cardinality(P) \in Nat /\ Cardinality(Q) \in Nat
        /\ Cardinality(rows) \in Nat /\ Cardinality(after) \in Nat
        /\ Cardinality(Q) <= Cardinality(P)
        /\ Cardinality(after) = Cardinality(rows) \/ Cardinality(after) = Cardinality(rows) + 1
    BY Tallies
  <1>2. Q \subseteq P /\ new \notin Q
    BY DEF Grows, Replaces, Passing
  <1>3. 10 * Cardinality(Q) >= 6 * Cardinality(after) => 10 * Cardinality(P) >= 6 * Cardinality(rows)
    <2> HIDE DEF P, Q
    <2> QED
      BY <1>1
  <1>4. CASE Outcome(condition, after, latest) = "met"
    <2>1. latest \in Q /\ 10 * Cardinality(Q) >= 6 * Cardinality(after)
      BY <1>4 DEF Outcome
    <2>2. o \in P
      BY <1>2, <2>1
    <2>3. Outcome(condition, rows, o) = "met"
      BY <1>3, <2>1, <2>2 DEF Outcome
    <2> QED
      BY <1>4, <2>3 DEF Rank
  <1>5. CASE Outcome(condition, after, latest) = "partially_met"
    <2>1. Q # {}
      BY <1>5 DEF Outcome
    <2>2. Outcome(condition, rows, o) \in {"met", "partially_met"}
      BY <1>2, <2>1 DEF Outcome
    <2> QED
      BY <1>5, <2>2 DEF Rank
  <1>6. CASE Outcome(condition, after, latest) = "failed"
    <2>1. Outcome(condition, rows, o) \in {"met", "partially_met", "failed"}
      BY DEF Outcome
    <2> QED
      BY <1>6, <2>1 DEF Rank
  <1> QED
    BY <1>4, <1>5, <1>6 DEF Outcome

-----------------------------------------------------------------------------
(* The verdicts a check may reach.                                         *)

VerdictsOf(condition, found) ==
    UNION {{Outcome(condition, rows, o) : o \in Latest(rows)} : rows \in ObservationsFor(found)}

\* A reading that passes moves no verdict down.
LEMMA PassingVerdicts ==
  ASSUME NEW found \in SUBSET Readings, found # {}, IsFiniteSet(found),
         NEW new \in Readings, new \notin found, NEW condition,
         Passes(condition.comparator, new.value, condition.value)
  PROVE  NoLower(VerdictsOf(condition, found), VerdictsOf(condition, found \cup {new}))
  <1> DEFINE both == found \cup {new}
  <1>1. ASSUME NEW rows \in ObservationsFor(found), NEW after \in ObservationsFor(both),
               Moved(rows, after, new)
        PROVE  /\ \A o \in Latest(rows) : \E l \in Latest(after) :
                      Rank(Outcome(condition, rows, o)) <= Rank(Outcome(condition, after, l))
               /\ \A l \in Latest(after) : \E o \in Latest(rows) :
                      Rank(Outcome(condition, rows, o)) <= Rank(Outcome(condition, after, l))
    <2>1. rows \in SUBSET Readings /\ IsFiniteSet(rows) /\ Latest(rows) # {}
      BY LatestExists
    <2>2. CASE after = rows
      <3>1. \A o \in Latest(rows) : Rank(Outcome(condition, rows, o)) \in 1..4
        BY DEF Rank, Outcome
      <3>2. \A o \in Latest(rows) : Rank(Outcome(condition, rows, o)) <= Rank(Outcome(condition, rows, o))
        BY <3>1
      <3> QED
        BY <2>2, <3>2
    <2>3. CASE Grows(rows, after, new) \/ \E old \in rows : Replaces(rows, after, new, old)
      <3>1. \A o \in rows, l \in after : l = o \/ l = new =>
              Rank(Outcome(condition, rows, o)) <= Rank(Outcome(condition, after, l))
        BY <2>1, <2>3, PassingRaises
      <3>2. /\ \A l \in Latest(after) : l \in after /\ (l = new \/ l \in Latest(rows))
            /\ \A o \in Latest(rows) : o \in rows /\ (new \in Latest(after) \/ o \in Latest(after))
        BY <2>1, <2>3, LatestMoves DEF Latest
      <3> QED
        BY <2>1, <3>1, <3>2
    <2> QED
      BY <1>1, <2>2, <2>3 DEF Moved
  <1>2. \A rows \in ObservationsFor(found) : \E after \in ObservationsFor(both) : Moved(rows, after, new)
    BY RowsAfter
  <1>3. \A after \in ObservationsFor(both) : \E rows \in ObservationsFor(found) : Moved(rows, after, new)
    BY RowsBefore
  <1>4. ASSUME NEW rows \in ObservationsFor(found), NEW o \in Latest(rows)
        PROVE  \E w \in VerdictsOf(condition, both) : Rank(Outcome(condition, rows, o)) <= Rank(w)
    <2>1. PICK after \in ObservationsFor(both) : Moved(rows, after, new)
      BY <1>2
    <2>2. PICK l \in Latest(after) : Rank(Outcome(condition, rows, o)) <= Rank(Outcome(condition, after, l))
      BY <1>1, <2>1
    <2>3. Outcome(condition, after, l) \in VerdictsOf(condition, both)
      BY <2>1, <2>2 DEF VerdictsOf
    <2> QED
      BY <2>2, <2>3
  <1>5. \A v \in VerdictsOf(condition, found) : \E w \in VerdictsOf(condition, both) : Rank(v) <= Rank(w)
    BY <1>4 DEF VerdictsOf
  <1>6. \A w \in VerdictsOf(condition, both) : \E v \in VerdictsOf(condition, found) : Rank(v) <= Rank(w)
    BY <1>1, <1>3 DEF VerdictsOf
  <1> QED
    BY <1>5, <1>6 DEF NoLower

\* A reading that fails moves no verdict up.
LEMMA FailingVerdicts ==
  ASSUME NEW found \in SUBSET Readings, found # {}, IsFiniteSet(found),
         NEW new \in Readings, new \notin found, NEW condition,
         ~Passes(condition.comparator, new.value, condition.value)
  PROVE  NoLower(VerdictsOf(condition, found \cup {new}), VerdictsOf(condition, found))
  <1> DEFINE both == found \cup {new}
  <1>1. ASSUME NEW rows \in ObservationsFor(found), NEW after \in ObservationsFor(both),
               Moved(rows, after, new)
        PROVE  /\ \A o \in Latest(rows) : \E l \in Latest(after) :
                      Rank(Outcome(condition, after, l)) <= Rank(Outcome(condition, rows, o))
               /\ \A l \in Latest(after) : \E o \in Latest(rows) :
                      Rank(Outcome(condition, after, l)) <= Rank(Outcome(condition, rows, o))
    <2>1. rows \in SUBSET Readings /\ IsFiniteSet(rows) /\ Latest(rows) # {}
      BY LatestExists
    <2>2. CASE after = rows
      <3>1. \A o \in Latest(rows) : Rank(Outcome(condition, rows, o)) \in 1..4
        BY DEF Rank, Outcome
      <3>2. \A o \in Latest(rows) : Rank(Outcome(condition, rows, o)) <= Rank(Outcome(condition, rows, o))
        BY <3>1
      <3> QED
        BY <2>2, <3>2
    <2>3. CASE Grows(rows, after, new) \/ \E old \in rows : Replaces(rows, after, new, old)
      <3>1. \A o \in rows, l \in after : l = o \/ l = new =>
              Rank(Outcome(condition, after, l)) <= Rank(Outcome(condition, rows, o))
        BY <2>1, <2>3, FailingLowers
      <3>2. /\ \A l \in Latest(after) : l \in after /\ (l = new \/ l \in Latest(rows))
            /\ \A o \in Latest(rows) : o \in rows /\ (new \in Latest(after) \/ o \in Latest(after))
        BY <2>1, <2>3, LatestMoves DEF Latest
      <3> QED
        BY <2>1, <3>1, <3>2
    <2> QED
      BY <1>1, <2>2, <2>3 DEF Moved
  <1>2. \A rows \in ObservationsFor(found) : \E after \in ObservationsFor(both) : Moved(rows, after, new)
    BY RowsAfter
  <1>3. \A after \in ObservationsFor(both) : \E rows \in ObservationsFor(found) : Moved(rows, after, new)
    BY RowsBefore
  <1> QED
    BY <1>1, <1>2, <1>3 DEF NoLower, VerdictsOf

\* Where nothing was found before, a reading that arrives is read, alone.
LEMMA FirstReading ==
  ASSUME NEW new \in Readings, NEW condition
  PROVE  VerdictsOf(condition, {new}) # {} /\ VerdictsOf(condition, {new}) \subseteq {"met", "partially_met", "failed"}
  <1>1. Cardinality({new}) = 1 /\ IsFiniteSet({new}) /\ {new} \in SUBSET Readings
    BY FS_Singleton
  <1>2. {new} \in ObservationsFor({new})
    BY <1>1, ConditionsAssumption DEF ObservationsFor
  <1>3. PICK l \in Latest({new}) : TRUE
    BY <1>1, <1>2, LatestExists
  <1>4. Outcome(condition, {new}, l) \in VerdictsOf(condition, {new})
    BY <1>2, <1>3 DEF VerdictsOf
  <1> QED
    BY SMTT(30), <1>4 DEF VerdictsOf, Outcome

\* A reading that fails and is newer than all others ends "met".
LEMMA NewestFails ==
  ASSUME NEW found \in SUBSET Readings, IsFiniteSet(found), NEW new \in Readings, NEW condition,
         ~Passes(condition.comparator, new.value, condition.value),
         \A o \in found : o.at < new.at
  PROVE  "met" \notin VerdictsOf(condition, found \cup {new})
  <1> DEFINE both == found \cup {new}
  <1> SUFFICES ASSUME NEW rows \in ObservationsFor(both), NEW l \in Latest(rows)
               PROVE  Outcome(condition, rows, l) # "met"
    BY DEF VerdictsOf
  <1>1. both \in SUBSET Readings /\ both # {} /\ IsFiniteSet(both)
    BY FS_AddElement
  <1>2. rows # {}
    BY <1>1, LatestExists
  <1>3. /\ rows \subseteq both
        /\ \A o \in rows, p \in both \ rows : p.at <= o.at
    BY DEF ObservationsFor
  <1>4. new.at \in Int /\ \A o \in found : o.at \in Int
    BY ConditionsAssumption DEF Readings
  <1>5. new \in rows
    BY <1>2, <1>3, <1>4
  <1>6. l = new
    BY <1>3, <1>4, <1>5 DEF Latest
  <1> QED
    BY <1>6 DEF Outcome, Passing

-----------------------------------------------------------------------------
\* What is stored: finitely many readings, one for each signal and time, none of a day
\* that has not come.
MeasuredInv ==
    /\ today \in 0..LastReading
    /\ measured \in SUBSET Readings /\ IsFiniteSet(measured)
    /\ \A o \in measured : o.at <= today
    /\ \A o, p \in measured : o.signal = p.signal /\ o.at = p.at => o = p

\* No reading is stored twice, and none before its day (ux_signal_obs_signal_time).
THEOREM MeasuredInvariant == ConditionsSpec => []MeasuredInv
  <1>1. ConditionsInit => MeasuredInv
    BY ConditionsAssumption, FS_EmptySet DEF ConditionsInit, MeasuredInv
  <1>2. MeasuredInv /\ [ConditionsNext]_conditionsVars => MeasuredInv'
    <2> SUFFICES ASSUME MeasuredInv, [ConditionsNext]_conditionsVars PROVE MeasuredInv'
      OBVIOUS
    <2> USE DEF MeasuredInv
    <2>1. ASSUME NEW s \in Signals, NEW at \in 0..today, NEW v \in Amounts \cup {Nothing}, Observe(s, at, v)
          PROVE  MeasuredInv'
      <3> DEFINE new == [signal |-> s, at |-> at, value |-> v]
      <3>1. measured' = measured \cup {new} /\ today' = today
        BY <2>1 DEF Observe
      <3>2. at \in 0..LastReading /\ at <= today
        BY ConditionsAssumption
      <3>3. new \in Readings /\ new.signal = s /\ new.at = at
        BY <3>2 DEF Readings
      <3>4. IsFiniteSet(measured')
        BY <3>1, FS_AddElement
      <3>5. \A o \in measured : o.signal # s \/ o.at # at
        BY <2>1 DEF Observe
      <3> HIDE DEF new
      <3> QED
        BY <3>1, <3>2, <3>3, <3>4, <3>5
    <2>2. CASE DayPasses
      <3>1. today' = today + 1 /\ today < LastReading /\ measured' = measured
        BY <2>2 DEF DayPasses
      <3>2. today' \in 0..LastReading
        BY <3>1, ConditionsAssumption
      <3>3. \A o \in measured : o.at <= today'
        <4> SUFFICES ASSUME NEW o \in measured PROVE o.at <= today'
          OBVIOUS
        <4>1. o.at \in Int /\ o.at <= today
          BY ConditionsAssumption DEF Readings
        <4> QED
          BY <3>1, <4>1, ConditionsAssumption
      <3> QED
        BY <3>1, <3>2, <3>3
    <2>3. CASE UNCHANGED conditionsVars
      BY <2>3 DEF conditionsVars
    <2> QED
      BY <2>1, <2>2, <2>3 DEF ConditionsNext
  <1> QED
    BY <1>1, <1>2, PTL DEF ConditionsSpec

\* Whatever rows the database returns first, however many there are and in whatever
\* order they arrive: a reading moves the verdict its own way (check_condition).
THEOREM ReadingsAreMonotone == ConditionsSpec => NewReadingMonotone
  <1> DEFINE since == today - WindowOf(Condition)
             found == Found(measured, Condition.type, since)
             step == \A new \in measured' \ measured :
                LET used == Found({new}, Condition.type, since) # {} /\ Checkable(Condition)
                    newest == \A o \in measured : o.at < new.at
                IN  IF ~used THEN Verdicts' = Verdicts
                    ELSE IF Passes(Condition.comparator, new.value, Condition.value) THEN NoLower(Verdicts, Verdicts')
                    ELSE /\ newest => "met" \notin Verdicts'
                         /\ Verdicts # {"unknown"} => NoLower(Verdicts', Verdicts)
  <1>1. MeasuredInv /\ [ConditionsNext]_conditionsVars => [step]_measured
    <2> SUFFICES ASSUME MeasuredInv, ConditionsNext, measured' # measured,
                        NEW new \in measured' \ measured
                 PROVE  LET used == Found({new}, Condition.type, since) # {} /\ Checkable(Condition)
                            newest == \A o \in measured : o.at < new.at
                        IN  IF ~used THEN Verdicts' = Verdicts
                            ELSE IF Passes(Condition.comparator, new.value, Condition.value)
                                 THEN NoLower(Verdicts, Verdicts')
                            ELSE /\ newest => "met" \notin Verdicts'
                                 /\ Verdicts # {"unknown"} => NoLower(Verdicts', Verdicts)
      BY DEF conditionsVars
    <2> DEFINE unused == Found({new}, Condition.type, since) = {}
               passes == Passes(Condition.comparator, new.value, Condition.value)
               newest == \A o \in measured : o.at < new.at
               both == found \cup {new}
    <2>1. PICK s \in Signals, at \in 0..today, v \in Amounts \cup {Nothing} : Observe(s, at, v)
      BY DEF ConditionsNext, DayPasses
    <2>2. measured' = measured \cup {new} /\ today' = today /\ new = [signal |-> s, at |-> at, value |-> v]
      BY <2>1 DEF Observe
    <2>3. new \in Readings
      <3>1. at \in 0..LastReading
        BY ConditionsAssumption DEF MeasuredInv
      <3> QED
        BY <2>2, <3>1 DEF Readings
    <2>4. found \in SUBSET Readings /\ IsFiniteSet(found) /\ new \notin found
      BY FS_Subset DEF MeasuredInv, Found
    <2>5. Found(measured', Condition.type, since) = IF unused THEN found ELSE both
      BY <2>2 DEF Found
    <2>6. Verdicts = IF ~Checkable(Condition) \/ found = {} THEN {"unknown"} ELSE VerdictsOf(Condition, found)
      BY DEF Verdicts, CheckCondition, VerdictsOf
    <2>7. Verdicts' = IF ~Checkable(Condition) \/ Found(measured', Condition.type, since) = {}
                      THEN {"unknown"} ELSE VerdictsOf(Condition, Found(measured', Condition.type, since))
      BY <2>2 DEF Verdicts, CheckCondition, VerdictsOf
    <2>8. CASE unused \/ ~Checkable(Condition)
      <3>1. Verdicts' = Verdicts
        BY <2>5, <2>6, <2>7, <2>8
      <3> QED
        BY <2>8, <3>1
    <2>9. CASE ~unused /\ Checkable(Condition) /\ passes
      <3>1. Verdicts' = VerdictsOf(Condition, both)
        BY <2>5, <2>7, <2>9
      <3>2. CASE found # {}
        <4>1. Verdicts = VerdictsOf(Condition, found)
          BY <2>6, <2>9, <3>2
        <4>2. NoLower(VerdictsOf(Condition, found), VerdictsOf(Condition, both))
          BY <2>3, <2>4, <2>9, <3>2, PassingVerdicts
        <4> QED
          BY <2>9, <3>1, <4>1, <4>2
      <3>3. CASE found = {}
        <4>1. Verdicts = {"unknown"} /\ both = {new}
          BY <2>6, <3>3
        <4>2. VerdictsOf(Condition, {new}) # {} /\ VerdictsOf(Condition, {new}) \subseteq {"met", "partially_met", "failed"}
          BY <2>3, FirstReading
        <4>3. NoLower({"unknown"}, VerdictsOf(Condition, {new}))
          BY <4>2 DEF NoLower, Rank
        <4> QED
          BY <2>9, <3>1, <4>1, <4>3
      <3> QED
        BY <3>2, <3>3
    <2>10. CASE ~unused /\ Checkable(Condition) /\ ~passes
      <3>1. Verdicts' = VerdictsOf(Condition, both)
        BY <2>5, <2>7, <2>10
      <3>2. newest => "met" \notin VerdictsOf(Condition, both)
        <4>1. found \subseteq measured
          BY DEF Found
        <4> QED
          BY <2>3, <2>4, <2>10, <4>1, NewestFails
      <3>3. Verdicts # {"unknown"} => NoLower(VerdictsOf(Condition, both), Verdicts)
        <4> SUFFICES ASSUME Verdicts # {"unknown"} PROVE NoLower(VerdictsOf(Condition, both), Verdicts)
          OBVIOUS
        <4>1. found # {} /\ Verdicts = VerdictsOf(Condition, found)
          BY <2>6
        <4>2. NoLower(VerdictsOf(Condition, both), VerdictsOf(Condition, found))
          BY <2>3, <2>4, <2>10, <4>1, FailingVerdicts
        <4> QED
          BY <4>1, <4>2
      <3> QED
        BY <2>10, <3>1, <3>2, <3>3
    <2> QED
      BY <2>8, <2>9, <2>10
  <1> QED
    BY <1>1, MeasuredInvariant, PTL DEF ConditionsSpec, NewReadingMonotone

-----------------------------------------------------------------------------
(***************************************************************************)
(* Neither limiter lets more than the limit in, whatever the limit, the    *)
(* window, the waits and the number of attempts.                           *)
(***************************************************************************)

(* The bucket.                                                             *)

\* What is in the window, or of one second, is part of the bucket.
LEMMA PartOfBucket ==
  ASSUME NEW bucket \in SUBSET (Nat \X Nat), IsFiniteSet(bucket), NEW t \in Int
  PROVE  /\ InWindow(bucket, t) \subseteq bucket /\ SameSecond(bucket, t) \subseteq bucket
         /\ IsFiniteSet(InWindow(bucket, t)) /\ IsFiniteSet(SameSecond(bucket, t))
         /\ Cardinality(bucket) \in Nat
         /\ Cardinality(InWindow(bucket, t)) \in 0..Cardinality(bucket)
         /\ Cardinality(SameSecond(bucket, t)) \in Nat
  <1>1. InWindow(bucket, t) \in SUBSET bucket /\ SameSecond(bucket, t) \in SUBSET bucket
    BY DEF InWindow, SameSecond
  <1>2. /\ IsFiniteSet(InWindow(bucket, t)) /\ IsFiniteSet(SameSecond(bucket, t))
        /\ Cardinality(InWindow(bucket, t)) <= Cardinality(bucket)
    BY <1>1, FS_Subset
  <1>3. /\ Cardinality(bucket) \in Nat /\ Cardinality(InWindow(bucket, t)) \in Nat
        /\ Cardinality(SameSecond(bucket, t)) \in Nat
    BY <1>2, FS_CardinalityType
  <1> QED
    BY <1>1, <1>2, <1>3

\* A bucket has an oldest hit, which is the one retry_after looks at.
LEMMA FirstIsOldest ==
  ASSUME NEW bucket \in SUBSET (Nat \X Nat), bucket # {}
  PROVE  First(bucket) \in bucket /\ \A g \in bucket : First(bucket)[1] <= g[1]
  <1> DEFINE times == {h[1] : h \in bucket}
  <1>1. times \in SUBSET Nat /\ times # {}
    OBVIOUS
  <1>2. PICK n \in times : \A m \in times : n <= m
    BY <1>1, LeastNumber
  <1>3. PICK h \in bucket : h[1] = n
    BY <1>2
  <1>4. \A g \in bucket : h[1] <= g[1]
    BY <1>2, <1>3
  <1> QED
    BY <1>4 DEF First

\* An admitted hit is a new member, a refused one is none.
NewHit(bucket, now) == <<now, Cardinality(SameSecond(InWindow(bucket, now), now))>>

LEMMA HitIsNew ==
  ASSUME LimiterTypeOK, Numbered, NEW now \in Nat
  PROVE  /\ NewHit(hits, now) \in (Nat \X Nat) /\ NewHit(hits, now) \notin hits
         /\ SameSecond(InWindow(hits, now), now) = SameSecond(hits, now)
         /\ MemoryHit(hits, now) =
                InWindow(hits, now) \cup (IF MemoryAllows(hits, now) THEN {NewHit(hits, now)} ELSE {})
  <1>1. SameSecond(InWindow(hits, now), now) = SameSecond(hits, now)
    BY LimiterAssumption DEF SameSecond, InWindow, LimiterTypeOK
  <1>2. Cardinality(SameSecond(hits, now)) \in Nat
    <2>1. now \in Int
      OBVIOUS
    <2> QED
      BY <2>1, PartOfBucket DEF LimiterTypeOK
  <1>3. NewHit(hits, now) \in (Nat \X Nat)
    BY <1>1, <1>2 DEF NewHit
  <1>4. NewHit(hits, now) \notin hits
    <2>1. SUFFICES ASSUME NewHit(hits, now) \in hits PROVE FALSE
      OBVIOUS
    <2>2. NewHit(hits, now)[2] < Cardinality(SameSecond(hits, NewHit(hits, now)[1]))
      BY <2>1 DEF Numbered
    <2>3. NewHit(hits, now)[1] = now /\ NewHit(hits, now)[2] = Cardinality(SameSecond(hits, now))
      BY <1>1 DEF NewHit
    <2> QED
      BY <2>2, <2>3, <1>2
  <1> QED
    BY <1>1, <1>3, <1>4 DEF MemoryHit, NewHit

\* The bucket after an attempt: what is in the window, and the new hit if there was room.
LEMMA BucketAfter ==
  ASSUME LimiterTypeOK, Numbered, NEW now \in Nat, hits' = MemoryHit(hits, now)
  PROVE  /\ hits' \in SUBSET (Nat \X Nat) /\ IsFiniteSet(hits') /\ Cardinality(hits') \in Nat
         /\ MemoryAllows(hits, now) =>
              /\ hits' = InWindow(hits, now) \cup {NewHit(hits, now)}
              /\ Cardinality(hits') = Cardinality(InWindow(hits, now)) + 1
         /\ ~MemoryAllows(hits, now) => hits' = InWindow(hits, now)
  <1> DEFINE kept == InWindow(hits, now)
             new == NewHit(hits, now)
  <1>1. kept \subseteq hits /\ IsFiniteSet(kept) /\ Cardinality(kept) \in Nat
    BY PartOfBucket DEF LimiterTypeOK
  <1>2. new \in (Nat \X Nat) /\ new \notin kept
    BY <1>1, HitIsNew
  <1>3. IsFiniteSet(kept \cup {new}) /\ Cardinality(kept \cup {new}) = Cardinality(kept) + 1
    BY <1>1, <1>2, FS_AddElement
  <1>4. hits \in SUBSET (Nat \X Nat)
    BY DEF LimiterTypeOK
  <1>5. MemoryAllows(hits, now) => hits' = kept \cup {new}
    BY HitIsNew
  <1>6. ~MemoryAllows(hits, now) => hits' = kept
    BY HitIsNew
  <1> HIDE DEF kept, new
  <1>7. /\ hits' \in SUBSET (Nat \X Nat) /\ IsFiniteSet(hits') /\ Cardinality(hits') \in Nat
        /\ MemoryAllows(hits, now) => hits' = kept \cup {new} /\ Cardinality(hits') = Cardinality(kept) + 1
        /\ ~MemoryAllows(hits, now) => hits' = kept
    BY <1>1, <1>2, <1>3, <1>4, <1>5, <1>6
  <1> QED
    BY <1>7 DEF kept, new

-----------------------------------------------------------------------------
(* An attempt keeps every part of the invariant.                           *)

\* An attempt at a time that is not in the past.
AttemptAt(now) == Attempt(now) /\ now \in Nat /\ now >= elapsed

LEMMA AttemptTypes ==
  ASSUME LimiterInv, NEW now, AttemptAt(now)
  PROVE  LimiterTypeOK'
  <1>1. LimiterTypeOK /\ Numbered /\ now \in Nat /\ now \in Int
    BY DEF LimiterInv, AttemptAt
  <1>2. elapsed' \in Nat /\ attempts' \in 0..MaxAttempts
    BY <1>1, LimiterAssumption DEF AttemptAt, Attempt, LimiterTypeOK
  <1>3. hits' \in SUBSET (Nat \X Nat) /\ IsFiniteSet(hits') /\ Cardinality(hits') <= Limit
    <2>1. hits' = MemoryHit(hits, now)
      BY DEF AttemptAt, Attempt
    <2>2. /\ hits' \in SUBSET (Nat \X Nat) /\ IsFiniteSet(hits')
          /\ MemoryAllows(hits, now) => Cardinality(hits') = Cardinality(InWindow(hits, now)) + 1
          /\ ~MemoryAllows(hits, now) => hits' = InWindow(hits, now)
      BY <1>1, <2>1, BucketAfter
    <2>3. Cardinality(InWindow(hits, now)) \in 0..Cardinality(hits) /\ Cardinality(hits) \in Nat
      BY <1>1, PartOfBucket DEF LimiterTypeOK
    <2>4. CASE MemoryAllows(hits, now)
      BY <2>2, <2>3, <2>4, LimiterAssumption DEF MemoryAllows
    <2>5. CASE ~MemoryAllows(hits, now)
      BY <1>1, <2>2, <2>3, <2>5, LimiterAssumption DEF LimiterTypeOK
    <2> QED
      BY <2>2, <2>4, <2>5
  <1>4. counter' \in [count : Nat, expires : Nat]
    BY <1>1, LimiterAssumption DEF AttemptAt, Attempt, RedisHit, LimiterTypeOK
  <1>5. memory' \in Seq(Nat) /\ redis' \in Seq(Nat)
    BY <1>1 DEF AttemptAt, Attempt, LimiterTypeOK
  <1> QED
    BY <1>2, <1>3, <1>4, <1>5 DEF LimiterTypeOK

LEMMA AttemptPast ==
  ASSUME LimiterInv, NEW now, AttemptAt(now)
  PROVE  Past' /\ Numbered'
  <1>1. LimiterTypeOK /\ Numbered /\ Past /\ now \in Nat /\ now \in Int /\ now >= elapsed /\ elapsed' = now
    BY DEF LimiterInv, AttemptAt, Attempt
  <1>2. hits' = MemoryHit(hits, now)
    BY DEF AttemptAt, Attempt
  <1>3. /\ InWindow(hits, now) \subseteq hits
        /\ IsFiniteSet(SameSecond(hits, now)) /\ Cardinality(SameSecond(hits, now)) \in Nat
    BY <1>1, PartOfBucket DEF LimiterTypeOK
  <1>4. /\ NewHit(hits, now) \notin hits
        /\ SameSecond(InWindow(hits, now), now) = SameSecond(hits, now)
        /\ NewHit(hits, now)[1] = now /\ NewHit(hits, now)[2] = Cardinality(SameSecond(hits, now))
    BY <1>1, HitIsNew DEF NewHit
  <1>5. /\ MemoryAllows(hits, now) => hits' = InWindow(hits, now) \cup {NewHit(hits, now)}
        /\ ~MemoryAllows(hits, now) => hits' = InWindow(hits, now)
    BY <1>1, <1>2, BucketAfter
  <1>6. \A h \in hits' : \/ h \in hits /\ h[1] > now - Window
                         \/ h = NewHit(hits, now) /\ MemoryAllows(hits, now)
    BY <1>3, <1>5 DEF InWindow
  <1>7. Past'
    <2>1. \A h \in hits' : h[1] <= elapsed'
      BY <1>1, <1>4, <1>6 DEF Past, LimiterTypeOK
    <2>2. \A i \in DOMAIN memory' : memory'[i] <= elapsed'
      BY <1>1 DEF AttemptAt, Attempt, Past, LimiterTypeOK
    <2>3. \A i \in DOMAIN redis' : redis'[i] <= elapsed'
      BY <1>1 DEF AttemptAt, Attempt, Past, LimiterTypeOK
    <2> QED
      BY <2>1, <2>2, <2>3 DEF Past
  <1>8. Numbered'
    <2> SUFFICES ASSUME NEW h \in hits'
                 PROVE  h[2] < Cardinality(SameSecond(hits', h[1]))
      BY DEF Numbered
    <2>1. CASE h[1] # now
      <3>1. h \in hits /\ h[1] > now - Window
        BY <1>4, <1>6, <2>1
      <3>2. SameSecond(hits', h[1]) = SameSecond(hits, h[1])
        BY <1>4, <1>5, <3>1, <2>1 DEF SameSecond, InWindow
      <3> QED
        BY <1>1, <3>1, <3>2 DEF Numbered
    <2>2. CASE h[1] = now /\ MemoryAllows(hits, now)
      <3>1. SameSecond(hits', now) = SameSecond(hits, now) \cup {NewHit(hits, now)}
        BY <1>4, <1>5, <2>2 DEF SameSecond
      <3>2. Cardinality(SameSecond(hits', now)) = Cardinality(SameSecond(hits, now)) + 1
        <4>1. NewHit(hits, now) \notin SameSecond(hits, now)
          BY <1>4 DEF SameSecond
        <4> QED
          BY <1>3, <3>1, <4>1, FS_AddElement
      <3>3. h \in hits \/ h = NewHit(hits, now)
        BY <1>6
      <3>4. CASE h \in hits
        <4>1. h[2] < Cardinality(SameSecond(hits, now)) /\ h[2] \in Nat
          BY <1>1, <2>2, <3>4 DEF Numbered, LimiterTypeOK
        <4> QED
          BY <1>3, <2>2, <3>2, <4>1
      <3>5. CASE h = NewHit(hits, now)
        BY <1>3, <1>4, <2>2, <3>2, <3>5
      <3> QED
        BY <3>3, <3>4, <3>5
    <2>3. CASE h[1] = now /\ ~MemoryAllows(hits, now)
      <3>1. h \in hits
        BY <1>6, <2>3
      <3>2. SameSecond(hits', now) = SameSecond(hits, now)
        BY <1>4, <1>5, <2>3
      <3> QED
        BY <1>1, <2>3, <3>1, <3>2 DEF Numbered
    <2> QED
      BY <2>1, <2>2, <2>3
  <1> QED
    BY <1>7, <1>8

\* What is in the window of a later time is in it now.
LEMMA WindowMoves ==
  ASSUME LimiterTypeOK, NEW now \in Nat, NEW t \in Nat, t >= now
  PROVE  InWindow(InWindow(hits, now), t) = InWindow(hits, t)
  BY LimiterAssumption DEF InWindow, LimiterTypeOK

\* The bucket after an attempt, looked at later.
LEMMA WindowAfter ==
  ASSUME LimiterInv, NEW now, AttemptAt(now), NEW t \in Nat, t >= now, t < now + Window
  PROVE  Cardinality(InWindow(hits', t)) =
             Cardinality(InWindow(hits, t)) + IF MemoryAllows(hits, now) THEN 1 ELSE 0
  <1>1. LimiterTypeOK /\ Numbered /\ now \in Nat
    BY DEF LimiterInv, AttemptAt
  <1>2. hits' = MemoryHit(hits, now)
    BY DEF AttemptAt, Attempt
  <1>3. /\ MemoryAllows(hits, now) => hits' = InWindow(hits, now) \cup {NewHit(hits, now)}
        /\ ~MemoryAllows(hits, now) => hits' = InWindow(hits, now)
    BY <1>1, <1>2, BucketAfter
  <1>4. InWindow(InWindow(hits, now), t) = InWindow(hits, t)
    BY <1>1, WindowMoves
  <1>5. /\ InWindow(hits, t) \subseteq hits /\ IsFiniteSet(InWindow(hits, t))
        /\ Cardinality(InWindow(hits, t)) \in Nat
    <2>1. t \in Int
      OBVIOUS
    <2> QED
      BY <1>1, <2>1, PartOfBucket DEF LimiterTypeOK
  <1>6. CASE MemoryAllows(hits, now)
    <2>1. NewHit(hits, now)[1] > t - Window
      BY <1>1, LimiterAssumption DEF NewHit
    <2>2. InWindow(hits', t) = InWindow(InWindow(hits, now), t) \cup {NewHit(hits, now)}
      BY <1>3, <1>6, <2>1 DEF InWindow
    <2>3. NewHit(hits, now) \notin InWindow(hits, t)
      BY <1>1, <1>5, HitIsNew
    <2>4. Cardinality(InWindow(hits, t) \cup {NewHit(hits, now)}) = Cardinality(InWindow(hits, t)) + 1
      BY <1>5, <2>3, FS_AddElement
    <2> QED
      BY <1>4, <1>6, <2>2, <2>4
  <1>7. CASE ~MemoryAllows(hits, now)
    BY <1>3, <1>4, <1>5, <1>7
  <1> QED
    BY <1>6, <1>7

LEMMA AttemptAccounted ==
  ASSUME LimiterInv, NEW now, AttemptAt(now)
  PROVE  Accounted'
  <1>1. /\ LimiterTypeOK /\ Past /\ Accounted /\ now \in Nat /\ now >= elapsed /\ elapsed' = now
        /\ memory' = IF MemoryAllows(hits, now) THEN Append(memory, now) ELSE memory
    BY DEF LimiterInv, AttemptAt, Attempt
  <1> SUFFICES ASSUME NEW i \in DOMAIN memory', NEW t \in now..(now + Window), memory'[i] > t - Window
               PROVE  Cardinality(InWindow(hits', t)) > Len(memory') - i
    BY <1>1 DEF Accounted
  <1>2. t \in Nat /\ t \in Int /\ t >= now /\ elapsed \in Nat
    BY <1>1, LimiterAssumption DEF LimiterTypeOK
  <1>3. i \in DOMAIN memory => memory'[i] = memory[i] /\ memory[i] <= elapsed /\ memory[i] \in Nat
    BY <1>1 DEF LimiterTypeOK, Past
  <1>4. i \in DOMAIN memory \/ (MemoryAllows(hits, now) /\ i = Len(memory) + 1 /\ memory'[i] = now)
    BY <1>1 DEF LimiterTypeOK
  <1>5. t < now + Window
    BY <1>1, <1>2, <1>3, <1>4, LimiterAssumption
  <1>6. Cardinality(InWindow(hits', t)) =
            Cardinality(InWindow(hits, t)) + IF MemoryAllows(hits, now) THEN 1 ELSE 0
    BY <1>2, <1>5, WindowAfter
  <1>7. Cardinality(InWindow(hits, t)) \in Nat
    BY <1>1, <1>2, PartOfBucket DEF LimiterTypeOK
  <1>8. /\ Len(memory) \in Nat /\ DOMAIN memory = 1..Len(memory)
        /\ Len(memory') = Len(memory) + IF MemoryAllows(hits, now) THEN 1 ELSE 0
    BY <1>1 DEF LimiterTypeOK
  <1>9. CASE i \in DOMAIN memory
    <2>1. t \in elapsed..(elapsed + Window)
      BY <1>1, <1>2, <1>3, <1>9, LimiterAssumption
    <2>2. Cardinality(InWindow(hits, t)) > Len(memory) - i
      BY <1>1, <1>3, <1>9, <2>1 DEF Accounted
    <2> QED
      BY <1>6, <1>7, <1>8, <1>9, <2>2
  <1>10. CASE i \notin DOMAIN memory
    BY <1>4, <1>6, <1>7, <1>8, <1>10
  <1> QED
    BY <1>9, <1>10

LEMMA AttemptApart ==
  ASSUME LimiterInv, NEW now, AttemptAt(now)
  PROVE  Apart(memory)' /\ Apart(redis)'
  <1>1. /\ LimiterTypeOK /\ Past /\ Accounted /\ Outlived /\ Counted /\ now \in Nat /\ now >= elapsed
        /\ Apart(memory) /\ Apart(redis)
        /\ memory' = IF MemoryAllows(hits, now) THEN Append(memory, now) ELSE memory
        /\ redis' = IF RedisAllows(counter, now) THEN Append(redis, now) ELSE redis
    BY DEF LimiterInv, AttemptAt, Attempt
  <1>2. Apart(memory')
    <2> SUFFICES ASSUME NEW i \in DOMAIN memory', i + Limit \in DOMAIN memory'
                 PROVE  memory'[i + Limit] - memory'[i] >= Window
      BY DEF Apart
    <2>1. /\ i \in DOMAIN memory /\ memory'[i] = memory[i] /\ memory[i] \in Nat /\ memory[i] <= elapsed
          /\ Len(memory) \in Nat /\ i \in Nat
      <3>1. /\ DOMAIN memory = 1..Len(memory) /\ Len(memory) \in Nat /\ DOMAIN memory' = 1..Len(memory') /\ Len(memory') <= Len(memory) + 1
            /\ \A j \in DOMAIN memory : memory'[j] = memory[j] /\ memory[j] \in Nat
        BY SMTT(30), <1>1 DEF LimiterTypeOK
      <3>2. i \in DOMAIN memory /\ i \in Nat
        BY <3>1, LimiterAssumption
      <3> QED
        BY <1>1, <3>1, <3>2 DEF Past
    <2>2. CASE i + Limit \in DOMAIN memory
      <3>1. memory'[i + Limit] = memory[i + Limit]
        BY SMTT(30), <1>1, <2>2 DEF LimiterTypeOK
      <3>2. memory[i + Limit] - memory[i] >= Window
        BY <1>1, <2>1, <2>2 DEF Apart
      <3> QED
        BY <2>1, <3>1, <3>2
    <2>3. CASE i + Limit \notin DOMAIN memory
      <3>1. MemoryAllows(hits, now) /\ i + Limit = Len(memory) + 1 /\ memory'[i + Limit] = now
        BY <1>1, <2>3 DEF LimiterTypeOK
      <3>2. CASE memory[i] > now - Window
        <4>1. now \in elapsed..(elapsed + Window) /\ now \in Int
          BY <1>1, <2>1, <3>2, LimiterAssumption DEF LimiterTypeOK
        <4>2. Cardinality(InWindow(hits, now)) > Len(memory) - i
          BY <1>1, <2>1, <3>2, <4>1 DEF Accounted
        <4>3. Cardinality(InWindow(hits, now)) \in Nat
          BY <1>1, <4>1, PartOfBucket DEF LimiterTypeOK
        <4> QED
          BY <2>1, <3>1, <4>2, <4>3, LimiterAssumption DEF MemoryAllows
      <3>3. CASE ~(memory[i] > now - Window)
        BY <1>1, <2>1, <3>1, <3>3, LimiterAssumption
      <3> QED
        BY <3>2, <3>3
    <2> QED
      BY <2>2, <2>3
  <1>3. Apart(redis')
    <2> SUFFICES ASSUME NEW i \in DOMAIN redis', i + Limit \in DOMAIN redis'
                 PROVE  redis'[i + Limit] - redis'[i] >= Window
      BY DEF Apart
    <2>1. /\ i \in DOMAIN redis /\ redis'[i] = redis[i] /\ redis[i] \in Nat /\ redis[i] <= elapsed
          /\ Len(redis) \in Nat /\ i \in Nat
      <3>1. /\ DOMAIN redis = 1..Len(redis) /\ Len(redis) \in Nat /\ DOMAIN redis' = 1..Len(redis') /\ Len(redis') <= Len(redis) + 1
            /\ \A j \in DOMAIN redis : redis'[j] = redis[j] /\ redis[j] \in Nat
        BY SMTT(30), <1>1 DEF LimiterTypeOK
      <3>2. i \in DOMAIN redis /\ i \in Nat
        BY <3>1, LimiterAssumption
      <3> QED
        BY <1>1, <3>1, <3>2 DEF Past
    <2>2. CASE i + Limit \in DOMAIN redis
      <3>1. redis'[i + Limit] = redis[i + Limit]
        BY SMTT(30), <1>1, <2>2 DEF LimiterTypeOK
      <3>2. redis[i + Limit] - redis[i] >= Window
        BY <1>1, <2>1, <2>2 DEF Apart
      <3> QED
        BY <2>1, <3>1, <3>2
    <2>3. CASE i + Limit \notin DOMAIN redis
      <3>1. RedisAllows(counter, now) /\ i + Limit = Len(redis) + 1 /\ redis'[i + Limit] = now
        BY <1>1, <2>3 DEF LimiterTypeOK
      <3>2. CASE now >= counter.expires
        BY SMTT(30), <1>1, <2>1, <3>1, <3>2, LimiterAssumption DEF Outlived, LimiterTypeOK
      <3>3. CASE ~(now >= counter.expires)
        <4>1. counter.count + 1 <= Limit /\ counter.count \in Nat
          BY <1>1, <3>1, <3>3 DEF RedisAllows, RedisHit, LimiterTypeOK
        <4>2. i + counter.count <= Len(redis)
          BY <2>1, <3>1, <4>1, LimiterAssumption
        <4>3. redis[i] + Window <= elapsed
          BY <1>1, <2>1, <4>2 DEF Counted
        <4> QED
          BY <1>1, <2>1, <3>1, <4>3, LimiterAssumption DEF LimiterTypeOK
      <3> QED
        BY <3>2, <3>3
    <2> QED
      BY <2>2, <2>3
  <1> QED
    BY <1>2, <1>3 DEF Apart

LEMMA AttemptOutlived ==
  ASSUME LimiterInv, NEW now, AttemptAt(now)
  PROVE  Outlived'
  <1>1. /\ LimiterTypeOK /\ Numbered /\ Past /\ Outlived /\ now \in Nat /\ now \in Int /\ now >= elapsed
        /\ hits' = MemoryHit(hits, now) /\ counter' = RedisHit(counter, now)
        /\ redis' = IF RedisAllows(counter, now) THEN Append(redis, now) ELSE redis
    BY DEF LimiterInv, AttemptAt, Attempt
  <1>2. /\ counter'.expires = now + Window /\ counter.count \in Nat /\ counter.expires \in Nat
        /\ counter'.count = 1 + IF now >= counter.expires THEN 0 ELSE counter.count
    BY <1>1 DEF RedisHit, LimiterTypeOK
  <1>3. \A i \in DOMAIN redis' : redis'[i] + Window <= counter'.expires
    <2>1. \A i \in DOMAIN redis' : redis'[i] \in Nat /\ redis'[i] <= now
      BY <1>1 DEF LimiterTypeOK, Past
    <2> QED
      BY <1>1, <1>2, <2>1, LimiterAssumption
  <1>4. \A h \in hits' : h[1] + Window <= counter'.expires
    <2>1. Past' /\ LimiterTypeOK' /\ elapsed' = now
      BY AttemptPast, AttemptTypes DEF AttemptAt, Attempt
    <2>2. \A h \in hits' : h[1] \in Nat /\ h[1] <= now
      BY <2>1 DEF Past, LimiterTypeOK
    <2> QED
      BY <1>1, <1>2, <2>2, LimiterAssumption
  <1>5. Cardinality(hits') <= counter'.count
    <2>1. /\ MemoryAllows(hits, now) => Cardinality(hits') = Cardinality(InWindow(hits, now)) + 1
          /\ ~MemoryAllows(hits, now) => hits' = InWindow(hits, now)
      BY <1>1, BucketAfter
    <2>2. Cardinality(InWindow(hits, now)) \in 0..Cardinality(hits) /\ Cardinality(hits) \in Nat
      BY <1>1, PartOfBucket DEF LimiterTypeOK
    <2>3. Cardinality(hits') <= Cardinality(InWindow(hits, now)) + 1
      BY <2>1, <2>2
    <2>4. CASE now >= counter.expires
      <3>1. InWindow(hits, now) = {}
        BY <1>1, <1>2, <2>4, LimiterAssumption DEF InWindow, Outlived, LimiterTypeOK
      <3>2. Cardinality(InWindow(hits, now)) = 0
        BY <3>1, FS_EmptySet
      <3>3. Cardinality(hits') \in Nat
        BY <1>1, BucketAfter
      <3> QED
        BY <1>2, <2>3, <2>4, <3>2, <3>3
    <2>5. CASE ~(now >= counter.expires)
      <3>1. Cardinality(hits) <= counter.count
        BY <1>1 DEF Outlived
      <3>2. Cardinality(hits') \in Nat
        BY <1>1, BucketAfter
      <3> QED
        BY <1>2, <2>2, <2>3, <2>5, <3>1, <3>2
    <2> QED
      BY <2>4, <2>5
  <1> QED
    BY <1>3, <1>4, <1>5 DEF Outlived

LEMMA AttemptCounted ==
  ASSUME LimiterInv, NEW now, AttemptAt(now)
  PROVE  Counted'
  <1>1. /\ LimiterTypeOK /\ Past /\ Outlived /\ Counted /\ now \in Nat /\ now >= elapsed /\ elapsed' = now
        /\ counter' = RedisHit(counter, now)
        /\ redis' = IF RedisAllows(counter, now) THEN Append(redis, now) ELSE redis
    BY DEF LimiterInv, AttemptAt, Attempt
  <1>2. /\ counter.count \in Nat /\ counter.expires \in Nat /\ elapsed \in Nat
        /\ counter'.count = 1 + IF now >= counter.expires THEN 0 ELSE counter.count
        /\ RedisAllows(counter, now) <=> counter'.count <= Limit
    BY <1>1 DEF RedisHit, RedisAllows, LimiterTypeOK
  <1>3. /\ DOMAIN redis = 1..Len(redis) /\ Len(redis) \in Nat
        /\ Len(redis') = Len(redis) + (IF RedisAllows(counter, now) THEN 1 ELSE 0)
        /\ DOMAIN redis' = 1..Len(redis')
        /\ \A j \in DOMAIN redis : redis'[j] = redis[j] /\ redis[j] \in Nat
    BY <1>1 DEF LimiterTypeOK
  <1> SUFFICES ASSUME NEW i \in DOMAIN redis',
                      i + counter'.count <= Len(redis') \/ i + Limit <= Len(redis')
               PROVE  redis'[i] + Window <= elapsed'
    BY DEF Counted
  <1>4. i \in DOMAIN redis /\ i \in Nat
    BY <1>2, <1>3, LimiterAssumption
  <1>5. CASE now >= counter.expires
    BY <1>1, <1>2, <1>3, <1>4, <1>5, LimiterAssumption DEF Outlived
  <1>6. CASE ~(now >= counter.expires)
    <2>1. i + counter.count <= Len(redis) \/ i + Limit <= Len(redis)
      BY <1>2, <1>3, <1>4, <1>6, LimiterAssumption
    <2>2. redis[i] + Window <= elapsed
      BY <1>1, <1>4, <2>1 DEF Counted
    <2> QED
      BY <1>1, <1>2, <1>3, <1>4, <2>2, LimiterAssumption
  <1> QED
    BY <1>5, <1>6

-----------------------------------------------------------------------------
(* The theorems.                                                           *)

LEMMA LimiterStart == LimiterInit => LimiterInv
  <1> SUFFICES ASSUME LimiterInit PROVE LimiterInv
    OBVIOUS
  <1>1. IsFiniteSet({}) /\ Cardinality({}) = 0
    BY FS_EmptySet
  <1>2. LimiterTypeOK
    BY <1>1, LimiterAssumption DEF LimiterInit, LimiterTypeOK, NoHits, NoKey
  <1>3. Past /\ Numbered /\ Accounted /\ Outlived /\ Counted
    BY <1>1 DEF LimiterInit, NoHits, NoKey, Past, Numbered, Accounted, Outlived, Counted
  <1>4. Apart(memory) /\ Apart(redis)
    BY DEF LimiterInit, Apart
  <1> QED
    BY <1>2, <1>3, <1>4 DEF LimiterInv

LEMMA LimiterStep == LimiterInv /\ [LimiterNext]_limiterVars => LimiterInv'
  <1> SUFFICES ASSUME LimiterInv, [LimiterNext]_limiterVars PROVE LimiterInv'
    OBVIOUS
  <1>1. ASSUME NEW wait \in Waits, Attempt(elapsed + wait) PROVE LimiterInv'
    <2>1. AttemptAt(elapsed + wait)
      BY <1>1, LimiterAssumption DEF AttemptAt, LimiterInv, LimiterTypeOK
    <2>2. LimiterTypeOK' /\ Past' /\ Numbered' /\ Accounted' /\ Outlived' /\ Counted'
          /\ Apart(memory)' /\ Apart(redis)'
      BY <2>1, AttemptTypes, AttemptPast, AttemptAccounted, AttemptOutlived, AttemptCounted, AttemptApart
    <2> QED
      BY <2>2 DEF LimiterInv
  <1>2. CASE UNCHANGED limiterVars
    BY <1>2 DEF limiterVars, LimiterInv, LimiterTypeOK, Past, Numbered, Accounted, Outlived, Counted, Apart,
        InWindow, SameSecond
  <1> QED
    BY <1>1, <1>2 DEF LimiterNext

\* The inductive invariant holds in every state.
THEOREM LimiterInvariant == LimiterSpec => []LimiterInv
  <1>1. LimiterInit => LimiterInv
    BY LimiterStart
  <1>2. LimiterInv /\ [LimiterNext]_limiterVars => LimiterInv'
    BY LimiterStep
  <1> QED
    BY <1>1, <1>2, PTL DEF LimiterSpec

\* Type correctness: whatever the client does, the bucket never outgrows the limit
\* (InMemoryLimiter.allow).
THEOREM LimiterTypes == LimiterSpec => []LimiterTypeOK
  <1>1. LimiterInv => LimiterTypeOK
    BY DEF LimiterInv
  <1> QED
    BY <1>1, LimiterInvariant, PTL

\* When the limiters will let the client in.
LEMMA LimitersAnswer == LimiterInv => WindowsHold
  <1> SUFFICES ASSUME LimiterInv PROVE WindowsHold
    OBVIOUS
  <1>1. LimiterTypeOK /\ Outlived /\ Apart(memory) /\ Apart(redis)
    BY DEF LimiterInv
  <1>2. /\ elapsed \in Nat /\ counter.count \in Nat /\ counter.expires \in Nat
        /\ hits \in SUBSET (Nat \X Nat) /\ IsFiniteSet(hits) /\ Cardinality(hits) <= Limit
        /\ Limit \in Nat /\ Limit > 0 /\ Window \in Nat /\ Window > 0
    BY <1>1, LimiterAssumption DEF LimiterTypeOK
  <1>3. ASSUME NEW wait \in 0..Window, RedisAllows(counter, elapsed + wait)
        PROVE  MemoryAllows(hits, elapsed + wait)
    <2>1. elapsed + wait \in Nat /\ elapsed + wait \in Int
      BY <1>2
    <2>2. Cardinality(InWindow(hits, elapsed + wait)) \in 0..Cardinality(hits) /\ Cardinality(hits) \in Nat
      BY <1>2, <2>1, PartOfBucket
    <2>3. CASE elapsed + wait >= counter.expires
      <3>1. InWindow(hits, elapsed + wait) = {}
        BY <1>1, <1>2, <2>1, <2>3 DEF InWindow, Outlived
      <3>2. Cardinality(InWindow(hits, elapsed + wait)) = 0
        BY <3>1, FS_EmptySet
      <3> QED
        BY <1>2, <3>2 DEF MemoryAllows
    <2>4. CASE ~(elapsed + wait >= counter.expires)
      <3>1. counter.count + 1 <= Limit
        BY <1>2, <1>3, <2>4 DEF RedisAllows, RedisHit
      <3>2. Cardinality(hits) <= counter.count
        BY <1>1 DEF Outlived
      <3> QED
        BY <1>2, <2>2, <3>1, <3>2 DEF MemoryAllows
    <2> QED
      BY <2>3, <2>4
  <1>4. MemoryAllows(hits, elapsed + MemoryRetryAfter(hits, elapsed))
    <2>1. CASE hits = {}
      <3>1. InWindow(hits, elapsed + MemoryRetryAfter(hits, elapsed)) = {}
        BY <2>1 DEF InWindow
      <3>2. Cardinality(InWindow(hits, elapsed + MemoryRetryAfter(hits, elapsed))) = 0
        BY <3>1, FS_EmptySet
      <3> QED
        BY <1>2, <3>2 DEF MemoryAllows
    <2>2. CASE hits # {}
      <3> DEFINE first == First(hits)
                 later == elapsed + MemoryRetryAfter(hits, elapsed)
      <3>1. first \in hits /\ first \in (Nat \X Nat)
        BY <1>2, <2>2, FirstIsOldest
      <3>2. later \in Int /\ first[1] + Window <= later
        BY <1>2, <2>2, <3>1 DEF MemoryRetryAfter
      <3> HIDE DEF first, later
      <3>3. InWindow(hits, later) \in SUBSET (hits \ {first})
        BY <1>2, <3>1, <3>2 DEF InWindow
      <3>4. IsFiniteSet(hits \ {first}) /\ Cardinality(hits \ {first}) = Cardinality(hits) - 1
        BY <1>2, <3>1, FS_RemoveElement
      <3>5. Cardinality(InWindow(hits, later)) <= Cardinality(hits \ {first})
        BY <3>3, <3>4, FS_Subset
      <3>6. Cardinality(InWindow(hits, later)) \in Nat /\ Cardinality(hits) \in Nat
        BY <1>2, <3>2, PartOfBucket
      <3>7. Cardinality(InWindow(hits, later)) < Limit
        BY <1>2, <3>4, <3>5, <3>6
      <3> QED
        BY <3>7 DEF MemoryAllows, later
    <2> QED
      BY <2>1, <2>2
  <1>5. RedisAllows(counter, elapsed + RedisRetryAfter(counter, elapsed))
    <2>1. elapsed + RedisRetryAfter(counter, elapsed) >= counter.expires
      BY <1>2 DEF RedisRetryAfter
    <2> QED
      BY <1>2, <2>1 DEF RedisAllows, RedisHit
  <1> QED
    BY <1>1, <1>3, <1>4, <1>5 DEF WindowsHold

\* Wherever a window begins, neither limiter lets more than the limit in; who the
\* limiter in Redis lets in the one in memory would let in as well; and after the
\* wait it names each lets the client in (allow, retry_after).
THEOREM WindowsAlwaysHold == LimiterSpec => []WindowsHold
  <1>1. LimiterInv => WindowsHold
    BY LimitersAnswer
  <1> QED
    BY <1>1, LimiterInvariant, PTL

-----------------------------------------------------------------------------
(***************************************************************************)
(* The topics are the chains of names that share distinctive words,        *)
(* whatever the names, their words and what is seen together, and in       *)
(* whichever order groups and pairs are joined.                            *)
(***************************************************************************)


-----------------------------------------------------------------------------
(* The invariant.                                                          *)

\* A set that no closed set cuts in two.
Whole(s) ==
    /\ s \in SUBSET Entities /\ s # {}
    /\ \A u \in SUBSET Entities : Closed(u) /\ u \cap s # {} => s \subseteq u

\* The entities have distinct classes, and each is whole.
ClassesInv ==
    /\ \A c \in classes : Whole(c)
    /\ \A c, d \in classes : c \cap d # {} => c = d
    /\ \A e \in Entities : \E c \in classes : e \in c

GroupsInv == \A g \in groups : Whole(g)

\* Whoever shares a distinctive word is in one group or already in one class.
CoverInv ==
    \A t \in Distinctive : \E s \in groups \cup classes : With(t) \subseteq s

\* A pair that is joined shares a distinctive word.
PairsInv == \A p \in pairs : \E t \in Distinctive : {p[1], p[2]} \subseteq With(t)

ClustersInv ==
    /\ Entities \subseteq Names
    /\ build \in {"idle", "merge", "unite", "done"}
    /\ build # "idle" => ClassesInv /\ GroupsInv /\ CoverInv /\ PairsInv
    /\ build = "done" => groups = {} /\ pairs = {}

-----------------------------------------------------------------------------
(* Sets of entities.                                                       *)

LEMMA FewEntities ==
  ASSUME Entities \subseteq Names, NEW s \in SUBSET Entities
  PROVE  IsFiniteSet(s) /\ Cardinality(s) \in Nat /\ (Cardinality(s) = 0 <=> s = {})
  <1>1. IsFiniteSet(s)
    BY ClustersAssumption, FS_Subset
  <1> QED
    BY <1>1, FS_CardinalityType, FS_EmptySet

\* Some entity has a distinctive word.
LEMMA WordsAreUsed ==
  ASSUME Entities \subseteq Names, NEW t \in Distinctive
  PROVE  With(t) \in SUBSET Entities /\ With(t) # {}
  <1>1. With(t) \in SUBSET Entities
    BY DEF With
  <1>2. \E e \in Entities : t \in words[e]
    BY DEF Distinctive
  <1> QED
    BY <1>1, <1>2 DEF With

LEMMA GroupIsWhole ==
  ASSUME Entities \subseteq Names, NEW t \in Distinctive
  PROVE  Whole(With(t))
  BY WordsAreUsed DEF Whole, Closed

LEMMA OneIsWhole ==
  ASSUME NEW e \in Entities
  PROVE  Whole({e})
  BY DEF Whole

\* What overlaps has a member in common.
LEMMA OverlapMeets ==
  ASSUME Entities \subseteq Names, NEW a, NEW b, Whole(a), Whole(b), Overlapping(a, b)
  PROVE  a \cap b # {}
  <1>1. a \cup b \in SUBSET Entities /\ a \cup b # {} /\ a \cap b \in SUBSET Entities
    BY DEF Whole
  <1>2. Cardinality(a \cup b) \in Nat /\ Cardinality(a \cup b) # 0 /\ Cardinality(a \cap b) \in Nat
    BY <1>1, FewEntities
  <1>3. Cardinality(a \cap b) # 0
    BY <1>2 DEF Overlapping
  <1> QED
    BY <1>1, <1>3, FewEntities

\* Whole sets that meet are whole together.
LEMMA WholeTogether ==
  ASSUME NEW a, NEW b, Whole(a), Whole(b), a \cap b # {}
  PROVE  Whole(a \cup b)
  BY DEF Whole

LEMMA WholeUnion ==
  ASSUME NEW set, Whole(set), NEW touched, \A c \in touched : Whole(c) /\ c \cap set # {},
         set \subseteq UNION touched
  PROVE  Whole(UNION touched)
  <1>1. UNION touched \in SUBSET Entities /\ UNION touched # {}
    BY DEF Whole
  <1>2. ASSUME NEW u \in SUBSET Entities, Closed(u), u \cap UNION touched # {}
        PROVE  UNION touched \subseteq u
    <2>1. PICK c \in touched : u \cap c # {}
      BY <1>2
    <2>2. c \subseteq u /\ c \cap set # {}
      BY <1>2, <2>1 DEF Whole
    <2>3. set \subseteq u
      BY <1>2, <2>2 DEF Whole
    <2> QED
      BY <1>2, <2>3 DEF Whole
  <1> QED
    BY <1>1, <1>2 DEF Whole

\* Joining a whole set to the classes it meets keeps them distinct and whole, and
\* afterwards it is in one of them.
LEMMA UniteJoins ==
  ASSUME ClassesInv, NEW set, Whole(set), classes' = Unite(set), words' = words
  PROVE  /\ ClassesInv'
         /\ \E c \in classes' : set \subseteq c
         /\ \A c \in classes : \E d \in classes' : c \subseteq d
  <1> DEFINE touched == {c \in classes : c \cap set # {}}
  <1>1. classes' = (classes \ touched) \cup {UNION touched}
    BY DEF Unite
  <1>2. set \subseteq UNION touched
    BY DEF ClassesInv, Whole
  <1>3. Whole(UNION touched)
    <2>1. \A c \in touched : Whole(c) /\ c \cap set # {}
      BY DEF ClassesInv
    <2> QED
      BY <1>2, <2>1, WholeUnion
  <1>4. \A s : Whole(s)' <=> Whole(s)
    BY DEF Whole, Closed, Entities, Distinctive, With
  <1>5. \A c \in classes' : Whole(c)'
    BY <1>1, <1>3, <1>4 DEF ClassesInv
  <1>6. \A c \in classes \ touched : c \cap UNION touched = {}
    BY DEF ClassesInv
  <1>7. \A c, d \in classes' : c \cap d # {} => c = d
    BY <1>1, <1>6 DEF ClassesInv
  <1>8. \A c \in classes : \E d \in classes' : c \subseteq d
    BY <1>1
  <1>9. \A e \in Entities' : \E c \in classes' : e \in c
    BY <1>8 DEF ClassesInv, Entities
  <1>10. ClassesInv'
    <2> HIDE DEF touched
    <2> QED
      BY <1>5, <1>7, <1>9 DEF ClassesInv
  <1>11. \E c \in classes' : set \subseteq c
    <2> HIDE DEF touched
    <2> QED
      BY <1>1, <1>2
  <1> QED
    BY <1>8, <1>10, <1>11

-----------------------------------------------------------------------------
(* The invariant holds.                                                    *)

LEMMA ClustersStarts == ClustersInit => ClustersInv
  <1> SUFFICES ASSUME ClustersInit PROVE ClustersInv
    OBVIOUS
  <1>1. Entities = {}
    BY DEF ClustersInit, Entities
  <1> QED
    BY <1>1 DEF ClustersInit, ClustersInv

\* The words do not change while the topics are built.
LEMMA SameWords ==
  ASSUME UNCHANGED words
  PROVE  /\ Entities' = Entities /\ Distinctive' = Distinctive
         /\ \A t : With(t)' = With(t)
         /\ \A s : Whole(s)' <=> Whole(s)
  BY DEF Whole, Closed, Entities, Distinctive, With

\* What a step does to groups and classes loses none of them.
LEMMA StillCovered ==
  ASSUME UNCHANGED words, CoverInv,
         \A s \in groups \cup classes : \E u \in groups' \cup classes' : s \subseteq u
  PROVE  CoverInv'
  <1>1. Distinctive' = Distinctive /\ \A t : With(t)' = With(t)
    BY SameWords
  <1>2. \A t \in Distinctive : \E u \in groups' \cup classes' : With(t) \subseteq u
    <2> TAKE t \in Distinctive
    <2>1. PICK s \in groups \cup classes : With(t) \subseteq s
      BY DEF CoverInv
    <2>2. PICK u \in groups' \cup classes' : s \subseteq u
      BY <2>1
    <2> QED
      BY <2>1, <2>2
  <1>3. \A t \in Distinctive' : \E u \in groups' \cup classes' : With(t)' \subseteq u
    BY <1>1, <1>2
  <1> QED
    BY <1>3 DEF CoverInv

LEMMA BeginKeeps ==
  ASSUME ClustersInv, Begin
  PROVE  ClustersInv'
  <1>1. UNCHANGED words /\ build' = "merge"
    BY DEF Begin
  <1>2. /\ groups' = {With(t) : t \in Distinctive} /\ classes' = {{e} : e \in Entities}
        /\ \A p \in pairs' : /\ p[1] \in Entities /\ p[2] \in Entities
                             /\ words[p[1]] \cap words[p[2]] \cap Distinctive # {}
    BY DEF Begin
  <1>3. Entities \subseteq Names
    BY DEF ClustersInv
  <1>4. ClassesInv'
    <2>1. \A c \in classes' : Whole(c)'
      BY <1>1, <1>2, OneIsWhole, SameWords
    <2>2. \A c, d \in classes' : c \cap d # {} => c = d
      BY <1>2
    <2>3. \A e \in Entities' : \E c \in classes' : e \in c
      <3>1. Entities' = Entities
        BY <1>1, SameWords
      <3> QED
        BY <1>2, <3>1
    <2> QED
      BY <2>1, <2>2, <2>3 DEF ClassesInv
  <1>5. GroupsInv'
    BY <1>1, <1>2, <1>3, GroupIsWhole, SameWords DEF GroupsInv
  <1>6. CoverInv'
    BY <1>1, <1>2, SameWords DEF CoverInv
  <1>7. PairsInv'
    <2>1. ASSUME NEW p \in pairs'
          PROVE  \E t \in Distinctive : {p[1], p[2]} \subseteq With(t)
      <3>1. PICK t \in Distinctive : t \in words[p[1]] /\ t \in words[p[2]]
        BY <1>2, <2>1
      <3> QED
        BY <1>2, <2>1, <3>1 DEF With
    <2> QED
      BY <1>1, <2>1, SameWords DEF PairsInv
  <1> QED
    BY <1>1, <1>3, <1>4, <1>5, <1>6, <1>7, SameWords DEF ClustersInv

LEMMA MergeKeeps ==
  ASSUME ClustersInv, NEW a \in groups, NEW b \in groups, Merge(a, b)
  PROVE  ClustersInv'
  <1>1. /\ UNCHANGED <<words, build, classes, pairs>> /\ build = "merge"
        /\ groups' = (groups \ {a, b}) \cup {a \cup b} /\ Overlapping(a, b)
    BY DEF Merge
  <1>2. ClassesInv /\ GroupsInv /\ CoverInv /\ PairsInv /\ Entities \subseteq Names
    BY <1>1 DEF ClustersInv
  <1>3. Whole(a \cup b)
    BY <1>1, <1>2, OverlapMeets, WholeTogether DEF GroupsInv
  <1>4. ClassesInv'
    BY <1>1, <1>2, SameWords DEF ClassesInv
  <1>5. GroupsInv'
    BY <1>1, <1>2, <1>3, SameWords DEF GroupsInv
  <1>6. CoverInv'
    <2>1. ASSUME NEW s \in groups \cup classes
          PROVE  \E u \in groups' \cup classes' : s \subseteq u
      <3>1. CASE s \in {a, b}
        BY <1>1, <3>1
      <3>2. CASE s \notin {a, b}
        BY <1>1, <2>1, <3>2
      <3> QED
        BY <3>1, <3>2
    <2> QED
      BY <1>1, <1>2, <2>1, StillCovered
  <1>7. PairsInv'
    BY <1>1, <1>2, SameWords DEF PairsInv
  <1> QED
    BY <1>1, <1>2, <1>4, <1>5, <1>6, <1>7, SameWords DEF ClustersInv

LEMMA UniteGroupKeeps ==
  ASSUME ClustersInv, NEW g \in groups, UniteGroup(g)
  PROVE  ClustersInv'
  <1>1. /\ UNCHANGED <<words, build, pairs>> /\ build = "unite"
        /\ classes' = Unite(g) /\ groups' = groups \ {g}
    BY DEF UniteGroup
  <1>2. ClassesInv /\ GroupsInv /\ CoverInv /\ PairsInv /\ Entities \subseteq Names
    BY <1>1 DEF ClustersInv
  <1>3. Whole(g)
    BY <1>2 DEF GroupsInv
  <1>4. /\ ClassesInv' /\ \E c \in classes' : g \subseteq c
        /\ \A c \in classes : \E d \in classes' : c \subseteq d
    BY <1>1, <1>2, <1>3, UniteJoins
  <1>5. GroupsInv'
    BY <1>1, <1>2, SameWords DEF GroupsInv
  <1>6. CoverInv'
    <2>1. \A s \in groups \cup classes : \E u \in groups' \cup classes' : s \subseteq u
      BY <1>1, <1>4
    <2> QED
      BY <1>1, <1>2, <2>1, StillCovered
  <1>7. PairsInv'
    BY <1>1, <1>2, SameWords DEF PairsInv
  <1> QED
    BY <1>1, <1>2, <1>4, <1>5, <1>6, <1>7, SameWords DEF ClustersInv

\* Two entities that share a distinctive word are whole.
LEMMA PairIsWhole ==
  ASSUME NEW p, NEW t \in Distinctive, {p[1], p[2]} \subseteq With(t)
  PROVE  Whole({p[1], p[2]})
  <1>1. {p[1], p[2]} \in SUBSET Entities /\ {p[1], p[2]} # {}
    BY DEF With
  <1>2. ASSUME NEW u \in SUBSET Entities, Closed(u), u \cap {p[1], p[2]} # {}
        PROVE  {p[1], p[2]} \subseteq u
    BY <1>2 DEF Closed
  <1> QED
    BY <1>1, <1>2 DEF Whole

LEMMA UnitePairKeeps ==
  ASSUME ClustersInv, NEW p \in pairs, UnitePair(p)
  PROVE  ClustersInv'
  <1>1. /\ UNCHANGED <<words, build, groups>> /\ build = "unite"
        /\ classes' = Unite({p[1], p[2]}) /\ pairs' = pairs \ {p}
    BY DEF UnitePair
  <1>2. ClassesInv /\ GroupsInv /\ CoverInv /\ PairsInv /\ Entities \subseteq Names
    BY <1>1 DEF ClustersInv
  <1>3. Whole({p[1], p[2]})
    BY <1>2, PairIsWhole DEF PairsInv
  <1>4. ClassesInv' /\ \A c \in classes : \E d \in classes' : c \subseteq d
    BY <1>1, <1>2, <1>3, UniteJoins
  <1>5. GroupsInv'
    BY <1>1, <1>2, SameWords DEF GroupsInv
  <1>6. CoverInv'
    <2>1. \A s \in groups \cup classes : \E u \in groups' \cup classes' : s \subseteq u
      BY <1>1, <1>4
    <2> QED
      BY <1>1, <1>2, <2>1, StillCovered
  <1>7. PairsInv'
    BY <1>1, <1>2, SameWords DEF PairsInv
  <1> QED
    BY <1>1, <1>2, <1>4, <1>5, <1>6, <1>7, SameWords DEF ClustersInv

\* Steps that touch neither words nor classes.
LEMMA StandsStill ==
  ASSUME ClustersInv, UNCHANGED <<words, groups, classes, pairs>>, build # "idle",
         build' \in {"merge", "unite", "done"}, build' = "done" => groups = {} /\ pairs = {}
  PROVE  ClustersInv'
  <1>1. ClassesInv /\ GroupsInv /\ CoverInv /\ PairsInv /\ Entities \subseteq Names
    BY DEF ClustersInv
  <1>2. ClassesInv' /\ GroupsInv' /\ CoverInv' /\ PairsInv'
    BY <1>1, SameWords DEF ClassesInv, GroupsInv, CoverInv, PairsInv
  <1> QED
    BY <1>1, <1>2, SameWords DEF ClustersInv

LEMMA ClustersKeeps == ClustersInv /\ [ClustersNext]_clustersVars => ClustersInv'
  <1> SUFFICES ASSUME ClustersInv, [ClustersNext]_clustersVars PROVE ClustersInv'
    OBVIOUS
  <1>1. CASE \E e \in Names, name \in SUBSET NameWords : Store(e, name)
    <2>1. PICK e \in Names : Entities' = Entities \cup {e} /\ build' = "idle"
      BY <1>1 DEF Store, Entities
    <2> QED
      BY <2>1 DEF ClustersInv
  <1>2. CASE Begin
    BY <1>2, BeginKeeps
  <1>3. CASE Merged
    BY <1>3, StandsStill DEF Merged
  <1>4. CASE Grouped
    BY <1>4, StandsStill DEF Grouped
  <1>5. CASE \E a, b \in groups : Merge(a, b)
    BY <1>5, MergeKeeps
  <1>6. CASE \E g \in groups : UniteGroup(g)
    BY <1>6, UniteGroupKeeps
  <1>7. CASE \E p \in pairs : UnitePair(p)
    BY <1>7, UnitePairKeeps
  <1>8. CASE UNCHANGED clustersVars
    <2>1. UNCHANGED <<words, groups, classes, pairs, build>>
      BY <1>8 DEF clustersVars
    <2>2. CASE build = "idle"
      BY <2>1, <2>2, SameWords DEF ClustersInv
    <2>3. CASE build # "idle"
      BY <2>1, <2>3, StandsStill DEF ClustersInv
    <2> QED
      BY <2>2, <2>3
  <1> QED
    BY <1>1, <1>2, <1>3, <1>4, <1>5, <1>6, <1>7, <1>8 DEF ClustersNext

\* The invariant of the loops of build_clusters.
THEOREM ClustersInvariant == ClustersSpec => []ClustersInv
  BY ClustersStarts, ClustersKeeps, PTL DEF ClustersSpec

-----------------------------------------------------------------------------
(* What it says at the end.                                                *)

\* A class that is complete is a chain, and so nothing smaller is closed.
LEMMA ClassIsClosed ==
  ASSUME ClustersInv, build = "done", NEW c \in classes
  PROVE  Closed(c)
  <1> SUFFICES ASSUME NEW t \in Distinctive, With(t) \cap c # {}
               PROVE  With(t) \subseteq c
    BY DEF Closed
  <1>1. PICK d \in classes : With(t) \subseteq d
    BY DEF ClustersInv, CoverInv
  <1>2. d = c
    BY <1>1 DEF ClustersInv, ClassesInv
  <1> QED
    BY <1>1, <1>2

LEMMA ClassesAreChains ==
  ASSUME ClustersInv, build = "done"
  PROVE  classes = Chains
  <1> DEFINE closed == {s \in SUBSET Entities : s # {} /\ Closed(s)}
  <1>1. ClassesInv
    BY DEF ClustersInv
  <1>2. ASSUME NEW c \in classes
        PROVE  c \in closed /\ \A u \in closed : u \subseteq c => u = c
    <2>1. Whole(c) /\ Closed(c)
      BY <1>1, ClassIsClosed DEF ClassesInv
    <2> QED
      BY <2>1 DEF Whole
  <1>3. ASSUME NEW s \in closed, \A u \in closed : u \subseteq s => u = s
        PROVE  s \in classes
    <2>1. PICK c \in classes : c \cap s # {}
      BY <1>1 DEF ClassesInv
    <2>2. c \subseteq s
      BY <1>1, <2>1 DEF ClassesInv, Whole
    <2>3. c \in closed
      BY <1>2
    <2> QED
      BY <1>3, <2>2, <2>3
  <1> QED
    BY <1>2, <1>3 DEF Chains

\* Every word a topic is named by is a word of one of its members.
LEMMA NamedByMembers ==
  ASSUME Entities \subseteq Names, NEW c \in SUBSET Entities, c # {},
         NEW name \in SharedWords(c)
  PROVE  name # {} /\ \A t \in name : t \in Distinctive /\ With(t) \cap c # {}
  <1> DEFINE common == {t \in Distinctive : c \subseteq With(t)}
             count(t) == Cardinality(With(t) \cap c)
             frequent == {t \in Distinctive : 10 * count(t) >= 6 * Cardinality(c)}
  <1>1. CASE common # {}
    <2>1. name = common
      BY <1>1 DEF SharedWords
    <2> QED
      BY <1>1, <2>1
  <1>2. CASE common = {}
    <2>1. name \in SUBSET frequent /\ name # {}
      BY <1>2 DEF SharedWords
    <2>2. ASSUME NEW t \in frequent
          PROVE  With(t) \cap c # {}
      <3>1. Cardinality(c) \in Nat /\ Cardinality(c) # 0
        BY FewEntities
      <3>2. count(t) \in Nat /\ (count(t) = 0 <=> With(t) \cap c = {})
        BY FewEntities
      <3>3. 10 * count(t) >= 6 * Cardinality(c)
        OBVIOUS
      <3>4. count(t) # 0
        BY <3>1, <3>2, <3>3
      <3> QED
        BY <3>2, <3>4
    <2> QED
      BY <2>1, <2>2
  <1> QED
    BY <1>1, <1>2

\* So no two clusters have the same name.
LEMMA NamesDiffer ==
  ASSUME ClustersInv, build = "done", NEW o \in Outcomes,
         NEW c \in DOMAIN o, NEW d \in DOMAIN o, o[c] = o[d]
  PROVE  c = d
  <1>1. c \in classes /\ d \in classes /\ o[c] \in SharedWords(c) /\ o[d] \in SharedWords(d)
    BY DEF Outcomes
  <1>2. /\ c \in SUBSET Entities /\ c # {} /\ d \in SUBSET Entities /\ d # {}
        /\ Entities \subseteq Names
    BY <1>1 DEF ClustersInv, ClassesInv, Whole
  <1>3. PICK t \in o[c] : t \in Distinctive /\ With(t) \cap c # {} /\ With(t) \cap d # {}
    BY <1>1, <1>2, NamedByMembers
  <1>4. With(t) \subseteq c /\ With(t) \subseteq d
    BY <1>1, <1>3, ClassIsClosed DEF Closed
  <1> QED
    BY <1>1, <1>3, <1>4 DEF ClustersInv, ClassesInv

LEMMA OneRowEach ==
  ASSUME ClustersInv, build = "done", NEW o \in Outcomes
  PROVE  LET topics == Rebuild([n \in {} |-> {}], o)
         IN  {topics[n] : n \in DOMAIN topics} = DOMAIN o
  <1> DEFINE topics == Rebuild([n \in {} |-> {}], o)
  <1> SUFFICES {topics[n] : n \in DOMAIN topics} = DOMAIN o
    OBVIOUS
  <1>1. DOMAIN topics = {o[c] : c \in DOMAIN o}
    BY DEF Rebuild
  <1>2. ASSUME NEW c \in DOMAIN o
        PROVE  topics[o[c]] = c
    <2>1. {d \in DOMAIN o : o[d] = o[c]} = {c}
      BY NamesDiffer
    <2>2. topics[o[c]] = UNION {d \in DOMAIN o : o[d] = o[c]}
      BY <1>1 DEF Rebuild
    <2> QED
      BY <2>1, <2>2
  <1> HIDE DEF topics
  <1> QED
    BY <1>1, <1>2

\* The topics of build_clusters are exactly the chains of names that share distinctive
\* words, and rebuild_topics gives each a row of its own.
THEOREM TopicsAreAlwaysChains == ClustersSpec => []TopicsAreChains
  <1>1. ClustersInv => TopicsAreChains
    BY ClassesAreChains, OneRowEach DEF TopicsAreChains
  <1> QED
    BY <1>1, ClustersInvariant, PTL
=============================================================================
