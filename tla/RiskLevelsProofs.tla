-------------------------- MODULE RiskLevelsProofs --------------------------
(* The scale of levels is a scale for every profile and every reading, the  *)
(* demonstration shows each of its levels, and the overview every sample.   *)
EXTENDS PresentationReadings, OverviewSeries, FiniteSetTheorems, WellFoundedInduction, TLAPS

(* The numbers of a profile and of a complete sample.                       *)
Thresholds(p) ==
  /\ p.consecutiveDays \in Int /\ p.continuationRain \in Int
  /\ \A s \in Sensors : p.safe[s] \in Int /\ p.danger[s] \in Int /\ p.safe[s] < p.danger[s]

(* Worse readings, a longer wet spell and stricter limits: never a lower    *)
(* level.                                                                   *)
LEMMA LevelOfIsMonotone ==
  ASSUME NEW p, NEW q, Thresholds(p), Thresholds(q), NoLaxer(p, q),
         NEW r \in [Sensors -> Int], NEW t \in [Sensors -> Int], AtLeast(r, t),
         NEW m \in Int, NEW n \in Int, m >= n
  PROVE  Rank(LevelOf(p, r, m)) >= Rank(LevelOf(q, t, n))
<1>1. \A s \in Sensors : /\ r[s] \in Int /\ t[s] \in Int /\ r[s] >= t[s]
                         /\ p.safe[s] \in Int /\ p.danger[s] \in Int
                         /\ q.safe[s] \in Int /\ q.danger[s] \in Int
                         /\ p.safe[s] <= q.safe[s] /\ p.danger[s] <= q.danger[s]
                         /\ p.safe[s] < p.danger[s] /\ q.safe[s] < q.danger[s]
  BY DEF Thresholds, AtLeast, NoLaxer
<1>2. /\ p.consecutiveDays \in Int /\ p.continuationRain \in Int
      /\ q.consecutiveDays \in Int /\ q.continuationRain \in Int
      /\ p.consecutiveDays <= q.consecutiveDays /\ p.continuationRain <= q.continuationRain
  BY DEF Thresholds, NoLaxer
<1>3. "tilt" \in Sensors /\ "soil" \in Sensors /\ "rain" \in Sensors
  BY DEF Sensors
<1>4. ProlongedRainfall(q, t, n) => ProlongedRainfall(p, r, m)
  BY <1>1, <1>2, <1>3 DEF ProlongedRainfall
<1>5. CombinedRainAndTilt(q, t) => CombinedRainAndTilt(p, r)
  BY <1>1, <1>3 DEF CombinedRainAndTilt
<1>6. SomeDangerLimit(q, t) => SomeDangerLimit(p, r)
  BY <1>1, <1>3 DEF SomeDangerLimit
<1>7. AllBelowSafe(p, r) => AllBelowSafe(q, t) /\ ~SomeDangerLimit(p, r)
  BY <1>1, <1>3 DEF AllBelowSafe, SomeDangerLimit
<1>8. \A x : x \in {"SAFE", "WATCH", "WARNING", "DANGER"} => Rank(x) \in 1..4
  BY DEF Rank
<1>9. Rank("SAFE") = 1 /\ Rank("WATCH") = 2 /\ Rank("WARNING") = 3 /\ Rank("DANGER") = 4
  BY DEF Rank
<1>10. QED
  BY <1>4, <1>5, <1>6, <1>7, <1>9 DEF LevelOf

(* A sample with a level has all its readings.                              *)
LEMMA LevelNeedsReadings ==
  ASSUME NEW r \in [Sensors -> Int \cup {Missing}], NEW p, NEW n,
         Classify(TRUE, p, r, n) # "UNKNOWN"
  PROVE  r \in [Sensors -> Int] /\ Classify(TRUE, p, r, n) = LevelOf(p, r, n)
<1>1. ~SensorMissing(r) /\ Classify(TRUE, p, r, n) = LevelOf(p, r, n)
  BY DEF Classify
<1>2. r["tilt"] # Missing /\ r["soil"] # Missing /\ r["rain"] # Missing
  BY <1>1 DEF SensorMissing
<1>3. QED
  BY <1>1, <1>2 DEF Sensors

(* However much it rained, the days in a row are a number and not more than *)
(* the profile asks about.                                                  *)
LEMMA WetDaysAreCounted ==
  ASSUME NEW history, NEW at, NEW days \in Int, days >= 1, NEW range
  PROVE  /\ ModerateDays(history, at, days, range) \in Nat
         /\ ModerateDays(history, at, days, range) <= days
<1> DEFINE InARow == {k \in 1..days :
      \A j \in 1..k : TotalOn(history, at, DateOf(at) - j) \in range.min..range.max}
<1>1. IsFiniteSet(1..days) /\ Cardinality(1..days) = days
  BY FS_Interval
<1>2. IsFiniteSet(InARow) /\ Cardinality(InARow) <= Cardinality(1..days)
  BY <1>1, FS_Subset
<1>3. Cardinality(InARow) \in Nat
  BY <1>2, FS_CardinalityType
<1>4. QED
  BY <1>1, <1>2, <1>3 DEF ModerateDays

(* Readings, history and profile keep their types.                          *)
THEOREM TypeCorrectness == Spec => []TypeOK
<1>1. Init => TypeOK
  <2> SUFFICES ASSUME Init PROVE TypeOK
    OBVIOUS
  <2>1. PICK t \in Times, r \in Readings : reading = r
    BY DEF Init
  <2>2. QED
    BY <2>1, ProfilesAssumption DEF ProfilesAssumption, Init, TypeOK
<1>2. TypeOK /\ [Next]_vars => TypeOK'
  <2> SUFFICES ASSUME TypeOK, [Next]_vars PROVE TypeOK'
    OBVIOUS
  <2>1. ASSUME NEW t \in Times, NEW r \in Readings, Sample(t, r) PROVE TypeOK'
    <3>1. wetDays' \in Nat
      BY <2>1, WetDaysAreCounted DEF Sample, TypeOK, ValidProfile
    <3>2. QED
      BY <2>1, <3>1, ProfilesAssumption DEF ProfilesAssumption, Sample, TypeOK
  <2>2. ASSUME NEW t \in Times, NEW r \in Readings, LateSample(t, r) PROVE TypeOK'
    BY <2>2 DEF LateSample, TypeOK
  <2>3. ASSUME NEW p \in Profiles, UpdateProfile(p) PROVE TypeOK'
    BY <2>3 DEF UpdateProfile, TypeOK
  <2>4. CASE UNCHANGED vars
    BY <2>4 DEF vars, TypeOK
  <2>5. QED
    BY <2>1, <2>2, <2>3, <2>4 DEF Next
<1>3. QED
  BY <1>1, <1>2, PTL DEF Spec

(* However a slope's readings, history and limits worsen, its level does    *)
(* not fall.                                                                *)
THEOREM WorseningNeverLowers == Spec => WorseIsNeverLower
<1> DEFINE NotLower ==
      /\ Level # "UNKNOWN" /\ Level' # "UNKNOWN"
      /\ AtLeast(reading', reading) /\ wetDays' >= wetDays /\ NoLaxer(profile', profile)
      => Rank(Level') >= Rank(Level)
<1>1. \A p \in Profiles : ValidProfile(p) => Thresholds(p)
  BY ProfilesAssumption DEF ProfilesAssumption, ValidProfile, Thresholds
<1>2. TypeOK /\ TypeOK' => [NotLower]_vars
  <2> SUFFICES ASSUME TypeOK, TypeOK', Level # "UNKNOWN", Level' # "UNKNOWN",
                      AtLeast(reading', reading), wetDays' >= wetDays,
                      NoLaxer(profile', profile)
               PROVE  Rank(Level') >= Rank(Level)
    OBVIOUS
  <2>1. /\ Thresholds(profile) /\ Thresholds(profile')
        /\ wetDays \in Int /\ wetDays' \in Int
        /\ reading \in [Sensors -> Int \cup {Missing}]
        /\ reading' \in [Sensors -> Int \cup {Missing}]
    BY <1>1 DEF TypeOK
  <2>2. reading \in [Sensors -> Int] /\ Level = LevelOf(profile, reading, wetDays)
    BY <2>1, LevelNeedsReadings DEF Level
  <2>3. reading' \in [Sensors -> Int] /\ Level' = LevelOf(profile', reading', wetDays')
    BY <2>1, LevelNeedsReadings DEF Level
  <2>4. QED
    BY <2>1, <2>2, <2>3, LevelOfIsMonotone
<1>3. QED
  BY <1>2, TypeCorrectness, PTL DEF WorseIsNeverLower

-----------------------------------------------------------------------------
(* The samples of the demonstration, whatever limits the profile has.       *)

Lowest(p, s) == Between(p.safe[s], p.danger[s], 5)
Middle(p, s) == Between(p.safe[s], p.danger[s], 11)
Highest(p, s) == Above(p.safe[s], p.danger[s])

\* The samples of a sensor in order, with its limits between them.
LEMMA SamplesAreOrdered ==
  ASSUME NEW p \in Profiles, ValidProfile(p), NEW s \in Sensors
  PROVE  /\ Lowest(p, s) \in Int /\ Middle(p, s) \in Int /\ Highest(p, s) \in Int
         /\ 10 * p.safe[s] \in Int /\ 10 * p.danger[s] \in Int
         /\ Lowest(p, s) < 10 * p.safe[s]
         /\ 10 * p.safe[s] <= Middle(p, s) /\ Middle(p, s) < 10 * p.danger[s]
         /\ 10 * p.danger[s] <= Highest(p, s)
<1>1. p.safe[s] \in Int /\ p.danger[s] \in Int /\ p.safe[s] < p.danger[s]
  BY ProfilesAssumption DEF ValidProfile
<1> DEFINE a == p.safe[s]  b == p.danger[s]
<1>2. a \in Int /\ b \in Int /\ a < b
  BY <1>1
<1>3. Lowest(p, s) = 10 * a + (b - a) * (5 - 10) /\ Middle(p, s) = 10 * a + (b - a) * (11 - 10)
  BY DEF Lowest, Middle, Between
<1>4. Highest(p, s) = 10 * b + Larger(b - a, 1)
  BY DEF Highest, Above
<1> HIDE DEF a, b
<1>5. (b - a) * (5 - 10) = 5 * a - 5 * b /\ (b - a) * (11 - 10) = b - a
  BY <1>2
<1>6. Larger(b - a, 1) = b - a
  BY <1>2 DEF Larger
<1>7. /\ Lowest(p, s) \in Int /\ Middle(p, s) \in Int /\ Highest(p, s) \in Int
      /\ Lowest(p, s) < 10 * a /\ 10 * a <= Middle(p, s) /\ Middle(p, s) < 10 * b /\ 10 * b <= Highest(p, s)
  BY <1>2, <1>3, <1>4, <1>5, <1>6
<1> QED
  BY <1>2, <1>7 DEF a, b

\* What lies between two plausible samples is plausible.
LEMMA RangesAreConvex ==
  ASSUME NEW p \in Profiles, NEW s \in Sensors,
         NEW low \in Int, NEW high \in Int, NEW x \in Int, low <= x, x <= high,
         InRange(low, Finer(p).ranges[s]), InRange(high, Finer(p).ranges[s])
  PROVE  InRange(x, Finer(p).ranges[s])
<1>1. p.ranges[s] \in [min : Int, max : Int \cup {Missing}]
  BY PresentationAssumption
<1>2. Finer(p).ranges[s] = [min |-> 10 * p.ranges[s].min,
                            max |-> IF p.ranges[s].max = Missing THEN Missing ELSE 10 * p.ranges[s].max]
  BY DEF Finer
<1> QED
  BY <1>1, <1>2 DEF InRange

\* A sample whose values lie between the lowest and the highest one is judged.
LEMMA SampleIsJudged ==
  ASSUME NEW p \in Profiles, ValidProfile(p), Presentable(p), NEW days,
         NEW r, r \in [Sensors -> Int],
         \A s \in Sensors : Lowest(p, s) <= r[s] /\ r[s] <= Highest(p, s)
  PROVE  Classify(TRUE, Finer(p), r, days) = LevelOf(Finer(p), r, days)
<1>1. ASSUME NEW s \in Sensors
      PROVE  r[s] \in Int /\ r[s] # Missing /\ InRange(r[s], Finer(p).ranges[s])
  <2>1. InRange(Lowest(p, s), Finer(p).ranges[s]) /\ InRange(Highest(p, s), Finer(p).ranges[s])
    BY DEF Presentable, Lowest, Highest
  <2> QED
    BY <2>1, SamplesAreOrdered, RangesAreConvex, RainfallAssumption
<1>2. Finer(p) # Missing
  BY PresentationAssumption
<1> QED
  BY <1>1, <1>2 DEF Classify, SensorMissing, SensorsValid, Sensors

\* The rules for the limits as samples are measured.
LEMMA LevelsOfSamples ==
  ASSUME NEW p \in Profiles, ValidProfile(p), NEW days \in Nat, days < p.consecutiveDays, NEW r
  PROVE  LevelOf(Finer(p), r, days) =
           IF r.tilt >= 10 * p.danger.tilt /\ r.rain >= 10 * p.danger.rain THEN "DANGER"
           ELSE IF \/ r.tilt >= 10 * p.danger.tilt
                   \/ r.rain >= 10 * p.danger.rain
                   \/ r.soil >= 10 * p.danger.soil THEN "WARNING"
           ELSE IF /\ r.tilt < 10 * p.safe.tilt
                   /\ r.soil < 10 * p.safe.soil
                   /\ r.rain < 10 * p.safe.rain THEN "SAFE"
           ELSE "WATCH"
<1>1. /\ Finer(p).danger.tilt = 10 * p.danger.tilt
      /\ Finer(p).danger.rain = 10 * p.danger.rain
      /\ Finer(p).danger.soil = 10 * p.danger.soil
      /\ Finer(p).safe.tilt = 10 * p.safe.tilt
      /\ Finer(p).safe.soil = 10 * p.safe.soil
      /\ Finer(p).safe.rain = 10 * p.safe.rain
      /\ Finer(p).consecutiveDays = p.consecutiveDays
  BY DEF Finer, Sensors
<1>2. ~(days >= p.consecutiveDays)
  BY ProfilesAssumption
<1> QED
  BY <1>1, <1>2 DEF LevelOf, CombinedRainAndTilt, ProlongedRainfall, SomeDangerLimit, AllBelowSafe

\* The samples of the demonstration have the levels of its script.
LEMMA PresentedInOrder ==
  ASSUME NEW p \in Profiles, ValidProfile(p), Presentable(p), NEW days \in Nat, days < p.consecutiveDays
  PROVE  PresentedLevels(p, days) = <<"SAFE", "WATCH", "WARNING", "DANGER", "UNKNOWN", "SAFE">>
<1> DEFINE level(r) == Classify(TRUE, Finer(p), r, days)
<1>o. \A s \in Sensors :
        /\ Lowest(p, s) \in Int /\ Middle(p, s) \in Int /\ Highest(p, s) \in Int
        /\ 10 * p.safe[s] \in Int /\ 10 * p.danger[s] \in Int
        /\ Lowest(p, s) < 10 * p.safe[s]
        /\ 10 * p.safe[s] <= Middle(p, s) /\ Middle(p, s) < 10 * p.danger[s]
        /\ 10 * p.danger[s] <= Highest(p, s)
  BY SamplesAreOrdered
<1>s. {"tilt", "soil", "rain"} = Sensors
  BY DEF Sensors
<1>j. \A r \in [Sensors -> Int] :
        (\A s \in Sensors : Lowest(p, s) <= r[s] /\ r[s] <= Highest(p, s)) =>
          level(r) = LevelOf(Finer(p), r, days)
  BY SampleIsJudged
<1>l. \A r :
        LevelOf(Finer(p), r, days) =
          IF r.tilt >= 10 * p.danger.tilt /\ r.rain >= 10 * p.danger.rain THEN "DANGER"
          ELSE IF \/ r.tilt >= 10 * p.danger.tilt
                  \/ r.rain >= 10 * p.danger.rain
                  \/ r.soil >= 10 * p.danger.soil THEN "WARNING"
          ELSE IF /\ r.tilt < 10 * p.safe.tilt
                  /\ r.soil < 10 * p.safe.soil
                  /\ r.rain < 10 * p.safe.rain THEN "SAFE"
          ELSE "WATCH"
  BY LevelsOfSamples
<1> HIDE DEF level
<1>1. level(ReadingsAt(p, 5)) = "SAFE"
  <2> DEFINE r == ReadingsAt(p, 5)
  <2>1. r \in [Sensors -> Int] /\ \A s \in Sensors : r[s] = Lowest(p, s)
    BY <1>o DEF ReadingsAt, Lowest
  <2> HIDE DEF r
  <2>2. \A s \in Sensors : Lowest(p, s) <= r[s] /\ r[s] <= Highest(p, s)
    BY <1>o, <2>1
  <2>3. level(r) = LevelOf(Finer(p), r, days)
    BY <1>j, <2>1, <2>2
  <2>4. /\ r.tilt < 10 * p.safe.tilt /\ r.soil < 10 * p.safe.soil /\ r.rain < 10 * p.safe.rain
        /\ ~(r.tilt >= 10 * p.danger.tilt) /\ ~(r.soil >= 10 * p.danger.soil) /\ ~(r.rain >= 10 * p.danger.rain)
    BY <1>o, <1>s, <2>1
  <2> QED
    BY <1>l, <2>3, <2>4 DEF r
<1>2. level(ReadingsAt(p, 11)) = "WATCH"
  <2> DEFINE r == ReadingsAt(p, 11)
  <2>1. r \in [Sensors -> Int] /\ \A s \in Sensors : r[s] = Middle(p, s)
    BY <1>o DEF ReadingsAt, Middle
  <2> HIDE DEF r
  <2>2. \A s \in Sensors : Lowest(p, s) <= r[s] /\ r[s] <= Highest(p, s)
    BY <1>o, <2>1
  <2>3. level(r) = LevelOf(Finer(p), r, days)
    BY <1>j, <2>1, <2>2
  <2>4. /\ ~(r.tilt < 10 * p.safe.tilt)
        /\ ~(r.tilt >= 10 * p.danger.tilt) /\ ~(r.soil >= 10 * p.danger.soil) /\ ~(r.rain >= 10 * p.danger.rain)
    BY <1>o, <1>s, <2>1
  <2> QED
    BY <1>l, <2>3, <2>4 DEF r
<1>3. level(Warned(p)) = "WARNING"
  <2> DEFINE r == Warned(p)
  <2>1. /\ r \in [Sensors -> Int]
        /\ r.tilt = 10 * p.danger.tilt /\ r.soil = Lowest(p, "soil") /\ r.rain = Lowest(p, "rain")
    BY <1>o, <1>s DEF Warned, ReadingsAt, Lowest
  <2> HIDE DEF r
  <2>2. \A s \in Sensors : Lowest(p, s) <= r[s] /\ r[s] <= Highest(p, s)
    BY <1>o, <1>s, <2>1
  <2>3. level(r) = LevelOf(Finer(p), r, days)
    BY <1>j, <2>1, <2>2
  <2>4. r.tilt >= 10 * p.danger.tilt /\ ~(r.rain >= 10 * p.danger.rain)
    BY <1>o, <1>s, <2>1
  <2> QED
    BY <1>l, <2>3, <2>4 DEF r
<1>4. level(ReadingsAbove(p)) = "DANGER"
  <2> DEFINE r == ReadingsAbove(p)
  <2>1. r \in [Sensors -> Int] /\ \A s \in Sensors : r[s] = Highest(p, s)
    BY <1>o DEF ReadingsAbove, Highest
  <2> HIDE DEF r
  <2>2. \A s \in Sensors : Lowest(p, s) <= r[s] /\ r[s] <= Highest(p, s)
    BY <1>o, <2>1
  <2>3. level(r) = LevelOf(Finer(p), r, days)
    BY <1>j, <2>1, <2>2
  <2>4. r.tilt >= 10 * p.danger.tilt /\ r.rain >= 10 * p.danger.rain
    BY <1>o, <1>s, <2>1
  <2> QED
    BY <1>l, <2>3, <2>4 DEF r
<1>5. level([ReadingsAbove(p) EXCEPT !.tilt = Missing]) = "UNKNOWN"
  <2>1. [ReadingsAbove(p) EXCEPT !.tilt = Missing].tilt = Missing
    BY <1>s DEF ReadingsAbove
  <2> QED
    BY <2>1 DEF level, Classify, SensorMissing
<1>6. /\ Presented(p)[1].readings = ReadingsAt(p, 5) /\ Presented(p)[2].readings = ReadingsAt(p, 11)
      /\ Presented(p)[3].readings = Warned(p) /\ Presented(p)[4].readings = ReadingsAbove(p)
      /\ Presented(p)[5].readings = [ReadingsAbove(p) EXCEPT !.tilt = Missing]
      /\ Presented(p)[6].readings = ReadingsAt(p, 5)
  BY DEF Presented
<1>7. PresentedLevels(p, days) = [i \in 1..6 |-> level(Presented(p)[i].readings)]
  BY DEF level, PresentedLevels
<1> DEFINE expected == <<"SAFE", "WATCH", "WARNING", "DANGER", "UNKNOWN", "SAFE">>
<1>8. \A i \in 1..6 : level(Presented(p)[i].readings) = expected[i]
  <2>1. \A i \in 1..6 : i \in {1, 2, 3, 4, 5, 6}
    OBVIOUS
  <2> QED
    BY <1>1, <1>2, <1>3, <1>4, <1>5, <1>6, <2>1
<1>9. expected = [i \in 1..6 |-> expected[i]]
  OBVIOUS
<1> QED
  BY <1>7, <1>8, <1>9

\* Whatever profile the validation lets through: if its limits leave room
\* for the samples and no days of rain have come before, the demonstration
\* shows SAFE, WATCH, WARNING, DANGER and UNKNOWN in this order, and the
\* firmware's own level never contradicts them (presentationReadings).
THEOREM DemonstrationIsComplete == Spec => []PresentationShowsEveryLevel
<1>1. TypeOK => PresentationShowsEveryLevel
  <2> SUFFICES ASSUME TypeOK, Presentable(profile), wetDays < profile.consecutiveDays
               PROVE  /\ PresentedLevels(profile, wetDays) =
                           <<"SAFE", "WATCH", "WARNING", "DANGER", "UNKNOWN", "SAFE">>
                      /\ \A i \in 1..6 :
                           IsFirmwareRiskCompatible(Presented(profile)[i].firmwareRisk,
                                                    PresentedLevels(profile, wetDays)[i])
    BY DEF PresentationShowsEveryLevel
  <2>1. PresentedLevels(profile, wetDays) = <<"SAFE", "WATCH", "WARNING", "DANGER", "UNKNOWN", "SAFE">>
    BY PresentedInOrder DEF TypeOK
  <2>2. ASSUME NEW i \in 1..6
        PROVE  IsFirmwareRiskCompatible(Presented(profile)[i].firmwareRisk, PresentedLevels(profile, wetDays)[i])
    <3>1. /\ Presented(profile)[1].firmwareRisk = "SAFE" /\ Presented(profile)[2].firmwareRisk = "WATCH"
          /\ Presented(profile)[3].firmwareRisk = "DANGER" /\ Presented(profile)[4].firmwareRisk = "DANGER"
          /\ Presented(profile)[5].firmwareRisk = "UNKNOWN" /\ Presented(profile)[6].firmwareRisk = "SAFE"
      BY DEF Presented
    <3>2. i \in {1, 2, 3, 4, 5, 6}
      OBVIOUS
    <3> QED
      BY <2>1, <3>1, <3>2 DEF IsFirmwareRiskCompatible
  <2> QED
    BY <2>1, <2>2
<1> QED
  BY <1>1, TypeCorrectness, PTL

-----------------------------------------------------------------------------
(* The series of the overview, for any lengths of its buckets.              *)

\* Buckets of a length L: the multiples of L, each number in one of them.
LEMMA InOneBucket ==
  ASSUME NEW L \in Nat \ {0}, NEW n \in Nat
  PROVE  /\ (n \div L) * L \in Nat
         /\ (n \div L) * L <= n /\ n < (n \div L) * L + L
         /\ ((n \div L) * L) % L = 0
<1>1. PICK q \in Nat : q = n \div L OBVIOUS
<1>2. q * L \in Nat /\ (q * L) % L = 0 BY <1>1
<1>3. q * L <= n /\ n < q * L + L BY <1>1
<1> QED BY <1>1, <1>2, <1>3

TimesInv == DOMAIN rain \subseteq Times /\ latest \in DOMAIN rain

LEMMA TimesInvariant == Spec => []TimesInv
<1>1. Init => TimesInv BY DEF Init, TimesInv
<1>2. TimesInv /\ [Next]_vars => TimesInv'
  <2> SUFFICES ASSUME TimesInv, [Next]_vars PROVE TimesInv'
    OBVIOUS
  <2>1. ASSUME NEW t \in Times, NEW r, rain' = With(t, r), latest' \in {latest, t} PROVE TimesInv'
    BY <2>1 DEF With, TimesInv
  <2>2. ASSUME UNCHANGED <<rain, latest>> PROVE TimesInv'
    BY <2>2 DEF TimesInv
  <2> QED BY <2>1, <2>2 DEF Next, Sample, LateSample, UpdateProfile, vars
<1> QED BY <1>1, <1>2, PTL DEF Spec

\* A sample is in the one bucket that begins less than its length before it.
LEMMA SampleIsInItsBucket ==
  ASSUME NEW from \in Int, NEW to \in Int, to - from > RawUpTo,
         NEW t \in DOMAIN rain, t \in Int, from <= t, t < to
  PROVE  \E b \in DOMAIN Series(from, to) :
           /\ t \in Series(from, to)[b] /\ b <= t /\ t < b + Coarse
           /\ \A c \in DOMAIN Series(from, to) : t \in Series(from, to)[c] => c = b
<1> DEFINE inRange == {u \in DOMAIN rain : from <= u /\ u < to}
<1>1. PICK L \in Nat \ {0} : L = BucketLength(from, to) /\ L <= Coarse
  BY SeriesAssumption DEF BucketLength
<1>2. PICK b : b = Bin(L, t, from) OBVIOUS
<1>3. /\ b \in Int /\ from <= b /\ b <= t /\ t < b + L /\ (b - from) % L = 0
  <2>1. PICK n \in Nat : n = t - from OBVIOUS
  <2>2. PICK m \in Nat : m = (n \div L) * L /\ m <= n /\ n < m + L /\ m % L = 0 BY InOneBucket
  <2>3. b = from + m BY <1>2, <2>1, <2>2 DEF Bin
  <2>4. b - from = m BY <2>3
  <2> QED BY <2>1, <2>2, <2>3, <2>4
<1>4. Buckets(from, to) = [x \in {Bin(L, u, from) : u \in inRange} |-> {u \in inRange : Bin(L, u, from) = x}]
  BY <1>1 DEF Buckets
<1>5. /\ b \in DOMAIN Buckets(from, to) /\ t \in Buckets(from, to)[b]
      /\ \A c \in DOMAIN Buckets(from, to) : t \in Buckets(from, to)[c] => c = b
  BY <1>2, <1>4
<1>6. Series(from, to) = Fill(Buckets(from, to), from, to)
  BY SeriesAssumption DEF Series
<1>7. Series(from, to) = [x \in {u \in from..(to - 1) : (u - from) % L = 0} |->
         IF x \in DOMAIN Buckets(from, to) THEN Buckets(from, to)[x] ELSE {}]
  BY <1>1, <1>6 DEF Fill
<1>8. b \in DOMAIN Series(from, to) BY <1>3, <1>7
<1>9. b + L <= b + Coarse BY <1>1, <1>3, SeriesAssumption
<1> QED BY <1>1, <1>3, <1>5, <1>7, <1>8, <1>9, SeriesAssumption

\* Whatever the lengths of the buckets and the range, day by day or not:
\* each sample of the range is behind one point of the overview's series,
\* and less than a bucket after it (overviewSeries, fillOverviewBuckets).
THEOREM EverySampleIsShown == Spec => []SeriesShowsEverySample
<1>1. TimesInv => SeriesShowsEverySample
  <2> SUFFICES ASSUME TimesInv, NEW from \in Times, NEW to \in {t + 1 : t \in Times}, ValidRange(from, to),
                      NEW t \in DOMAIN rain, from <= t, t < to
               PROVE  /\ \E b \in DOMAIN Series(from, to) :
                            t \in Series(from, to)[b] /\ b <= t /\ t < b + Coarse
                      /\ \A b, c \in DOMAIN Series(from, to) :
                            t \in Series(from, to)[b] /\ t \in Series(from, to)[c] => b = c
    BY DEF SeriesShowsEverySample
  <2>1. from \in Int /\ to \in Int /\ t \in Int /\ Coarse \in Nat \ {0}
    <3>1. Times \subseteq Int /\ DOMAIN rain \subseteq Times BY ProfilesAssumption DEF TimesInv
    <3>2. PICK u \in Times : to = u + 1 OBVIOUS
    <3>3. Coarse \in Nat \ {0} BY SeriesAssumption
    <3>4. u \in Int /\ from \in Int /\ t \in Int BY <3>1
    <3> QED BY <3>2, <3>3, <3>4
  <2>2. CASE to - from <= RawUpTo
    <3>1. Series(from, to) = [u \in {v \in DOMAIN rain : from <= v /\ v < to} |-> {u}] BY <2>2 DEF Series
    <3> QED BY <2>1, <3>1
  <2>3. CASE ~(to - from <= RawUpTo)
    <3>1. PICK b \in DOMAIN Series(from, to) :
            /\ t \in Series(from, to)[b] /\ b <= t /\ t < b + Coarse
            /\ \A c \in DOMAIN Series(from, to) : t \in Series(from, to)[c] => c = b
      BY <2>1, <2>3, SampleIsInItsBucket, SeriesAssumption
    <3> QED BY <3>1
  <2> QED BY <2>2, <2>3
<1> QED BY <1>1, TimesInvariant, PTL

-----------------------------------------------------------------------------
(* Sums over finite sets                                                   *)

\* Induction over a set of numbers, which every later induction is an
\* instance of.
Below == {p \in Nat \X Nat : p[1] < p[2]}

\* The order of the naturals, for WFMin.
LEMMA BelowIsWellFounded == IsWellFoundedOn(Below, Nat)
BY NatLessThanWellFounded DEF OpToRel, Below

\* Induction as a statement about sets: the smallest number that is missed
\* has a predecessor that is not.
LEMMA NatSetInduction ==
  ASSUME NEW S, 0 \in S, \A n \in Nat : n \in S => n + 1 \in S
  PROVE  \A n \in Nat : n \in S
<1> DEFINE Missed == Nat \ S
<1> SUFFICES ASSUME Missed # {} PROVE FALSE OBVIOUS
<1>1. PICK x \in Missed : \A y \in Missed : <<y, x>> \notin Below
  BY BelowIsWellFounded, WFMin
<1>2. x # 0 /\ x - 1 \in Nat OBVIOUS
<1>3. <<x - 1, x>> \in Below BY <1>2 DEF Below
<1>4. x - 1 \in S BY <1>1, <1>2, <1>3
<1> QED BY <1>2, <1>4

\* A finite set without one of its elements.
LEMMA OneLess ==
  ASSUME NEW S, IsFiniteSet(S), NEW x \in S
  PROVE  IsFiniteSet(S \ {x}) /\ Cardinality(S) \in Nat /\ Cardinality(S \ {x}) = Cardinality(S) - 1
BY FS_RemoveElement, FS_CardinalityType

\* By induction over the number of elements.
LEMMA FiniteSetHasMaxAndMin ==
  ASSUME NEW S, IsFiniteSet(S), S # {}, S \subseteq Int
  PROVE  /\ Max(S) \in S /\ \A y \in S : y <= Max(S)
         /\ Min(S) \in S /\ \A y \in S : Min(S) <= y
<1> DEFINE Bounded(T) == \E x, z \in T : \A y \in T : z <= y /\ y <= x
<1> DEFINE N == {n \in Nat : \A T \in SUBSET S : IsFiniteSet(T) /\ Cardinality(T) = n + 1 => Bounded(T)}
<1>1. 0 \in N
  <2> SUFFICES ASSUME NEW T \in SUBSET S, IsFiniteSet(T), Cardinality(T) = 1 PROVE Bounded(T)
    OBVIOUS
  <2>1. PICK x : T = {x} BY FS_Singleton
  <2> QED BY <2>1
<1>2. ASSUME NEW n \in Nat, n \in N PROVE n + 1 \in N
  <2> SUFFICES ASSUME NEW T \in SUBSET S, IsFiniteSet(T), Cardinality(T) = n + 2 PROVE Bounded(T)
    OBVIOUS
  <2>1. PICK a \in T : TRUE
    <3>1. Cardinality(T) # 0 OBVIOUS
    <3> QED BY <3>1, FS_EmptySet
  <2>2. IsFiniteSet(T \ {a}) /\ Cardinality(T \ {a}) = n + 1 BY FS_RemoveElement
  <2>3. Bounded(T \ {a}) BY <1>2, <2>2
  <2>4. PICK x \in T \ {a}, z \in T \ {a} : \A y \in T \ {a} : z <= y /\ y <= x BY <2>3
  <2> DEFINE x1 == IF a > x THEN a ELSE x
             z1 == IF a < z THEN a ELSE z
  <2>5. x1 \in T /\ z1 \in T /\ \A y \in T : z1 <= y /\ y <= x1 BY <2>4
  <2> QED BY <2>5
<1>3. \A n \in Nat : n \in N
  <2> HIDE DEF N
  <2> QED BY <1>1, <1>2, NatSetInduction
<1>4. Cardinality(S) \in Nat /\ Cardinality(S) # 0 BY FS_CardinalityType, FS_EmptySet
<1>5. Bounded(S)
  <2>1. Cardinality(S) - 1 \in N BY <1>3, <1>4
  <2> QED BY <2>1, <1>4
<1>6. PICK x \in S, z \in S : \A y \in S : z <= y /\ y <= x BY <1>5
<1>7. Max(S) \in S /\ \A y \in S : Max(S) >= y BY <1>6 DEF Max
<1>8. Min(S) \in S /\ \A y \in S : Min(S) <= y BY <1>6 DEF Min
<1> QED BY <1>7, <1>8

IsFold(f, S, it) ==
  it = [s \in SUBSET S |-> IF s = {} THEN 0
                           ELSE LET x == CHOOSE x \in s : TRUE IN f[x] + it[s \ {x}]]

\* Two folds agree where both are defined.
LEMMA FoldIsUnique ==
  ASSUME NEW f, NEW S, IsFiniteSet(S), NEW U \in SUBSET S, NEW it, NEW jt, IsFold(f, S, it), IsFold(f, U, jt)
  PROVE  \A s \in SUBSET U : it[s] = jt[s]
<1> DEFINE N == {n \in Nat : \A s \in SUBSET U : Cardinality(s) = n => it[s] = jt[s]}
<1>0. \A s \in SUBSET U : s \in SUBSET S /\ IsFiniteSet(s) /\ Cardinality(s) \in Nat
  BY FS_Subset, FS_CardinalityType
<1>1. \A s \in SUBSET U : /\ it[s] = IF s = {} THEN 0 ELSE f[CHOOSE x \in s : TRUE] + it[s \ {CHOOSE x \in s : TRUE}]
                          /\ jt[s] = IF s = {} THEN 0 ELSE f[CHOOSE x \in s : TRUE] + jt[s \ {CHOOSE x \in s : TRUE}]
  BY <1>0 DEF IsFold
<1>2. 0 \in N BY <1>0, <1>1, FS_EmptySet
<1>3. ASSUME NEW n \in Nat, n \in N PROVE n + 1 \in N
  <2> SUFFICES ASSUME NEW s \in SUBSET U, Cardinality(s) = n + 1 PROVE it[s] = jt[s] OBVIOUS
  <2> DEFINE x == CHOOSE x \in s : TRUE
  <2>1. s # {} /\ x \in s BY <1>0, FS_EmptySet
  <2>a. IsFiniteSet(s) BY <1>0
  <2>b. Cardinality(s \ {x}) = Cardinality(s) - 1
    <3> HIDE DEF x
    <3> QED BY <2>1, <2>a, FS_RemoveElement
  <2>2. Cardinality(s \ {x}) = n /\ s \ {x} \in SUBSET U BY <2>b
  <2>3. it[s \ {x}] = jt[s \ {x}] BY <1>3, <2>2
  <2> QED BY <1>1, <2>1, <2>3
<1>4. \A n \in Nat : n \in N
  <2> HIDE DEF N
  <2> QED BY <1>2, <1>3, NatSetInduction
<1> QED BY <1>0, <1>4

\* By induction over the number of elements.
LEMMA FoldExists ==
  ASSUME NEW f, NEW S, IsFiniteSet(S)
  PROVE  \E it : IsFold(f, S, it)
<1> DEFINE Small(n) == {s \in SUBSET S : Cardinality(s) <= n}
           Step(it, s) == IF s = {} THEN 0 ELSE f[CHOOSE x \in s : TRUE] + it[s \ {CHOOSE x \in s : TRUE}]
           N == {n \in Nat : \E it : \A s \in Small(n) : it[s] = Step(it, s)}
<1>0. \A s \in SUBSET S : IsFiniteSet(s) /\ Cardinality(s) \in Nat
  BY FS_Subset, FS_CardinalityType
<1>1. 0 \in N
  <2> DEFINE it == [s \in SUBSET S |-> 0]
  <2>1. \A s \in Small(0) : s = {} BY <1>0, FS_EmptySet
  <2>2. \A s \in Small(0) : it[s] = Step(it, s) BY <2>1
  <2> HIDE DEF it
  <2> QED BY <2>2
<1>2. ASSUME NEW n \in Nat, n \in N PROVE n + 1 \in N
  <2>1. PICK it : \A s \in Small(n) : it[s] = Step(it, s) BY <1>2
  <2>2. PICK jt : jt = [s \in SUBSET S |-> Step(it, s)] OBVIOUS
  <2>3. \A s \in Small(n) : jt[s] = it[s] BY <2>1, <2>2
  <2>4. ASSUME NEW s \in Small(n + 1) PROVE jt[s] = Step(jt, s)
    <3>1. CASE s = {} BY <3>1, <2>2
    <3>2. CASE s # {}
      <4> DEFINE x == CHOOSE x \in s : TRUE
      <4>1. x \in s BY <3>2
      <4>a. IsFiniteSet(s) /\ Cardinality(s) <= n + 1 /\ Cardinality(s) \in Nat BY <1>0
      <4>2. Cardinality(s \ {x}) = Cardinality(s) - 1
        <5> HIDE DEF x
        <5> QED BY <4>a, <4>1, FS_RemoveElement
      <4>3. s \ {x} \in Small(n) BY <4>a, <4>2
      <4>4. jt[s \ {x}] = it[s \ {x}] BY <2>3, <4>3
      <4>5. jt[s] = f[x] + it[s \ {x}] BY <2>2, <3>2
      <4> QED BY <4>4, <4>5, <3>2
    <3> QED BY <3>1, <3>2
  <2>5. \A s \in Small(n + 1) : jt[s] = Step(jt, s) BY <2>4
  <2>6. \E kt : \A s \in Small(n + 1) : kt[s] = Step(kt, s)
    <3> HIDE DEF Step, Small
    <3> QED BY <2>5
  <2>7. n + 1 \in Nat OBVIOUS
  <2> HIDE DEF Step, Small
  <2> QED BY <2>6, <2>7
<1>3. \A n \in Nat : n \in N
  <2> HIDE DEF N
  <2> QED BY <1>1, <1>2, NatSetInduction
<1>4. Cardinality(S) \in N BY <1>0, <1>3
<1>5. PICK it : \A s \in Small(Cardinality(S)) : it[s] = Step(it, s) BY <1>4
<1>6. Small(Cardinality(S)) = SUBSET S BY FS_Subset
<1>7. PICK jt : jt = [s \in SUBSET S |-> it[s]] OBVIOUS
<1>8. \A s \in SUBSET S : jt[s] = Step(jt, s)
  <2> SUFFICES ASSUME NEW s \in SUBSET S PROVE jt[s] = Step(jt, s) OBVIOUS
  <2>1. it[s] = Step(it, s) BY <1>5, <1>6
  <2>2. s \ {CHOOSE x \in s : TRUE} \in SUBSET S OBVIOUS
  <2> QED BY <2>1, <2>2, <1>7
<1>9. IsFold(f, S, jt) BY <1>7, <1>8 DEF IsFold
<1> QED BY <1>9

\* SumFunctionOnSet is that fold.
LEMMA SumUnfolded ==
  ASSUME NEW f, NEW S, IsFiniteSet(S)
  PROVE  \E it : IsFold(f, S, it) /\ SumFunctionOnSet(f, S) = it[S]
<1>1. PICK it : IsFold(f, S, it) BY FoldExists
<1>2. SumFunctionOnSet(f, S) = (CHOOSE jt : IsFold(f, S, jt))[S]
  BY DEF IsFold, SumFunctionOnSet, FoldFunctionOnSet, MapThenFoldSet
<1>3. IsFold(f, S, CHOOSE jt : IsFold(f, S, jt)) BY <1>1
<1> QED BY <1>2, <1>3

LEMMA SumOfNone == \A f : SumFunctionOnSet(f, {}) = 0
<1> SUFFICES ASSUME NEW f PROVE SumFunctionOnSet(f, {}) = 0 OBVIOUS
<1>1. PICK it : IsFold(f, {}, it) /\ SumFunctionOnSet(f, {}) = it[{}] BY SumUnfolded, FS_EmptySet
<1> QED BY <1>1 DEF IsFold

\* The fold takes the element that CHOOSE takes.
LEMMA SumPicks ==
  ASSUME NEW f, NEW S, IsFiniteSet(S), S # {}
  PROVE  SumFunctionOnSet(f, S) = f[CHOOSE x \in S : TRUE] + SumFunctionOnSet(f, S \ {CHOOSE x \in S : TRUE})
<1> DEFINE x == CHOOSE x \in S : TRUE
           U == S \ {x}
<1>1. PICK it : IsFold(f, S, it) /\ SumFunctionOnSet(f, S) = it[S] BY SumUnfolded
<1>2. IsFiniteSet(U) /\ U \in SUBSET S BY FS_Subset
<1>3. PICK jt : IsFold(f, U, jt) /\ SumFunctionOnSet(f, U) = jt[U]
  <2> HIDE DEF U
  <2> QED BY <1>2, SumUnfolded
<1>4. it[U] = jt[U]
  <2> HIDE DEF U
  <2> QED BY <1>1, <1>2, <1>3, FoldIsUnique
<1>5. it[S] = f[x] + it[U] BY <1>1 DEF IsFold
<1> QED BY <1>1, <1>3, <1>4, <1>5

\* A sum takes its terms one at a time, in any order.
LEMMA SumAdds ==
  ASSUME NEW f, NEW S, IsFiniteSet(S), \A s \in S : f[s] \in Int
  PROVE  /\ SumFunctionOnSet(f, S) \in Int
         /\ \A y \in S : SumFunctionOnSet(f, S) = f[y] + SumFunctionOnSet(f, S \ {y})
<1> DEFINE Good(T) == /\ SumFunctionOnSet(f, T) \in Int
                      /\ \A y \in T : SumFunctionOnSet(f, T) = f[y] + SumFunctionOnSet(f, T \ {y})
           N == {n \in Nat : \A T \in SUBSET S : Cardinality(T) <= n => Good(T)}
<1>0. \A T \in SUBSET S : IsFiniteSet(T) /\ Cardinality(T) \in Nat
  BY FS_Subset, FS_CardinalityType
<1>1. 0 \in N
  <2>1. \A T \in SUBSET S : Cardinality(T) <= 0 => T = {} BY <1>0, FS_EmptySet
  <2>2. Good({}) BY SumOfNone
  <2> QED BY <2>1, <2>2
<1>2. ASSUME NEW n \in Nat, n \in N PROVE n + 1 \in N
  <2> SUFFICES ASSUME NEW T \in SUBSET S, Cardinality(T) <= n + 1 PROVE Good(T)
    OBVIOUS
  <2>1. CASE T = {} BY <2>1, SumOfNone
  <2>2. CASE T # {}
    <3> DEFINE x == CHOOSE x \in T : TRUE
    <3>1. x \in T BY <2>2
    <3>2. SumFunctionOnSet(f, T) = f[x] + SumFunctionOnSet(f, T \ {x}) BY <1>0, <2>2, SumPicks
    <3> HIDE DEF x
    <3>3. \A y \in T : T \ {y} \in SUBSET S /\ Cardinality(T \ {y}) <= n
      <4> SUFFICES ASSUME NEW y \in T PROVE Cardinality(T \ {y}) <= n OBVIOUS
      <4>1. IsFiniteSet(T) /\ Cardinality(T) \in Nat BY <1>0
      <4> HIDE DEF N, Good
      <4>2. Cardinality(T \ {y}) = Cardinality(T) - 1 BY <4>1, OneLess
      <4> QED BY <4>1, <4>2
    <3>4. \A y \in T : Good(T \ {y})
      <4> HIDE DEF Good
      <4> QED BY <1>2, <3>3
    <3>5. SumFunctionOnSet(f, T) \in Int BY <3>1, <3>2, <3>4
    <3>6. ASSUME NEW y \in T PROVE SumFunctionOnSet(f, T) = f[y] + SumFunctionOnSet(f, T \ {y})
      <4>1. CASE y = x BY <4>1, <3>2
      <4>2. CASE y # x
        <5>1. SumFunctionOnSet(f, T \ {x}) = f[y] + SumFunctionOnSet(f, (T \ {x}) \ {y}) BY <3>1, <3>4, <4>2
        <5>2. SumFunctionOnSet(f, T \ {y}) = f[x] + SumFunctionOnSet(f, (T \ {y}) \ {x}) BY <3>1, <3>4, <4>2
        <5>3. (T \ {x}) \ {y} = (T \ {y}) \ {x} OBVIOUS
        <5>4. SumFunctionOnSet(f, (T \ {y}) \ {x}) \in Int
          <6>1. (T \ {y}) \ {x} \in SUBSET S OBVIOUS
          <6>2. Cardinality((T \ {y}) \ {x}) <= n
            <7>1. IsFiniteSet(T \ {y}) /\ Cardinality(T \ {y}) \in Nat BY <1>0
            <7>2. Cardinality(T \ {y}) <= n BY <3>3
            <7> HIDE DEF N, Good
            <7>3. Cardinality((T \ {y}) \ {x}) = Cardinality(T \ {y}) - 1 BY <7>1, <3>1, <4>2, OneLess
            <7> QED BY <7>1, <7>2, <7>3
          <6>3. Good((T \ {y}) \ {x})
            <7> HIDE DEF Good
            <7> QED BY <1>2, <6>1, <6>2
          <6> QED BY <6>3
        <5>5. f[x] \in Int /\ f[y] \in Int BY <3>1
        <5> HIDE DEF N, Good
        <5>6. SumFunctionOnSet(f, T \ {x}) = f[y] + SumFunctionOnSet(f, (T \ {y}) \ {x}) BY <5>1, <5>3
        <5>7. \A c \in Int : f[x] + (f[y] + c) = f[y] + (f[x] + c) BY <5>5
        <5> QED BY <3>2, <5>2, <5>4, <5>6, <5>7
      <4> QED BY <4>1, <4>2
    <3> QED BY <3>5, <3>6
  <2> QED BY <2>1, <2>2
<1>3. \A n \in Nat : n \in N
  <2> HIDE DEF N
  <2> QED BY <1>1, <1>2, NatSetInduction
<1>4. Good(S)
  <2>1. Cardinality(S) \in N /\ Cardinality(S) \in Nat BY <1>0, <1>3
  <2> HIDE DEF Good
  <2> QED BY <2>1
<1> QED BY <1>4

\* Functions that agree where they are summed, up to terms of zero.
LEMMA SumsAreEqual ==
  ASSUME NEW f, NEW g, NEW S, IsFiniteSet(S), NEW U \in SUBSET S,
         \A s \in S : f[s] \in Int, \A s \in U : g[s] = f[s], \A s \in S \ U : f[s] = 0
  PROVE  SumFunctionOnSet(g, U) = SumFunctionOnSet(f, S)
<1> DEFINE Good(T) == SumFunctionOnSet(g, T \cap U) = SumFunctionOnSet(f, T)
           N == {n \in Nat : \A T \in SUBSET S : Cardinality(T) = n => Good(T)}
<1>0. \A T \in SUBSET S : IsFiniteSet(T) /\ IsFiniteSet(T \cap U) /\ Cardinality(T) \in Nat
  BY FS_Subset, FS_CardinalityType
<1>1. 0 \in N
  <2>1. \A T \in SUBSET S : Cardinality(T) = 0 => T = {} BY <1>0, FS_EmptySet
  <2>2. Good({})
    <3>1. {} \cap U = {} OBVIOUS
    <3> QED BY <3>1, SumOfNone
  <2> HIDE DEF Good
  <2> QED BY <2>1, <2>2
<1>2. ASSUME NEW n \in Nat, n \in N PROVE n + 1 \in N
  <2> SUFFICES ASSUME NEW T \in SUBSET S, Cardinality(T) = n + 1 PROVE Good(T)
    OBVIOUS
  <2>0. IsFiniteSet(T) /\ IsFiniteSet(T \cap U) BY <1>0
  <2>1. PICK x \in T : TRUE
    <3>1. Cardinality(T) # 0 OBVIOUS
    <3> QED BY <3>1, FS_EmptySet
  <2>2. SumFunctionOnSet(f, T) = f[x] + SumFunctionOnSet(f, T \ {x})
        /\ SumFunctionOnSet(f, T \ {x}) \in Int
    <3>1. IsFiniteSet(T \ {x}) BY <2>0, FS_Subset
    <3>2. \A s \in T : f[s] \in Int OBVIOUS
    <3>3. \A s \in T \ {x} : f[s] \in Int OBVIOUS
    <3>4. SumFunctionOnSet(f, T) = f[x] + SumFunctionOnSet(f, T \ {x}) BY <2>0, <2>1, <3>2, SumAdds
    <3>5. SumFunctionOnSet(f, T \ {x}) \in Int BY <3>1, <3>3, SumAdds
    <3> QED BY <3>4, <3>5
  <2>3. Cardinality(T \ {x}) = n
    <3> HIDE DEF N, Good
    <3>1. Cardinality(T \ {x}) = Cardinality(T) - 1 BY <2>0, <2>1, OneLess
    <3> QED BY <3>1
  <2>4. Good(T \ {x}) BY <1>2, <2>3
  <2>5. (T \ {x}) \cap U = (T \cap U) \ {x} OBVIOUS
  <2>6. CASE x \in U
    <3>1. \A s \in T \cap U : g[s] \in Int OBVIOUS
    <3>2. SumFunctionOnSet(g, T \cap U) = g[x] + SumFunctionOnSet(g, (T \cap U) \ {x})
      BY <2>0, <2>1, <2>6, <3>1, SumAdds
    <3> QED BY <3>2, <2>2, <2>4, <2>5, <2>6
  <2>7. CASE x \notin U
    <3>1. (T \cap U) \ {x} = T \cap U BY <2>7
    <3>2. f[x] = 0 BY <2>7, <2>1
    <3>3. SumFunctionOnSet(f, T) = SumFunctionOnSet(f, T \ {x}) BY <3>2, <2>2
    <3>4. SumFunctionOnSet(g, T \cap U) = SumFunctionOnSet(f, T \ {x}) BY <3>1, <2>4, <2>5
    <3> QED BY <3>3, <3>4
  <2> QED BY <2>6, <2>7
<1>3. \A n \in Nat : n \in N
  <2> HIDE DEF N
  <2> QED BY <1>1, <1>2, NatSetInduction
<1>4. Good(S)
  <2>1. Cardinality(S) \in N BY <1>0, <1>3
  <2> HIDE DEF Good
  <2> QED BY <2>1
<1>5. S \cap U = U OBVIOUS
<1> QED BY <1>4, <1>5

\* Functions that differ in one place.
LEMMA SumsDiffer ==
  ASSUME NEW f, NEW g, NEW S, IsFiniteSet(S), NEW y \in S,
         \A s \in S : f[s] \in Int /\ g[s] \in Int, \A s \in S \ {y} : g[s] = f[s]
  PROVE  SumFunctionOnSet(g, S) = SumFunctionOnSet(f, S) + g[y] - f[y]
<1> DEFINE U == S \ {y}
<1>0. IsFiniteSet(U) /\ \A s \in U : f[s] \in Int BY FS_Subset
<1>1. SumFunctionOnSet(f, S) = f[y] + SumFunctionOnSet(f, U) BY SumAdds
<1>2. SumFunctionOnSet(g, S) = g[y] + SumFunctionOnSet(g, U) BY SumAdds
<1>3. SumFunctionOnSet(f, U) \in Int
  <2> HIDE DEF U
  <2> QED BY <1>0, SumAdds
<1>4. SumFunctionOnSet(g, U) = SumFunctionOnSet(f, U)
  <2>1. \A s \in U : g[s] = f[s] OBVIOUS
  <2>2. \A s \in U \ U : f[s] = 0 OBVIOUS
  <2>3. U \in SUBSET U OBVIOUS
  <2> HIDE DEF U
  <2> QED BY <1>0, <2>1, <2>2, <2>3, SumsAreEqual
<1> QED BY <1>1, <1>2, <1>3, <1>4

-----------------------------------------------------------------------------
(* Rain by sample and rain by instant                                      *)

Sound(h) == /\ IsFiniteSet(DOMAIN h) /\ DOMAIN h \subseteq Int
            /\ \A t \in DOMAIN h : h[t] \in Int \cup {Missing}

MeasuredIn(h) == {t \in DOMAIN h : Measured(h[t])}

\* Until when a sample's rate holds, were there no end of the history.
Ends(h, t) == Min({t + Carry} \cup {u \in DOMAIN h : u > t})
Holds(h, t, i) == t \in MeasuredIn(h) /\ t <= i /\ i < Ends(h, t)

Lower(x, y) == IF x < y THEN x ELSE y
Higher(x, y) == IF x > y THEN x ELSE y
\* How much of from..to is in a..b.
Overlap(from, to, a, b) ==
  IF Lower(to, b) > Higher(from, a) THEN Lower(to, b) - Higher(from, a) ELSE 0

\* Math.min and Math.max of two times.
LEMMA MinMaxOfTwo ==
  ASSUME NEW x \in Int, NEW y \in Int
  PROVE  Max({x, y}) = Higher(x, y) /\ Min({x, y}) = Lower(x, y)
<1>1. \E m \in {x, y} : \A z \in {x, y} : m >= z OBVIOUS
<1>2. \E m \in {x, y} : \A z \in {x, y} : m <= z OBVIOUS
<1>3. Max({x, y}) \in {x, y} /\ \A z \in {x, y} : Max({x, y}) >= z BY <1>1 DEF Max
<1>4. Min({x, y}) \in {x, y} /\ \A z \in {x, y} : Min({x, y}) <= z BY <1>2 DEF Min
<1> QED BY <1>3, <1>4 DEF Higher, Lower

\* A rate holds until the next sample, at most for Carry.
LEMMA EndsFacts ==
  ASSUME NEW h, Sound(h), NEW t \in Int
  PROVE  /\ Ends(h, t) \in Int /\ t < Ends(h, t) /\ Ends(h, t) <= t + Carry
         /\ \A u \in DOMAIN h : u > t => Ends(h, t) <= u
         /\ Ends(h, t) = t + Carry \/ Ends(h, t) \in {u \in DOMAIN h : u > t}
<1> DEFINE Later == {u \in DOMAIN h : u > t}
           S == {t + Carry} \cup Later
<1>1. Carry \in Int /\ Carry > 0 BY RainfallAssumption
<1>2. IsFiniteSet(Later) BY FS_Subset DEF Sound
<1>3. IsFiniteSet(Later \cup {t + Carry})
  <2> HIDE DEF Later
  <2> QED BY <1>2, FS_AddElement
<1>4. Later \cup {t + Carry} = S OBVIOUS
<1>5. IsFiniteSet(S) /\ S # {} /\ S \subseteq Int BY <1>1, <1>3, <1>4 DEF Sound
<1>6. Min(S) \in S /\ \A y \in S : Min(S) <= y
  <2> HIDE DEF S
  <2> QED BY <1>5, FiniteSetHasMaxAndMin
<1>7. Ends(h, t) = Min(S) BY DEF Ends
<1>8. \A u \in DOMAIN h : u \in Int BY DEF Sound
<1> QED BY <1>1, <1>6, <1>7, <1>8

\* At an instant at most one rate is in force.
LEMMA RateIsThatOfTheSample ==
  ASSUME NEW h, Sound(h), NEW i \in Int
  PROVE  /\ \A t : Holds(h, t, i) => RateAt(h, i) = h[t]
         /\ (\A t : ~Holds(h, t, i)) => RateAt(h, i) = 0
         /\ \A t, u : Holds(h, t, i) /\ Holds(h, u, i) => t = u
<1> DEFINE before == {u \in DOMAIN h : u <= i}
           last == Max(before)
<1>1. IsFiniteSet(before) /\ before \subseteq Int BY FS_Subset DEF Sound
<1>2. before # {} => last \in before /\ \A y \in before : y <= last
  <2> HIDE DEF before
  <2> QED BY <1>1, FiniteSetHasMaxAndMin
<1>3. RateAt(h, i) = IF before # {} /\ i - last < Carry /\ Measured(h[last]) THEN h[last] ELSE 0
  BY DEF RateAt
<1>4. ASSUME NEW t, Holds(h, t, i) PROVE t = last /\ before # {} /\ i - last < Carry /\ Measured(h[last])
  <2>1. t \in DOMAIN h /\ t \in Int /\ t <= i /\ i < Ends(h, t) /\ Measured(h[t])
    BY <1>4 DEF Holds, MeasuredIn, Sound
  <2>2. t \in before BY <2>1
  <2>3. last \in DOMAIN h /\ last \in Int /\ last <= i /\ t <= last BY <1>1, <1>2, <2>2
  <2>4. Ends(h, t) \in Int /\ Ends(h, t) <= t + Carry /\ (last > t => Ends(h, t) <= last) BY <2>1, <2>3, EndsFacts
  <2>5. Carry \in Int BY RainfallAssumption
  <2> HIDE DEF last
  <2>6. t = last BY <2>1, <2>3, <2>4
  <2> QED BY <2>1, <2>2, <2>4, <2>5, <2>6
<1>5. ASSUME before # {}, i - last < Carry, Measured(h[last]) PROVE Holds(h, last, i)
  <2>1. last \in DOMAIN h /\ last \in Int /\ last <= i /\ \A y \in before : y <= last BY <1>1, <1>2, <1>5
  <2>2. Ends(h, last) = last + Carry \/ Ends(h, last) \in {u \in DOMAIN h : u > last}
    BY <2>1, EndsFacts
  <2>3. \A u \in DOMAIN h : u \in Int BY DEF Sound
  <2>4. Carry \in Int BY RainfallAssumption
  <2>5. \A u \in DOMAIN h : u > last => u > i
    <3> SUFFICES ASSUME NEW u \in DOMAIN h, u > last, ~(u > i) PROVE FALSE OBVIOUS
    <3>1. u \in before BY <2>3
    <3> QED BY <2>1, <2>3, <3>1
  <2>a. i - last < Carry BY <1>5
  <2> HIDE DEF last, before
  <2>6. i < Ends(h, last) BY <2>a, <2>1, <2>2, <2>4, <2>5
  <2> QED BY <1>5, <2>1, <2>6 DEF Holds, MeasuredIn
<1>6. (\A t : ~Holds(h, t, i)) => RateAt(h, i) = 0 BY <1>3, <1>5
<1>7. \A t : Holds(h, t, i) => RateAt(h, i) = h[t] BY <1>3, <1>4
<1>8. \A t, u : Holds(h, t, i) /\ Holds(h, u, i) => t = u
  <2> HIDE DEF last, before
  <2> SUFFICES ASSUME NEW t, NEW u, Holds(h, t, i), Holds(h, u, i) PROVE t = u OBVIOUS
  <2>1. t = last BY <1>4
  <2>2. u = last BY <1>4
  <2> QED BY <2>1, <2>2
<1> QED BY <1>6, <1>7, <1>8

\* The rain that a sample has brought until instant b, and what the next
\* instant adds to it.
LEMMA OneInstantMore ==
  ASSUME NEW h, Sound(h), NEW t \in MeasuredIn(h), NEW a \in Int, NEW b \in Int, a <= b
  PROVE  /\ h[t] \in Int /\ t \in Int /\ Ends(h, t) \in Int
         /\ Overlap(t, Ends(h, t), a, b) \in Int
         /\ Overlap(t, Ends(h, t), a, b + 1)
              = Overlap(t, Ends(h, t), a, b) + (IF Holds(h, t, b) THEN 1 ELSE 0)
<1>1. t \in DOMAIN h /\ t \in Int /\ h[t] \in Int
  BY DEF MeasuredIn, Measured, Sound
<1>2. Ends(h, t) \in Int BY <1>1, EndsFacts
<1>3. Holds(h, t, b) <=> t <= b /\ b < Ends(h, t) BY DEF Holds
<1>4. \A e \in Int :
        /\ Overlap(t, e, a, b) \in Int
        /\ Overlap(t, e, a, b + 1) = Overlap(t, e, a, b) + (IF t <= b /\ b < e THEN 1 ELSE 0)
  BY <1>1 DEF Overlap, Lower, Higher
<1> QED BY <1>1, <1>2, <1>3, <1>4

Brought(h, a, b) == [t \in MeasuredIn(h) |-> h[t] * Overlap(t, Ends(h, t), a, b)]
Rates(h, a, b) == [i \in a..(b - 1) |-> RateAt(h, i)]

LEMMA RateIsANumber ==
  ASSUME NEW h, Sound(h), NEW i \in Int
  PROVE  RateAt(h, i) \in Int
<1>1. CASE \E t : Holds(h, t, i)
  <2>1. PICK t : Holds(h, t, i) BY <1>1
  <2>2. h[t] \in Int BY <2>1 DEF Holds, MeasuredIn, Measured, Sound
  <2> QED BY <2>1, <2>2, RateIsThatOfTheSample
<1>2. CASE \A t : ~Holds(h, t, i)
  <2>1. RateAt(h, i) = 0 BY <1>2, RateIsThatOfTheSample
  <2> QED BY <2>1
<1> QED BY <1>1, <1>2

\* What the samples bring up to an instant later is more by the rate in
\* force at that instant, whichever sample it is of.
LEMMA BroughtByOneMore ==
  ASSUME NEW h, Sound(h), NEW a \in Int, NEW b \in Int, a <= b
  PROVE  SumFunction(Brought(h, a, b + 1)) = SumFunction(Brought(h, a, b)) + RateAt(h, b)
<1> DEFINE M == MeasuredIn(h)
           f == Brought(h, a, b)
           g == Brought(h, a, b + 1)
<1>1. IsFiniteSet(M) BY FS_Subset DEF MeasuredIn, Sound
<1>2. DOMAIN f = M /\ DOMAIN g = M BY DEF Brought
<1>3. ASSUME NEW t \in M
      PROVE  /\ f[t] \in Int /\ g[t] \in Int
             /\ g[t] = f[t] + (IF Holds(h, t, b) THEN h[t] ELSE 0)
  <2>1. f[t] = h[t] * Overlap(t, Ends(h, t), a, b) /\ g[t] = h[t] * Overlap(t, Ends(h, t), a, b + 1)
    BY DEF Brought
  <2>2. h[t] \in Int /\ Overlap(t, Ends(h, t), a, b) \in Int BY OneInstantMore
  <2>3. Overlap(t, Ends(h, t), a, b + 1) = Overlap(t, Ends(h, t), a, b) + (IF Holds(h, t, b) THEN 1 ELSE 0)
    BY OneInstantMore
  <2>4. \A r, p \in Int : r * p \in Int /\ r * (p + 1) = r * p + r /\ r * (p + 0) = r * p + 0 OBVIOUS
  <2> HIDE DEF f, g, M
  <2>5. CASE Holds(h, t, b)
    <3>1. Overlap(t, Ends(h, t), a, b + 1) = Overlap(t, Ends(h, t), a, b) + 1 BY <2>3, <2>5
    <3>2. g[t] = f[t] + h[t] BY <2>1, <2>2, <2>4, <3>1
    <3>3. f[t] \in Int BY <2>1, <2>2, <2>4
    <3> QED BY <2>2, <2>5, <3>2, <3>3
  <2>6. CASE ~Holds(h, t, b)
    <3>1. Overlap(t, Ends(h, t), a, b + 1) = Overlap(t, Ends(h, t), a, b) BY <2>2, <2>3, <2>6
    <3>2. g[t] = f[t] BY <2>1, <3>1
    <3>3. f[t] \in Int BY <2>1, <2>2, <2>4
    <3> QED BY <2>6, <3>2, <3>3
  <2> QED BY <2>5, <2>6
<1>4. SumFunction(f) = SumFunctionOnSet(f, M) /\ SumFunction(g) = SumFunctionOnSet(g, M)
  BY <1>2 DEF SumFunction
<1>5. CASE \E t : Holds(h, t, b)
  <2>1. PICK t : Holds(h, t, b) BY <1>5
  <2>2. t \in M BY <2>1 DEF Holds
  <2>3. RateAt(h, b) = h[t] /\ \A u : Holds(h, u, b) => u = t BY <2>1, RateIsThatOfTheSample
  <2>4. \A u \in M \ {t} : g[u] = f[u]
    <3> SUFFICES ASSUME NEW u \in M \ {t} PROVE g[u] = f[u] OBVIOUS
    <3>1. ~Holds(h, u, b) BY <2>3
    <3> HIDE DEF f, g, M
    <3> QED BY <1>3, <3>1
  <2>5. g[t] = f[t] + h[t]
    <3> HIDE DEF f, g, M
    <3> QED BY <1>3, <2>1, <2>2
  <2>6. h[t] \in Int /\ f[t] \in Int
    <3> HIDE DEF f, g
    <3>1. f[t] \in Int BY <1>3, <2>2
    <3>2. h[t] \in Int BY <2>2, OneInstantMore
    <3> QED BY <3>1, <3>2
  <2> HIDE DEF f, g, M
  <2>7. \A s \in M : f[s] \in Int /\ g[s] \in Int BY <1>3
  <2>8. SumFunctionOnSet(g, M) = SumFunctionOnSet(f, M) + g[t] - f[t]
    BY <1>1, <2>2, <2>4, <2>7, SumsDiffer
  <2>9. SumFunctionOnSet(f, M) \in Int BY <1>1, <2>7, SumAdds
  <2>10. SumFunctionOnSet(g, M) = SumFunctionOnSet(f, M) + h[t] BY <2>5, <2>6, <2>8, <2>9
  <2> QED BY <1>4, <2>3, <2>10 DEF f, g
<1>6. CASE \A t : ~Holds(h, t, b)
  <2>1. RateAt(h, b) = 0 BY <1>6, RateIsThatOfTheSample
  <2> HIDE DEF f, g, M
  <2>2. \A s \in M : f[s] \in Int /\ g[s] = f[s] BY <1>3, <1>6
  <2>3. \A s \in M \ M : f[s] = 0 /\ M \in SUBSET M OBVIOUS
  <2>4. SumFunctionOnSet(g, M) = SumFunctionOnSet(f, M) BY <1>1, <2>2, <2>3, SumsAreEqual
  <2>5. SumFunctionOnSet(f, M) \in Int BY <1>1, <2>2, SumAdds
  <2>6. SumFunctionOnSet(g, M) = SumFunctionOnSet(f, M) + 0 BY <2>4, <2>5
  <2> QED BY <1>4, <2>1, <2>6 DEF f, g
<1> QED BY <1>5, <1>6

\* So is the rain that has fallen.
LEMMA FallenByOneMore ==
  ASSUME NEW h, Sound(h), NEW a \in Int, NEW b \in Int, a <= b
  PROVE  SumFunction(Rates(h, a, b + 1)) = SumFunction(Rates(h, a, b)) + RateAt(h, b)
<1> DEFINE S == a..b
           U == a..(b - 1)
           f == Rates(h, a, b + 1)
           g == Rates(h, a, b)
<1>1. DOMAIN f = S /\ DOMAIN g = U BY DEF Rates
<1>2. SumFunction(f) = SumFunctionOnSet(f, S) /\ SumFunction(g) = SumFunctionOnSet(g, U)
  BY <1>1 DEF SumFunction
<1>3. \A i \in S : f[i] = RateAt(h, i) /\ f[i] \in Int
  <2>1. \A i \in S : i \in Int OBVIOUS
  <2>2. \A i \in S : f[i] = RateAt(h, i) BY DEF Rates
  <2> QED BY <2>1, <2>2, RateIsANumber
<1>4. \A i \in U : g[i] = RateAt(h, i) BY DEF Rates
<1>5. b \in S /\ S \ {b} = U /\ U \subseteq S OBVIOUS
<1>6. IsFiniteSet(S) /\ IsFiniteSet(U) BY FS_Interval
<1> HIDE DEF S, U, f, g
<1>7. SumFunctionOnSet(f, S) = f[b] + SumFunctionOnSet(f, U)
  <2>1. \A s \in S : f[s] \in Int BY <1>3
  <2>2. \A y \in S : SumFunctionOnSet(f, S) = f[y] + SumFunctionOnSet(f, S \ {y})
    BY <2>1, <1>6, SumAdds
  <2>3. SumFunctionOnSet(f, S) = f[b] + SumFunctionOnSet(f, S \ {b}) BY <2>2, <1>5
  <2> QED BY <2>3, <1>5
<1>8. SumFunctionOnSet(f, U) \in Int
  <2>1. \A s \in U : f[s] \in Int BY <1>3, <1>5
  <2> QED BY <2>1, <1>6, SumAdds
<1>9. SumFunctionOnSet(g, U) = SumFunctionOnSet(f, U)
  <2>1. \A s \in U : f[s] \in Int /\ g[s] = f[s] BY <1>3, <1>4, <1>5
  <2>2. \A s \in U \ U : f[s] = 0 /\ U \in SUBSET U OBVIOUS
  <2> QED BY <1>6, <2>1, <2>2, SumsAreEqual
<1>10. f[b] = RateAt(h, b) /\ RateAt(h, b) \in Int BY <1>3, <1>5
<1>11. SumFunctionOnSet(f, S) = SumFunctionOnSet(g, U) + RateAt(h, b) BY <1>7, <1>8, <1>9, <1>10
<1> QED BY <1>2, <1>11 DEF f, g

\* By induction over the instants.
LEMMA BroughtIsFallen ==
  ASSUME NEW h, Sound(h), NEW a \in Int
  PROVE  \A n \in Nat : SumFunction(Brought(h, a, a + n)) = SumFunction(Rates(h, a, a + n))
<1> DEFINE N == {n \in Nat : SumFunction(Brought(h, a, a + n)) = SumFunction(Rates(h, a, a + n))}
<1>1. 0 \in N
  <2> DEFINE M == MeasuredIn(h)
             f == Brought(h, a, a)
  <2>1. IsFiniteSet(M) BY FS_Subset DEF MeasuredIn, Sound
  <2>2. DOMAIN f = M BY DEF Brought
  <2>3. ASSUME NEW t \in M PROVE f[t] = 0
    <3>1. h[t] \in Int /\ t \in Int /\ Ends(h, t) \in Int BY OneInstantMore
    <3>2. Overlap(t, Ends(h, t), a, a) = 0 BY <3>1 DEF Overlap, Lower, Higher
    <3>3. f[t] = h[t] * Overlap(t, Ends(h, t), a, a) BY DEF Brought
    <3> QED BY <3>1, <3>2, <3>3
  <2>4. SumFunctionOnSet(f, {}) = SumFunctionOnSet(f, M)
    <3> HIDE DEF f, M
    <3>1. \A s \in M : f[s] \in Int /\ f[s] = 0 BY <2>3
    <3>2. {} \in SUBSET M /\ \A s \in {} : f[s] = f[s] OBVIOUS
    <3> QED BY <2>1, <3>1, <3>2, SumsAreEqual
  <2>5. SumFunction(f) = 0 BY <2>2, <2>4, SumOfNone DEF SumFunction
  <2>6. DOMAIN Rates(h, a, a) = {} BY DEF Rates
  <2>7. SumFunction(Rates(h, a, a)) = 0 BY <2>6, SumOfNone DEF SumFunction
  <2>8. a + 0 = a OBVIOUS
  <2> QED BY <2>5, <2>7, <2>8
<1>2. ASSUME NEW n \in Nat, n \in N PROVE n + 1 \in N
  <2>1. a + n \in Int /\ a <= a + n /\ a + (n + 1) = (a + n) + 1 OBVIOUS
  <2>2. SumFunction(Brought(h, a, (a + n) + 1)) = SumFunction(Brought(h, a, a + n)) + RateAt(h, a + n)
    <3> HIDE DEF N
    <3> QED BY <2>1, BroughtByOneMore
  <2>3. SumFunction(Rates(h, a, (a + n) + 1)) = SumFunction(Rates(h, a, a + n)) + RateAt(h, a + n)
    <3> HIDE DEF N
    <3> QED BY <2>1, FallenByOneMore
  <2>4. SumFunction(Brought(h, a, a + n)) = SumFunction(Rates(h, a, a + n)) BY <1>2
  <2> QED BY <2>1, <2>2, <2>3, <2>4
<1>3. \A n \in Nat : n \in N
  <2> HIDE DEF N
  <2> QED BY <1>1, <1>2, NatSetInduction
<1> QED BY <1>3

\* The local day of a time.
LEMMA DaysOfTime ==
  ASSUME NEW t \in Int
  PROVE  DateOf(t) \in Int /\ DateOf(t) * Day <= t /\ t < DateOf(t) * Day + Day
BY RainfallAssumption DEF DateOf

\* The end of a day in the middle of a history cuts off nothing that the
\* window or the latest sample would.
LEMMA TotalIsFallen ==
  ASSUME NEW h, Sound(h), NEW at \in Int, \A t \in DOMAIN h : t <= at,
         NEW days \in Nat, NEW j \in 1..days
  PROVE  TotalOn(WindowOf(h, at, days), at, DateOf(at) - j) = FallenOn(h, DateOf(at) - j)
<1> DEFINE d == DateOf(at) - j
           a == d * Day
           b == (d + 1) * Day
           from == at - (days + 2) * Day
           w == WindowOf(h, at, days)
           M == MeasuredIn(h)
           U == MeasuredIn(w)
           f == Brought(h, a, b)
           g == [t \in {u \in DOMAIN w : Measured(w[u])} |-> w[t] * PartOn(t, HoldsUntil(w, t, at), d)]
<1>0. Day \in Nat /\ Day > 0 /\ Carry \in Nat /\ Carry > 0 /\ Carry <= Day
  BY RainfallAssumption
<1>1. d \in Int /\ a \in Int /\ b \in Int /\ from \in Int /\ b = a + Day
  <2>1. DateOf(at) \in Int BY DaysOfTime
  <2>2. d \in Int BY <2>1
  <2>3. \A x \in Int : x * Day \in Int /\ (x + 1) * Day = x * Day + Day BY <1>0
  <2>4. days + 2 \in Int OBVIOUS
  <2>5. (days + 2) * Day \in Int BY <2>3, <2>4
  <2> HIDE DEF d
  <2> QED BY <1>0, <2>2, <2>3, <2>5
<1>2. b <= at
  <2>1. DateOf(at) \in Int /\ DateOf(at) * Day <= at BY DaysOfTime
  <2>2. d + 1 \in Int /\ d + 1 <= DateOf(at) BY <2>1
  <2>3. \A x, y \in Int : x <= y => x * Day <= y * Day BY <1>0
  <2>4. b <= DateOf(at) * Day
    <3> HIDE DEF d
    <3> QED BY <2>1, <2>2, <2>3
  <2>5. DateOf(at) * Day \in Int BY <2>1, <1>0
  <2> HIDE DEF b
  <2> QED BY <1>1, <2>1, <2>4, <2>5
<1>3. from + Carry <= a
  <2>1. DateOf(at) \in Int /\ at < DateOf(at) * Day + Day BY DaysOfTime
  <2>2. \A x, y, z \in Int : x + y + 1 <= z => x * Day + y * Day + Day <= z * Day
    <3> SUFFICES ASSUME NEW x \in Int, NEW y \in Int, NEW z \in Int, x + y + 1 <= z
                 PROVE  x * Day + y * Day + Day <= z * Day
      OBVIOUS
    <3>1. \A m, n \in Int : m <= n => m * Day <= n * Day BY <1>0
    <3>2. (x + y + 1) * Day = x * Day + y * Day + Day BY <1>0
    <3> QED BY <3>1, <3>2
  <2> DEFINE e == days + 2
  <2>3. d \in Int /\ e \in Int /\ DateOf(at) + 1 + 1 <= d + e BY <2>1
  <2>4. \A x, y \in Int : (x + y) * Day = x * Day + y * Day BY <1>0
  <2>5. (DateOf(at) + 1 + 1) * Day <= (d + e) * Day
    <3>1. \A m, n \in Int : m <= n => m * Day <= n * Day BY <1>0
    <3> HIDE DEF d, e
    <3> QED BY <2>1, <2>3, <3>1
  <2>6. (DateOf(at) + 1 + 1) * Day = DateOf(at) * Day + Day + Day BY <1>0, <2>1
  <2>7. (d + e) * Day = a + e * Day
    <3> HIDE DEF d, e
    <3> QED BY <2>3, <2>4
  <2>8. DateOf(at) * Day \in Int /\ e * Day \in Int
    <3> HIDE DEF e
    <3> QED BY <1>0, <2>1, <2>3
  <2>9. from = at - e * Day OBVIOUS
  <2> HIDE DEF from, a, d, e
  <2> QED BY <1>0, <1>1, <2>1, <2>5, <2>6, <2>7, <2>8, <2>9
<1>4. /\ DOMAIN w = {t \in DOMAIN h : from <= t}
      /\ \A t \in DOMAIN w : w[t] = h[t]
  <2>1. DOMAIN w = DOMAIN h \cap (from..at) BY DEF WindowOf
  <2>2. \A t \in DOMAIN h : t \in Int /\ t <= at BY DEF Sound
  <2>3. \A t \in DOMAIN w : w[t] = h[t] BY DEF WindowOf
  <2> HIDE DEF w, from
  <2> QED BY <1>1, <2>1, <2>2, <2>3
<1>5. U \in SUBSET M /\ \A t \in U : from <= t
  <2> HIDE DEF w, from
  <2> QED BY <1>4 DEF MeasuredIn
<1>6. \A t \in M \ U : t < from
  <2>1. \A t \in M : t \in DOMAIN h /\ t \in Int BY DEF MeasuredIn, Sound
  <2> HIDE DEF w, from
  <2> QED BY <1>1, <1>4, <2>1 DEF MeasuredIn
<1>7. IsFiniteSet(M) BY FS_Subset DEF MeasuredIn, Sound
<1>8. ASSUME NEW t \in M
      PROVE  /\ t \in Int /\ Ends(h, t) \in Int /\ t < Ends(h, t) /\ Ends(h, t) <= t + Carry
             /\ h[t] \in Int /\ f[t] \in Int
             /\ f[t] = h[t] * Overlap(t, Ends(h, t), a, b)
  <2>1. f[t] = h[t] * Overlap(t, Ends(h, t), a, b) BY DEF Brought
  <2> HIDE DEF a, b, f
  <2>2. a <= b BY <1>0, <1>1
  <2>3. /\ h[t] \in Int /\ t \in Int /\ Overlap(t, Ends(h, t), a, b) \in Int
    BY <1>1, <2>2, OneInstantMore
  <2>4. f[t] \in Int BY <2>1, <2>3
  <2> QED BY <2>1, <2>3, <2>4, EndsFacts
<1>9. ASSUME NEW t \in M \ U PROVE f[t] = 0
  <2>1. t \in M /\ t < from BY <1>6
  <2> HIDE DEF M, U, a, b, f, from
  <2>2. /\ t \in Int /\ Ends(h, t) \in Int /\ t < Ends(h, t) /\ Ends(h, t) <= t + Carry
        /\ h[t] \in Int /\ f[t] = h[t] * Overlap(t, Ends(h, t), a, b)
    BY <1>8, <2>1
  <2>3. Overlap(t, Ends(h, t), a, b) = 0
    BY <1>0, <1>1, <1>3, <2>1, <2>2 DEF Overlap, Lower, Higher
  <2> QED BY <2>2, <2>3
<1>10. ASSUME NEW t \in U PROVE HoldsUntil(w, t, at) = Lower(Ends(h, t), at)
  <2> DEFINE Later == {u \in DOMAIN h : u > t}
             S == {t + Carry, at} \cup Later
  <2>1. t \in M /\ from <= t /\ t \in Int BY <1>5, <1>8
  <2>2. {u \in DOMAIN w : u > t} = Later
    <3>1. \A u \in DOMAIN h : u \in Int BY DEF Sound
    <3> HIDE DEF w, from
    <3> QED BY <1>1, <1>4, <2>1, <3>1
  <2>3. HoldsUntil(w, t, at) = Min(S)
    <3> HIDE DEF w
    <3> QED BY <2>2 DEF HoldsUntil
  <2> DEFINE m == Lower(Ends(h, t), at)
  <2>4. /\ Ends(h, t) \in Int /\ \A u \in Later : Ends(h, t) <= u
        /\ Ends(h, t) <= t + Carry /\ (Ends(h, t) = t + Carry \/ Ends(h, t) \in Later)
    BY <2>1, EndsFacts
  <2>5. \A u \in Later : u \in Int BY DEF Sound
  <2> HIDE DEF Later
  <2>6. m \in Int /\ m \in S /\ \A y \in S : m <= y
    BY <1>0, <2>1, <2>4, <2>5 DEF Lower
  <2>7. \A y \in S : y \in Int BY <1>0, <2>1, <2>5
  <2>8. \A x \in S : (\A y \in S : x <= y) => x = m BY <2>6, <2>7
  <2>9. Min(S) \in S /\ \A y \in S : Min(S) <= y
    <3> HIDE DEF S, m
    <3> QED BY <2>6 DEF Min
  <2>10. Min(S) = m
    <3> HIDE DEF S, m
    <3> QED BY <2>8, <2>9
  <2> QED BY <2>3, <2>10
<1>11. ASSUME NEW t \in U PROVE g[t] = f[t]
  <2>1. t \in M BY <1>5
  <2>2. t \in {u \in DOMAIN w : Measured(w[u])} BY DEF MeasuredIn
  <2>3. g[t] = w[t] * PartOn(t, HoldsUntil(w, t, at), d) BY <2>2
  <2>4. w[t] = h[t]
    <3> HIDE DEF w
    <3> QED BY <1>4, <2>2
  <2>5. HoldsUntil(w, t, at) = Lower(Ends(h, t), at) BY <1>10
  <2> HIDE DEF w, d, f, M
  <2>6. /\ t \in Int /\ Ends(h, t) \in Int /\ f[t] = h[t] * Overlap(t, Ends(h, t), d * Day, (d + 1) * Day)
    BY <1>8, <2>1
  <2> DEFINE end == Lower(Ends(h, t), at)
  <2>7. end \in Int BY <2>6 DEF Lower
  <2>8. PartOn(t, end, d) = Overlap(t, end, d * Day, (d + 1) * Day)
    <3>1. Max({t, d * Day}) = Higher(t, d * Day) BY <1>1, <2>6, MinMaxOfTwo
    <3>2. Min({end, (d + 1) * Day}) = Lower(end, (d + 1) * Day)
      <4> HIDE DEF end
      <4> QED BY <1>1, <2>7, MinMaxOfTwo
    <3> HIDE DEF end
    <3> QED BY <3>1, <3>2 DEF PartOn, Overlap
  <2>9. Lower(end, (d + 1) * Day) = Lower(Ends(h, t), (d + 1) * Day)
    <3> HIDE DEF a
    <3> QED BY <1>1, <1>2, <2>6 DEF Lower
  <2>10. Overlap(t, end, d * Day, (d + 1) * Day) = Overlap(t, Ends(h, t), d * Day, (d + 1) * Day)
    <3> HIDE DEF end
    <3> QED BY <2>9 DEF Overlap
  <2> QED BY <2>3, <2>4, <2>5, <2>6, <2>8, <2>10
<1>12. SumFunctionOnSet(g, U) = SumFunctionOnSet(f, M)
  <2>1. \A t \in M : f[t] \in Int BY <1>8
  <2> HIDE DEF f, g, M, U
  <2> QED BY <1>5, <1>7, <1>9, <1>11, <2>1, SumsAreEqual
<1>13. TotalOn(w, at, d) = SumFunctionOnSet(g, U)
  <2>1. DOMAIN g = U BY DEF MeasuredIn
  <2>2. TotalOn(w, at, d) = SumFunction(g) BY DEF TotalOn
  <2> HIDE DEF g, U
  <2> QED BY <2>1, <2>2 DEF SumFunction
<1>14. SumFunctionOnSet(f, M) = SumFunction(f)
  <2>1. DOMAIN f = M BY DEF Brought
  <2> HIDE DEF f
  <2> QED BY <2>1 DEF SumFunction
<1>15. SumFunction(f) = SumFunction(Rates(h, a, b))
  <2> HIDE DEF a, b
  <2>1. SumFunction(Brought(h, a, a + Day)) = SumFunction(Rates(h, a, a + Day))
    BY <1>0, <1>1, BroughtIsFallen
  <2> QED BY <1>1, <2>1
<1>16. FallenOn(h, d) = SumFunction(Rates(h, a, b)) BY DEF FallenOn, Rates
<1> HIDE DEF d, a, b, w, M, U, f, g
<1>17. TotalOn(w, at, d) = FallenOn(h, d) BY <1>12, <1>13, <1>14, <1>15, <1>16
<1> QED BY <1>17 DEF w, d

\* What is known of the history of a slope.
RainInv ==
  /\ Sound(rain) /\ latest \in Int /\ \A t \in DOMAIN rain : t <= latest
  /\ profile.consecutiveDays \in 1..30

LEMMA RainInvariant == Spec => []RainInv
<1>1. \A p : ValidProfile(p) => p.consecutiveDays \in 1..30 BY DEF ValidProfile
<1>2. \A t \in Times, r \in Readings : t \in Int /\ r.rain \in Int \cup {Missing}
  <2> SUFFICES ASSUME NEW t \in Times, NEW r \in Readings PROVE t \in Int /\ r.rain \in Int \cup {Missing}
    OBVIOUS
  <2>1. r \in [Sensors -> Int \cup {Missing}] BY ProfilesAssumption
  <2>2. "rain" \in Sensors BY DEF Sensors
  <2> QED BY <2>1, <2>2, ProfilesAssumption
<1>3. Init => RainInv
  <2> SUFFICES ASSUME Init PROVE RainInv OBVIOUS
  <2>1. ValidProfile(profile) BY DEF Init
  <2>2. PICK t \in Times, r \in Readings : latest = t /\ rain = [u \in {t} |-> r.rain] BY DEF Init
  <2>3. DOMAIN rain = {t} /\ rain[t] = r.rain BY <2>2
  <2>4. IsFiniteSet({t}) BY FS_Singleton
  <2>5. Sound(rain) BY <1>2, <2>3, <2>4 DEF Sound
  <2> QED BY <1>1, <1>2, <2>1, <2>2, <2>3, <2>5 DEF RainInv
<1>4. RainInv /\ [Next]_vars => RainInv'
  <2> SUFFICES ASSUME RainInv, [Next]_vars PROVE RainInv' OBVIOUS
  <2>1. ASSUME NEW t \in Times, NEW r \in Readings, rain' = With(t, r.rain)
        PROVE  Sound(rain') /\ DOMAIN rain' = DOMAIN rain \cup {t}
    <3>1. DOMAIN rain' = DOMAIN rain \cup {t}
          /\ \A u \in DOMAIN rain' : rain'[u] = IF u = t THEN r.rain ELSE rain[u]
      BY <2>1 DEF With
    <3>2. IsFiniteSet(DOMAIN rain \cup {t}) BY FS_AddElement DEF RainInv, Sound
    <3>3. DOMAIN rain' \subseteq Int BY <3>1, <1>2 DEF RainInv, Sound
    <3>4. \A u \in DOMAIN rain' : rain'[u] \in Int \cup {Missing} BY <3>1, <1>2 DEF RainInv, Sound
    <3> QED BY <3>1, <3>2, <3>3, <3>4 DEF Sound
  <2>2. ASSUME NEW t \in Times, NEW r \in Readings, Sample(t, r) PROVE RainInv'
    <3>1. rain' = With(t, r.rain) /\ latest' = t /\ t > latest /\ profile' = profile
      BY <2>2 DEF Sample
    <3>2. Sound(rain') /\ DOMAIN rain' = DOMAIN rain \cup {t} BY <2>1, <3>1
    <3>3. \A u \in DOMAIN rain : u \in Int /\ u <= latest BY DEF RainInv, Sound
    <3> QED BY <1>2, <3>1, <3>2, <3>3 DEF RainInv
  <2>3. ASSUME NEW t \in Times, NEW r \in Readings, LateSample(t, r) PROVE RainInv'
    <3>1. rain' = With(t, r.rain) /\ latest' = latest /\ t < latest /\ profile' = profile
      BY <2>3 DEF LateSample
    <3>2. Sound(rain') /\ DOMAIN rain' = DOMAIN rain \cup {t} BY <2>1, <3>1
    <3> QED BY <1>2, <3>1, <3>2 DEF RainInv
  <2>4. ASSUME NEW p \in Profiles, UpdateProfile(p) PROVE RainInv'
    <3>1. ValidProfile(p) /\ profile' = p /\ UNCHANGED <<rain, latest>> BY <2>4 DEF UpdateProfile
    <3>2. profile'.consecutiveDays \in 1..30 BY <1>1, <3>1
    <3>3. Sound(rain)' BY <3>1 DEF RainInv, Sound
    <3> QED BY <3>1, <3>2, <3>3 DEF RainInv
  <2>5. CASE UNCHANGED vars BY <2>5 DEF vars, RainInv
  <2> QED BY <2>2, <2>3, <2>4, <2>5 DEF Next
<1> QED BY <1>3, <1>4, PTL DEF Spec

\* Whatever the length of a day and of the carry, up to a day, and however
\* many samples came in whatever order: the totals of the days before the
\* latest sample are the integral of the rate that was in force
\* (summarizeRainfallDuration, addInterval, loadRainfallHistory).
THEOREM TotalsAreIntegrals == Spec => []TotalsAreExact
<1>1. RainInv => TotalsAreExact
  <2> SUFFICES ASSUME RainInv, NEW j \in 1..profile.consecutiveDays
               PROVE  TotalOn(WindowOf(rain, latest, profile.consecutiveDays), latest, DateOf(latest) - j)
                        = FallenOn(rain, DateOf(latest) - j)
    BY DEF TotalsAreExact
  <2>1. profile.consecutiveDays \in Nat BY DEF RainInv
  <2>2. Sound(rain) /\ latest \in Int /\ \A t \in DOMAIN rain : t <= latest BY DEF RainInv
  <2> QED BY <2>1, <2>2, TotalIsFallen
<1> QED BY <1>1, RainInvariant, PTL
=============================================================================
