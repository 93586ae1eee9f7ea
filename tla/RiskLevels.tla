------------------------------ MODULE RiskLevels ------------------------------
(***************************************************************************)
(* One slope: its samples as they come in, in order and late, the profiles *)
(* that the validation of a new version accepts, and the level that        *)
(* classify() gives for the latest sample and the rainfall before it.      *)
(***************************************************************************)
EXTENDS RainfallDuration

CONSTANTS
  Profiles,     \* thresholds, not all of them valid
  Readings,     \* what a sample may hold: tilt, soil, rain
  Times,        \* device times of the samples
  MaxSamples    \* bound of the instance

Sensors == {"tilt", "soil", "rain"}

\* validate() of updateProfile, which is the stricter of the two that the
\* code has: WATCH below SIAGA, both within the technical range.
ValidProfile(profile) ==
  /\ \A s \in Sensors :
       /\ profile.safe[s] < profile.danger[s]
       /\ InRange(profile.safe[s], profile.ranges[s])
       /\ InRange(profile.danger[s], profile.ranges[s])
  /\ profile.moderate.min >= 0 /\ profile.moderate.min < profile.moderate.max
  /\ profile.consecutiveDays \in 1..30
  /\ profile.continuationRain >= 0

ASSUME ProfilesAssumption ==
  /\ Times \subseteq Int /\ MaxSamples \in Nat
  /\ Readings \subseteq [Sensors -> Int \cup {Missing}]
  /\ \A p \in Profiles : /\ p.consecutiveDays \in Int /\ p.continuationRain \in Int
                         /\ \A s \in Sensors : p.safe[s] \in Int /\ p.danger[s] \in Int

VARIABLES
  profile,   \* the active one
  rain,      \* the rates of all samples, by device time
  latest,    \* device time of the latest sample
  reading,   \* of the latest sample
  wetDays    \* consecutiveModerateDays when it was evaluated

vars == <<profile, rain, latest, reading, wetDays>>

Level == Classify(TRUE, profile, reading, wetDays)

With(t, rate) == [u \in DOMAIN rain \cup {t} |-> IF u = t THEN rate ELSE rain[u]]

Init ==
  /\ profile \in {p \in Profiles : ValidProfile(p)}
  /\ \E t \in Times, r \in Readings :
       latest = t /\ reading = r /\ rain = [u \in {t} |-> r.rain]
  /\ wetDays = 0

\* The latest sample of the device, evaluated with the profile in force.
Sample(t, r) ==
  /\ t > latest
  /\ Cardinality(DOMAIN rain) < MaxSamples
  /\ rain' = With(t, r.rain)
  /\ latest' = t /\ reading' = r
  /\ wetDays' = LET days == profile.consecutiveDays
                IN  ModerateDays(WindowOf(With(t, r.rain), t, days), t, days, profile.moderate)
  /\ UNCHANGED profile

\* A sample that is late is only part of the history.
LateSample(t, r) ==
  /\ t < latest /\ t \notin DOMAIN rain
  /\ Cardinality(DOMAIN rain) < MaxSamples
  /\ rain' = With(t, r.rain)
  /\ UNCHANGED <<profile, latest, reading, wetDays>>

\* A new version is asked to be different (same()) and valid.
UpdateProfile(p) ==
  /\ ValidProfile(p) /\ p # profile
  /\ profile' = p
  /\ UNCHANGED <<rain, latest, reading, wetDays>>

Next ==
  \/ \E t \in Times, r \in Readings : Sample(t, r)
  \/ \E t \in Times, r \in Readings : LateSample(t, r)
  \/ \E p \in Profiles : UpdateProfile(p)

Spec == Init /\ [][Next]_vars

-----------------------------------------------------------------------------
\* A sample is a number per sensor or nothing, under a profile that was accepted.
TypeOK ==
  /\ profile \in {p \in Profiles : ValidProfile(p)}
  /\ reading \in [Sensors -> Int \cup {Missing}]
  /\ wetDays \in Nat

Rank(level) ==
  CASE level = "SAFE" -> 1 [] level = "WATCH" -> 2
    [] level = "WARNING" -> 3 [] level = "DANGER" -> 4 [] OTHER -> 0

\* The readings r are nowhere lower than q.
AtLeast(r, q) == \A s \in Sensors : r[s] >= q[s]

\* The profile p has no limit above q's.
NoLaxer(p, q) ==
  /\ \A s \in Sensors : p.safe[s] <= q.safe[s] /\ p.danger[s] <= q.danger[s]
  /\ p.consecutiveDays <= q.consecutiveDays
  /\ p.continuationRain <= q.continuationRain

\* Readings that get worse, more days of rain, limits that get stricter:
\* the level of a sample never falls.  The four rules are written as
\* separate comparisons, two of them for pairs of sensors, and only their
\* order makes them a scale.
WorseIsNeverLower ==
  [][/\ Level # "UNKNOWN" /\ Level' # "UNKNOWN"
     /\ AtLeast(reading', reading) /\ wetDays' >= wetDays /\ NoLaxer(profile', profile)
     => Rank(Level') >= Rank(Level)]_vars

\* The totals that the latest sample is judged by are what fell in these
\* days, instant by instant: across midnight, over gaps and readings that
\* failed, in whatever order the samples came, and nothing of it lies
\* outside the window that is read from the database.
TotalsAreExact ==
  LET days == profile.consecutiveDays
  IN  \A j \in 1..days :
        TotalOn(WindowOf(rain, latest, days), latest, DateOf(latest) - j)
          = FallenOn(rain, DateOf(latest) - j)
=============================================================================
