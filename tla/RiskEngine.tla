----------------------------- MODULE RiskEngine -----------------------------
(***************************************************************************)
(* The pure part of the backend's risk evaluation: risk-engine.ts (the     *)
(* classification of one sample and the next projection of a monitoring    *)
(* point) and connectivity-policy.ts (the freshness of the latest sample). *)
(*                                                                         *)
(* A profile is a record                                                   *)
(*   [safe, danger : [tilt, soil, rain],                                   *)
(*    ranges : [tilt, soil, rain -> [min, max]],                           *)
(*    consecutiveDays, continuationRain]                                   *)
(* and a reading a record [tilt, soil, rain].  Missing is the null of a    *)
(* reading, of an upper technical limit and of the firmware's own level.   *)
(***************************************************************************)
EXTENDS Integers

CONSTANT Missing   \* the null of the code; not a number

Levels == {"UNKNOWN", "SAFE", "WATCH", "WARNING", "DANGER"}
Connectivity == {"UNKNOWN", "ONLINE", "DELAYED", "OFFLINE"}
FirmwareLevels == {"UNKNOWN", "SAFE", "WATCH", "DANGER"}

\* Mutation: the reset forgets a counter.
NoCountsPartial == [watch |-> 0, danger |-> 0]
NoCounts == [watch |-> 0, danger |-> 0, mismatch |-> 0]

-----------------------------------------------------------------------------
(* Classification of one sample.                                           *)

InRange(value, range) ==
  /\ value >= range.min
  /\ range.max # Missing => value <= range.max

SensorMissing(r) == Missing \in {r.tilt, r.soil, r.rain}

SensorsValid(profile, r) ==
  /\ InRange(r.tilt, profile.ranges.tilt)
  /\ InRange(r.soil, profile.ranges.soil)
  /\ InRange(r.rain, profile.ranges.rain)

\* Mutation: exactly so many days instead of at least so many.
ExactlyProlonged(profile, r, wetDays) ==
  /\ wetDays = profile.consecutiveDays
  /\ r.rain > profile.continuationRain
\* Rain goes on after enough consecutive days of moderate rain.
ProlongedRainfall(profile, r, wetDays) ==
  /\ wetDays >= profile.consecutiveDays
  /\ r.rain > profile.continuationRain

CombinedRainAndTilt(profile, r) ==
  /\ r.tilt >= profile.danger.tilt
  /\ r.rain >= profile.danger.rain

SomeDangerLimit(profile, r) ==
  \/ r.tilt >= profile.danger.tilt
  \/ r.rain >= profile.danger.rain
  \/ r.soil >= profile.danger.soil

AllBelowSafe(profile, r) ==
  /\ r.tilt < profile.safe.tilt
  /\ r.soil < profile.safe.soil
  /\ r.rain < profile.safe.rain

\* The level of a sample whose three sensors are present and plausible.
LevelOf(profile, r, wetDays) ==
  IF CombinedRainAndTilt(profile, r) \/ ProlongedRainfall(profile, r, wetDays)
  THEN "DANGER"
  ELSE IF SomeDangerLimit(profile, r) THEN "WARNING"
  ELSE IF AllBelowSafe(profile, r) THEN "SAFE"
  ELSE "WATCH"

\* classify(): the profile is Missing when the site has no active one.
Classify(enabled, profile, r, wetDays) ==
  IF \/ ~enabled
     \/ profile = Missing
     \/ SensorMissing(r)
     \/ ~SensorsValid(profile, r)
  THEN "UNKNOWN"
  ELSE LevelOf(profile, r, wetDays)

-----------------------------------------------------------------------------
(* The next projection of a monitoring point.                              *)

\* The firmware has no WARNING: its DANGER stands for both.
IsFirmwareRiskCompatible(firmwareRisk, serverRisk) ==
  IF firmwareRisk = "DANGER"
  THEN serverRisk \in {"WARNING", "DANGER"}
  ELSE firmwareRisk = serverRisk

Mismatch(firmwareRisk, serverRisk) ==
  /\ firmwareRisk # Missing
  /\ ~IsFirmwareRiskCompatible(firmwareRisk, serverRisk)

\* Mutation: a sample of another level does not end a run.
NextCountsKept(sameContext, counts, risk, firmwareRisk) ==
  LET base == IF sameContext THEN counts ELSE NoCounts
  IN  [watch    |-> IF risk = "WATCH" THEN base.watch + 1 ELSE base.watch,
       danger   |-> IF risk = "DANGER" THEN base.danger + 1 ELSE base.danger,
       mismatch |-> IF Mismatch(firmwareRisk, risk) THEN base.mismatch + 1 ELSE 0]
\* The counters restart when the device or the profile version behind the
\* projection is not the one of the new sample.
NextCounts(sameContext, counts, risk, firmwareRisk) ==
  LET base == IF sameContext THEN counts ELSE NoCounts
  IN  [watch    |-> IF risk = "WATCH" THEN base.watch + 1 ELSE 0,
       danger   |-> IF risk = "DANGER" THEN base.danger + 1 ELSE 0,
       mismatch |-> IF Mismatch(firmwareRisk, risk) THEN base.mismatch + 1 ELSE 0]

-----------------------------------------------------------------------------
(* Freshness of the latest sample, all times in the same unit.             *)

EvaluateConnectivity(receivedAt, evaluationTime, onlineWithin, offlineAfter) ==
  LET age == evaluationTime - receivedAt
  IN  IF age <= onlineWithin THEN "ONLINE"
      ELSE IF age <= offlineAfter THEN "DELAYED"
      ELSE "OFFLINE"
=============================================================================
