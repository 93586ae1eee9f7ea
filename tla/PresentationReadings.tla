------------------------ MODULE PresentationReadings ------------------------
(***************************************************************************)
(* The samples that the presentation scenario of the simulator makes from  *)
(* the limits of the active profile, in a cycle, with the level that a     *)
(* firmware would tell.  Samples are ten times finer than limits, which    *)
(* are multiples of a tenth.                                               *)
(***************************************************************************)
EXTENDS RiskLevels

Larger(x, y) == IF x > y THEN x ELSE y

\* readingsAt() with a factor in tenths: so far between watch and danger
\* as it is above one, or below watch.
Between(watch, danger, factor) == 10 * watch + (danger - watch) * (factor - 10)
\* A tenth of the distance, but at least 0.01, above danger.
Above(watch, danger) == 10 * danger + Larger(danger - watch, 1)

ReadingsAt(p, factor) == [s \in Sensors |-> Between(p.safe[s], p.danger[s], factor)]
ReadingsAbove(p) == [s \in Sensors |-> Above(p.safe[s], p.danger[s])]

\* Mutation: the rain of the warning is that of the danger.
WarningOfAll(p) == [s \in Sensors |-> 10 * p.danger[s]]
Warned(p) == [ReadingsAt(p, 5) EXCEPT !.tilt = 10 * p.danger.tilt]

\* presentationReadings(): one of each that it repeats.
Presented(p) ==
  <<[readings |-> ReadingsAt(p, 5), firmwareRisk |-> "SAFE"],
    [readings |-> ReadingsAt(p, 11), firmwareRisk |-> "WATCH"],
    [readings |-> Warned(p), firmwareRisk |-> "DANGER"],
    [readings |-> ReadingsAbove(p), firmwareRisk |-> "DANGER"],
    [readings |-> [ReadingsAbove(p) EXCEPT !.tilt = Missing], firmwareRisk |-> "UNKNOWN"],
    [readings |-> ReadingsAt(p, 5), firmwareRisk |-> "SAFE"]>>

\* The limits as samples are measured.
Finer(p) ==
  LET Tenfold(x) == IF x = Missing THEN Missing ELSE 10 * x
      TenfoldRange(r) == [min |-> 10 * r.min, max |-> Tenfold(r.max)]
  IN  [safe |-> [s \in Sensors |-> 10 * p.safe[s]],
       danger |-> [s \in Sensors |-> 10 * p.danger[s]],
       ranges |-> [s \in Sensors |-> TenfoldRange(p.ranges[s])],
       consecutiveDays |-> p.consecutiveDays,
       continuationRain |-> 10 * p.continuationRain]

ASSUME PresentationAssumption ==
  \A p \in Profiles :
    /\ Finer(p) # Missing
    /\ \A s \in Sensors : p.ranges[s] \in [min : Int, max : Int \cup {Missing}]

PresentedLevels(p, days) ==
  [i \in 1..6 |-> Classify(TRUE, Finer(p), Presented(p)[i].readings, days)]

\* The lowest sample, half of their distance below watch, and the highest,
\* a tenth of it above danger, are accepted and plausible.
Presentable(p) ==
  \A s \in Sensors :
    LET lowest == Between(p.safe[s], p.danger[s], 5)
        highest == Above(p.safe[s], p.danger[s])
    IN  /\ lowest >= 0
        /\ InRange(lowest, Finer(p).ranges[s]) /\ InRange(highest, Finer(p).ranges[s])

-----------------------------------------------------------------------------
\* Whatever profile the owner has made active, the demonstration shows the
\* levels in the order that its documentation names, and none of them
\* contradicts the firmware - if the limits leave room for the samples and
\* no days of rain have come before.
PresentationShowsEveryLevel ==
  Presentable(profile) /\ wetDays < profile.consecutiveDays =>
    /\ PresentedLevels(profile, wetDays) = <<"SAFE", "WATCH", "WARNING", "DANGER", "UNKNOWN", "SAFE">>
    /\ \A i \in 1..6 :
         IsFirmwareRiskCompatible(Presented(profile)[i].firmwareRisk, PresentedLevels(profile, wetDays)[i])
=============================================================================
