---------------------------- MODULE MCRiskLevels ----------------------------
(* Three samples in three short days; profiles whose limits cross.           *)
EXTENDS OverviewSeries, PresentationReadings

Upto(max) == [min |-> 0, max |-> max]
Same(x) == [tilt |-> x, soil |-> x, rain |-> x]

\* Tilt and soil have an upper technical limit, rain has none.
Thresholds(safe, danger, days, rate) ==
  [safe |-> safe, danger |-> danger,
   ranges |-> [tilt |-> Upto(3), soil |-> Upto(3), rain |-> Upto(Missing)],
   moderate |-> [min |-> 1, max |-> 4], consecutiveDays |-> days, continuationRain |-> rate]

MCProfiles ==
  {Thresholds(Same(s), [Same(2) EXCEPT !.tilt = d], days, 0) :
     s \in 1..2, d \in 2..3, days \in 1..2}
  \cup {[Thresholds(Same(1), Same(3), 1, 2) EXCEPT !.ranges.tilt = Upto(4), !.ranges.soil = Upto(4)]}

MCReadings ==
  {[tilt |-> x, soil |-> 1, rain |-> r] : x \in {0, 3}, r \in {0, 2}}
  \cup {[tilt |-> 0, soil |-> 0, rain |-> 0], [tilt |-> 1, soil |-> 1, rain |-> 1],
        [tilt |-> 0, soil |-> 4, rain |-> 2], [tilt |-> 1, soil |-> 1, rain |-> Missing]}

MCTimes == 0..8
=============================================================================
