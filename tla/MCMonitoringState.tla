-------------------------- MODULE MCMonitoringState --------------------------
(* Small instances of MonitoringState.                                     *)
EXTENDS Dashboard, TLC

CONSTANTS d1, d2, p1, p2, s1

Calm == [tilt |-> 0, soil |-> 0, rain |-> 0]
Wet == [tilt |-> 0, soil |-> 2, rain |-> 1]
Steep == [tilt |-> 3, soil |-> 1, rain |-> 3]

Range02(max) == [min |-> 0, max |-> max]
Thresholds(safe, danger) ==
  [safe |-> [tilt |-> safe, soil |-> safe, rain |-> safe],
   danger |-> [tilt |-> danger, soil |-> danger, rain |-> danger],
   ranges |-> [tilt |-> Range02(4), soil |-> Range02(4), rain |-> Range02(Missing)],
   consecutiveDays |-> 2, continuationRain |-> 2]

\* Version 2 lowers the limits of version 1: Wet turns from WATCH into WARNING.
MCProfiles == <<Thresholds(1, 3), Thresholds(1, 2)>>

\* A replacement of the profile may keep the limits, narrow or widen them.
MCLimits == {[online |-> 0, offline |-> 1]}
MCLimitsTwo == {[online |-> 0, offline |-> 1], [online |-> 1, offline |-> 2]}

Sample(d, id, seq, at, reading, firmware) ==
  [device |-> d, id |-> id, seq |-> seq, at |-> at, reading |-> reading, firmware |-> firmware]

MCSiteOf == [p \in {p1, p2} |-> s1]
MCSiteOf1 == [p \in {p1} |-> s1]

\* The points play the same part, and the handlers; not for liveness.
MCSymmetry == Permutations(Points) \cup Permutations(Requests)

\* One device: messageIds and a sequence used twice, device times in any order.
MCMessagesOne == {Sample(d1, 1, 1, 1, Steep, "DANGER"), Sample(d1, 1, 2, 2, Calm, "SAFE"),
                  Sample(d1, 2, 2, 3, Wet, Missing), Sample(d1, 2, 3, 2, Wet, "SAFE")}
\* One device, device times out of order, to be outlived by the clock.
MCMessagesEval == {Sample(d1, 1, 1, 1, Calm, "SAFE"), Sample(d1, 2, 2, 2, Steep, "DANGER")}
=============================================================================
