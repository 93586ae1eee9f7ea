--------------------------- MODULE RainfallDuration ---------------------------
(***************************************************************************)
(* rainfall-duration.ts: how much rain fell on each of the local days      *)
(* before a sample, from rates that were measured now and then.            *)
(*                                                                         *)
(* Times are whole numbers of a unit, days are Day units long and a total  *)
(* is in rate times unit.  A history maps device times to rates, or to     *)
(* Missing.                                                                *)
(***************************************************************************)
EXTENDS RiskEngine, FiniteSets, FiniteSetsExt, Functions

CONSTANTS
  Day,       \* length of a local day
  Carry      \* maximumRainfallCarryMilliseconds, far less than a day

ASSUME RainfallAssumption ==
  /\ Missing \notin Int
  /\ Day \in Nat \ {0} /\ Carry \in 1..Day

Measured(rate) == rate # Missing /\ rate >= 0

\* localDateKey
DateOf(t) == t \div Day

\* A rate holds until the next sample, for Carry at most.
HoldsUntil(history, t, at) == Min({t + Carry, at} \cup {u \in DOMAIN history : u > t})

\* Mutation: the whole interval counts for the day it starts in.
WholeInterval(from, to, date) == IF DateOf(from) = date /\ to > from THEN to - from ELSE 0
\* addInterval: an interval is cut where the local date changes.
PartOn(from, to, date) ==
  LET start == Max({from, date * Day})
      end == Min({to, (date + 1) * Day})
  IN  IF end > start THEN end - start ELSE 0

TotalOn(history, at, date) ==
  SumFunction([t \in {u \in DOMAIN history : Measured(history[u])} |->
                 history[t] * PartOn(t, HoldsUntil(history, t, at), date)])

\* The days before at's in a row, the nearest first, with a total in the range.
ModerateDays(history, at, days, range) ==
  Cardinality({k \in 1..days :
    \A j \in 1..k : TotalOn(history, at, DateOf(at) - j) \in range.min..range.max})

\* loadRainfallHistory
WindowOf(history, at, days) ==
  [t \in DOMAIN history \cap ((at - (days + 2) * Day)..at) |-> history[t]]

-----------------------------------------------------------------------------
(* The same, instant by instant.                                           *)

RateAt(history, t) ==
  LET before == {u \in DOMAIN history : u <= t}
      last == Max(before)
  IN  IF before # {} /\ t - last < Carry /\ Measured(history[last]) THEN history[last] ELSE 0

FallenOn(history, date) ==
  SumFunction([t \in (date * Day)..((date + 1) * Day - 1) |-> RateAt(history, t)])
=============================================================================
