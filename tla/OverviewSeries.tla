---------------------------- MODULE OverviewSeries ----------------------------
(***************************************************************************)
(* The series of the overview: the samples of a range of time, one by one  *)
(* or as the averages of buckets, which the database computes and the      *)
(* service completes with empty ones.                                      *)
(***************************************************************************)
EXTENDS RiskLevels

CONSTANTS
  RawUpTo, FineUpTo,   \* a day and a week
  Fine, Coarse,        \* lengths of the buckets
  MaxRange             \* MAX_OVERVIEW_RANGE

ASSUME SeriesAssumption ==
  {RawUpTo, FineUpTo, Fine, Coarse, MaxRange} \subseteq Nat \ {0} /\ Fine <= Coarse

\* rangeOf(), which refuses any other.
ValidRange(from, to) == from < to /\ to - from <= MaxRange

BucketLength(from, to) == IF to - from <= FineUpTo THEN Fine ELSE Coarse

\* date_bin(length, t, origin)
Bin(length, t, origin) == origin + ((t - origin) \div length) * length

\* The samples behind each average.
Buckets(from, to) ==
  LET length == BucketLength(from, to)
      inRange == {t \in DOMAIN rain : from <= t /\ t < to}
  IN  [b \in {Bin(length, t, from) : t \in inRange} |-> {t \in inRange : Bin(length, t, from) = b}]

\* Mutation: the empty buckets are those of the clock.
FillByTheClock(buckets, from, to) ==
  LET length == BucketLength(from, to)
  IN  [b \in {t \in from..(to - 1) : t % length = 0} |->
         IF b \in DOMAIN buckets THEN buckets[b] ELSE {}]
\* fillOverviewBuckets
Fill(buckets, from, to) ==
  LET length == BucketLength(from, to)
  IN  [b \in {t \in from..(to - 1) : (t - from) % length = 0} |->
         IF b \in DOMAIN buckets THEN buckets[b] ELSE {}]

\* overviewSeries()
Series(from, to) ==
  IF to - from <= RawUpTo
  THEN [t \in {u \in DOMAIN rain : from <= u /\ u < to} |-> {t}]
  ELSE Fill(Buckets(from, to), from, to)

-----------------------------------------------------------------------------
\* Every sample of the range is behind exactly one point of the series, at
\* most a bucket's length after it: the buckets of the database are those
\* of the service, whatever the origin, and the last one may be cut off.
SeriesShowsEverySample ==
  \A from \in Times, to \in {t + 1 : t \in Times} :
    ValidRange(from, to) =>
      LET series == Series(from, to)
      IN  \A t \in DOMAIN rain : from <= t /\ t < to =>
            /\ \E b \in DOMAIN series : t \in series[b] /\ b <= t /\ t < b + Coarse
            /\ \A b, c \in DOMAIN series : t \in series[b] /\ t \in series[c] => b = c
=============================================================================
