------------------------------ MODULE Dashboard ------------------------------
(***************************************************************************)
(* How the pages judge one device: the overview, which is public, and the  *)
(* page of the device, both of single-device.service.ts.  They find the    *)
(* only enabled device, look up the state of its point, and judge by       *)
(* themselves how fresh its latest sample is.  Pages reads them in the     *)
(* order of the code.                                                      *)
(***************************************************************************)
EXTENDS MonitoringState

\* resolve() and resolvePublic(), where PUBLIC_DASHBOARD_HARDWARE_ID may
\* name a device.
Deployed(hardwareId) ==
  {d \in Devices : /\ Enabled(d) /\ device[d].point \in activePoints
                   /\ hardwareId # NoDevice => d = hardwareId}

\* singleDeviceContext: none is "not configured", two are a conflict.
IsContext(hardwareId, d) == Deployed(hardwareId) = {d}

LimitsAt(p) == limits[SiteOf[p]]

\* Mutation: what was never received counts as fresh.
FreshUnlessOld(l, receivedAt, now) ==
  CASE l = NoLimits -> "UNKNOWN"
    [] l # NoLimits /\ now - receivedAt > l.offline -> "OFFLINE"
    [] l # NoLimits /\ now - receivedAt <= l.offline -> "ONLINE"
\* freshnessOf: by comparisons of its own, not those of evaluateConnectivity.
FreshnessOf(l, receivedAt, now) ==
  CASE receivedAt = Never \/ l = NoLimits -> "UNKNOWN"
    [] receivedAt # Never /\ l # NoLimits ->
         LET age == now - receivedAt
         IN  IF age <= l.online THEN "ONLINE"
             ELSE IF age < l.offline THEN "DELAYED"
             ELSE "OFFLINE"

LatestReceivedAt(p) == IF state[p].latest = NoMessage THEN Never ELSE telemetry[state[p].latest].receivedAt

\* The pages and the evaluator, each with comparisons of its own, never
\* contradict each other so that the page looks better: what the evaluator
\* has marked DELAYED or OFFLINE is not fresher by the limits in force, on a
\* page that reads its clock after the mark; but for limits that were widened
\* and that no run has seen yet.
NeverFresherThanMarked ==
  \A p \in Points \ widened :
    Marked(p) =>
      Freshness(FreshnessOf(LimitsAt(p), LatestReceivedAt(p), clock)) <= Freshness(state[p].connectivity)
=============================================================================
