-------------------------------- MODULE Pages --------------------------------
(***************************************************************************)
(* A page of the dashboard while the backend goes on: overview() and       *)
(* device() of single-device.service.ts first await the device and its     *)
(* profile, then read the state of the point it was at, under no           *)
(* transaction.  Anything may be committed between the two reads.          *)
(***************************************************************************)
EXTENDS Dashboard

VARIABLE page   \* what a page in progress has resolved, NoPage without one

NoPage == [device |-> NoDevice, point |-> NoPoint, limits |-> NoLimits, since |-> Never]

\* The first read, of resolve() or resolvePublic().
Resolve(hardwareId, d) ==
  /\ page = NoPage
  /\ IsContext(hardwareId, d)
  /\ page' = [device |-> d, point |-> device[d].point,
              limits |-> LimitsAt(device[d].point), since |-> clock]

\* The second read, and the answer: what it shows is below, of the state at
\* this moment.
Answer ==
  /\ page # NoPage
  /\ page' = NoPage

\* Mutation: whatever the state of the point says.
StatusOfState(now) == state[page.point].risk
\* overview(): a level is only trusted while the latest sample is fresh.
OverviewStatus(now) ==
  IF FreshnessOf(page.limits, LatestReceivedAt(page.point), now) = "ONLINE"
  THEN state[page.point].risk ELSE "UNKNOWN"

\* device(): what it says of each sensor.
SensorStatus(sensor, now) ==
  LET freshness == FreshnessOf(page.limits, LatestReceivedAt(page.point), now)
      reading == state[page.point].latest.reading
  IN  CASE freshness # "ONLINE" -> "UNKNOWN"
        [] freshness = "ONLINE" /\ reading[sensor] = Missing -> "UNREADABLE"
        [] freshness = "ONLINE" /\ reading[sensor] # Missing -> "READABLE"

Open == \E d \in Devices, h \in Devices \cup {NoDevice} : Resolve(h, d)

PageInit == Init /\ page = NoPage
PageNext ==
  \/ Next /\ UNCHANGED page
  \/ (Open \/ Answer) /\ UNCHANGED vars
PageSpec == PageInit /\ [][PageNext]_<<vars, page>>

-----------------------------------------------------------------------------
(* Properties                                                              *)

\* The device is still enabled where the page looks for its state.
StillThere == Enabled(page.device) /\ device[page.device].point = page.point

\* A level on the overview is never older than the onlineWithinMinutes the
\* page found, even while no run of the evaluator has noticed the silence;
\* it comes from an enabled device at the point, no sample of which tells
\* otherwise by device time, and every sensor of that sample is readable.
\* Another device's level is only shown if the page's own was disabled or
\* moved away between its two reads.  overview() takes its time between
\* them, device() after the second.
ShownLevelIsItsOwn ==
  page # NoPage =>
    \A now \in page.since..clock :
      LET p == page.point
          m == state[p].latest
      IN  OverviewStatus(now) # "UNKNOWN" =>
            /\ m \in Messages /\ Stored(m)
            /\ Enabled(m.device) /\ device[m.device].point = p
            /\ StillThere => m.device = page.device
            /\ now - telemetry[m].receivedAt <= page.limits.online
            /\ \A n \in Messages : Stored(n) /\ n.device = m.device => n.at <= m.at
            /\ \A s \in {"tilt", "soil", "rain"} : SensorStatus(s, now) = "READABLE"
=============================================================================
