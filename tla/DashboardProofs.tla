---------------------------- MODULE DashboardProofs ----------------------------
(***************************************************************************)
(* What holds of the times and counters beside the levels, and of what the *)
(* pages make of them, for every value of the constants.                   *)
(***************************************************************************)
EXTENDS Pages, MonitoringStateProofs

\* A run of the evaluator works with a time that has passed.
RunsInv == \A e \in Evaluators : evaluator[e].running => evaluator[e].time <= clock

\* A mark is older than the limits allow at the time it is judged by.
MarkHolds(connectivity, age, l) ==
  /\ connectivity = "DELAYED" => age > l.online
  /\ connectivity = "OFFLINE" => age > l.offline

\* What the row of a point says of its latest sample.
PointAt(p) ==
  /\ state[p].counts.watch > 0 => state[p].risk = "WATCH"
  /\ state[p].counts.danger > 0 => state[p].risk = "DANGER"
  /\ state[p].risk # "UNKNOWN" => ~SensorMissing(state[p].latest.reading)
  /\ Marked(p) => state[p].latest # NoMessage
  /\ p \notin widened =>
       MarkHolds(state[p].connectivity, clock - telemetry[state[p].latest].receivedAt, LimitsAt(p))

PointsInv == \A p \in Points : PointAt(p)

TimesInv == RunsInv /\ PointsInv /\ DeviceTimesAreMaxima

\* The limits of every site are numbers in their order, or none are set.
LEMMA LimitsOrdered ==
  \A l \in Limits \cup {NoLimits} : l.online \in Nat /\ l.offline \in Nat /\ l.online <= l.offline
<1>1. \A l \in Limits : l \in [online : Nat, offline : Nat] /\ l.online < l.offline
  BY ConstantsAssumption DEF ConstantsAssumption
<1>2. \A l \in [online : Nat, offline : Nat] : l.online \in Nat /\ l.offline \in Nat
  OBVIOUS
<1> QED
  BY <1>1, <1>2 DEF NoLimits

(* So are those a point is judged by.                                      *)
LEMMA LimitsType ==
  ASSUME TypeOK, NEW p \in Points
  PROVE  /\ LimitsAt(p).online \in Nat /\ LimitsAt(p).offline \in Nat
         /\ LimitsAt(p).online <= LimitsAt(p).offline
<1>1. LimitsAt(p) \in Limits \cup {NoLimits}
  BY ConstantsAssumption DEF ConstantsAssumption, TypeOK, LimitsAt
<1> QED
  BY <1>1, LimitsOrdered

\* A sample only gets older.
LEMMA AgeGrows ==
  \A at, time, later \in Nat :
    time <= later => time - at \in Int /\ later - at \in Int /\ time - at <= later - at
OBVIOUS

(* Of a later time, and of no wider limits, a mark still holds.            *)
LEMMA MarkHoldsOn ==
  ASSUME NEW c, NEW age \in Int, NEW later \in Int, age <= later,
         NEW l, NEW k, l.online \in Nat, l.offline \in Nat, k.online \in Nat, k.offline \in Nat,
         c \in {"DELAYED", "OFFLINE"} => k.online <= l.online /\ k.offline <= l.offline,
         MarkHolds(c, age, l)
  PROVE  MarkHolds(c, later, k)
BY DEF MarkHolds

\* What the evaluator makes of a sample holds of its age at that time.
LEMMA TargetHolds ==
  ASSUME NEW at \in Nat, NEW time \in Nat, NEW l, l.online \in Nat, l.offline \in Nat,
         l.online <= l.offline
  PROVE  MarkHolds(EvaluateConnectivity(at, time, l.online, l.offline), time - at, l)
BY DEF MarkHolds, EvaluateConnectivity

(* It holds at the start, where nothing has been stored.                   *)
LEMMA TimesInit == Init => TimesInv
<1> SUFFICES ASSUME Init
             PROVE  TimesInv
  OBVIOUS
<1>1. RunsInv /\ PointsInv
  BY DEF Init, RunsInv, NotRunning, PointsInv, PointAt, Marked, MarkHolds, NoState, NoCounts
<1>2. \A m \in Messages : ~Stored(m)
  BY DEF Init, Stored, NoTelemetry
<1>3. \A d \in Devices : device[d].lastAt = Never /\ device[d].lastSeen = Never
  BY DEF Init, Unregistered
<1>4. DeviceTimesAreMaxima
  BY <1>2, <1>3 DEF DeviceTimesAreMaxima
<1> QED
  BY <1>1, <1>4 DEF TimesInv

(* The clock of the server never goes back.                                *)
LEMMA ClockGoesOn == TypeOK /\ [Next]_vars => clock' \in Nat /\ clock <= clock'
<1> SUFFICES ASSUME TypeOK, [Next]_vars
             PROVE  clock' \in Nat /\ clock <= clock'
  OBVIOUS
<1>1. clock \in Nat
  BY DEF TypeOK
<1>2. clock' = clock \/ clock' = clock + 1
  <2>1. CASE Ingestion
    BY <2>1 DEF Ingestion, Receive, Reject, Begin, Commit
  <2>2. CASE Evaluation
    BY <2>2 DEF Evaluation, StartEvaluation, EvaluateCandidate, FinishEvaluation, FailEvaluation, ExpireLock
  <2>3. CASE Administration
    BY <2>3 DEF Administration, RegisterDevice, MoveDevice, RotateCredential, DisableDevice,
       DeactivatePoint, ReactivatePoint, UpdateProfile, ReplaceProfile
  <2>4. CASE Tick \/ Restart \/ UNCHANGED vars
    BY <2>4 DEF Tick, Restart, vars
  <2> QED
    BY <2>1, <2>2, <2>3, <2>4 DEF Next
<1> QED
  BY <1>1, <1>2

(* A run keeps the time at which it started.                               *)
LEMMA StepRuns == TypeOK /\ RunsInv /\ [Next]_vars => RunsInv'
<1> SUFFICES ASSUME TypeOK, RunsInv, [Next]_vars, NEW e \in Evaluators, evaluator'[e].running
             PROVE  evaluator'[e].time <= clock'
  BY DEF RunsInv
<1>0. clock \in Nat /\ clock' \in Nat /\ clock <= clock' /\ evaluator[e].time \in Nat
  BY ClockGoesOn DEF TypeOK, EvaluatorRow
<1>1. CASE evaluator'[e].running = evaluator[e].running /\ evaluator'[e].time = evaluator[e].time
  BY <1>0, <1>1 DEF RunsInv
<1>2. CASE evaluator'[e] = [running |-> TRUE, time |-> clock, todo |-> Candidates]
  BY <1>0, <1>2
<1>3. CASE evaluator' = evaluator
  BY <1>1, <1>3
<1>4. ASSUME NEW f \in Evaluators, StartEvaluation(f)
      PROVE  evaluator'[e].time <= clock'
  <2>1. evaluator' = [evaluator EXCEPT ![f] = [running |-> TRUE, time |-> clock, todo |-> Candidates]]
    BY <1>4 DEF StartEvaluation
  <2>2. CASE e = f
    <3>1. evaluator'[e] = [running |-> TRUE, time |-> clock, todo |-> Candidates]
      BY <2>1, <2>2 DEF TypeOK
    <3> QED
      BY <3>1, <1>2
  <2>3. CASE e # f
    <3>1. evaluator'[e] = evaluator[e]
      BY <2>1, <2>3 DEF TypeOK
    <3> QED
      BY <3>1, <1>1
  <2> QED
    BY <2>2, <2>3
<1>5. ASSUME NEW f \in Evaluators, FinishEvaluation(f) \/ FailEvaluation(f)
      PROVE  evaluator'[e].time <= clock'
  <2>1. evaluator' = [evaluator EXCEPT ![f] = NotRunning]
    BY <1>5 DEF FinishEvaluation, FailEvaluation
  <2>2. e # f
    BY <2>1 DEF TypeOK, NotRunning
  <2>3. evaluator'[e] = evaluator[e]
    BY <2>1, <2>2 DEF TypeOK
  <2> QED
    BY <1>1, <2>3
<1>6. ASSUME NEW f \in Evaluators, NEW p \in Points, NEW d \in Devices, EvaluateCandidate(f, p, d)
      PROVE  evaluator'[e].time <= clock'
  <2>1. evaluator' = [evaluator EXCEPT ![f] = [evaluator[f] EXCEPT !.todo = evaluator[f].todo \ {<<p, d>>}]]
    BY <1>6 DEF EvaluateCandidate
  <2>2. evaluator'[e].running = evaluator[e].running /\ evaluator'[e].time = evaluator[e].time
    BY <2>1 DEF TypeOK, EvaluatorRow
  <2> QED
    BY <1>1, <2>2
<1>7. CASE Restart
  BY <1>7 DEF Restart, NotRunning
<1>8. CASE Ingestion \/ Administration \/ Tick \/ ExpireLock \/ UNCHANGED vars
  BY <1>3, <1>8 DEF Ingestion, Receive, Reject, Begin, Commit, Administration, RegisterDevice, MoveDevice,
     RotateCredential, DisableDevice, DeactivatePoint, ReactivatePoint, UpdateProfile, ReplaceProfile, Tick,
     ExpireLock, vars, procVars
<1> QED
  BY <1>4, <1>5, <1>6, <1>7, <1>8 DEF Next, Evaluation

(* What a step that stores no sample does to one point: it keeps its row,  *)
(* or forgets its counters, under limits that are no wider if it is not    *)
(* reckoned among the widened ones; it withdraws its level with the        *)
(* device; or a run of the evaluator judges it by the limits in force.     *)
NoWider(q) ==
  q \notin widened' =>
    /\ q \notin widened
    /\ Marked(q) => /\ LimitsAt(q)'.online <= LimitsAt(q).online
                    /\ LimitsAt(q)'.offline <= LimitsAt(q).offline

PointKept(q) ==
  /\ state'[q].risk = state[q].risk
  /\ state'[q].latest = state[q].latest
  /\ state'[q].connectivity = state[q].connectivity
  /\ state'[q].device = state[q].device
  /\ state'[q].counts \in {state[q].counts, NoCounts}
  /\ NoWider(q)

PointWithdrawn(q) ==
  /\ state'[q].risk = "UNKNOWN"
  /\ state'[q].counts = NoCounts
  /\ state'[q].connectivity = "UNKNOWN"
  /\ \/ state'[q].device = NoDevice
     \/ device'[state'[q].device].status = "DISABLED"

PointJudged(q) ==
  /\ state[q].latest # NoMessage
  /\ state'[q].latest = state[q].latest
  /\ state'[q].device = state[q].device
  /\ LimitsAt(q)' = LimitsAt(q)
  /\ \E e \in Evaluators :
       /\ evaluator[e].running
       /\ state'[q].connectivity = TargetConnectivity(e, q)
  /\ \/ state'[q].risk = "UNKNOWN" /\ state'[q].counts = NoCounts
     \/ state'[q].risk = state[q].risk /\ state'[q].counts = state[q].counts

(* A step that leaves the limits alone widens none.                        *)
LEMMA LimitsKept ==
  ASSUME TypeOK, UNCHANGED limitVars, NEW q \in Points
  PROVE  NoWider(q)
BY LimitsType DEF NoWider, LimitsAt, limitVars

\* All steps but the end of an ingestion leave a point as it was, withdraw
\* its level or mark its connectivity.
LEMMA OtherPoints ==
  ASSUME IInv, [Next]_vars, ~ \E r \in Requests, w \in HistoryDays : Commit(r, w)
  PROVE  \A q \in Points : PointKept(q) \/ PointWithdrawn(q) \/ PointJudged(q)
<1> USE DEF adminVars, rowVars, procVars
<1> DEFINE Goal == \A q \in Points : PointKept(q) \/ PointWithdrawn(q) \/ PointJudged(q)
<1>0. TypeOK /\ OpenIsProtected /\ \A q \in Points : state[q] \in StateRow
  BY DEF IInv, TypeOK
<1>1. ASSUME UNCHANGED <<state, limitVars>> PROVE Goal
  BY <1>0, <1>1, LimitsKept DEF PointKept
<1>2. ASSUME NEW e \in Evaluators, NEW p \in Points, NEW d \in Devices, EvaluateCandidate(e, p, d)
      PROVE  Goal
  <2> DEFINE target == TargetConnectivity(e, p)
  <2>1. evaluator[e].running /\ UNCHANGED limits
    BY <1>2 DEF EvaluateCandidate
  <2>2. CASE ~StillCandidate(p, d)
    <3>1. UNCHANGED <<state, limitVars>>
      BY <1>2, <2>1, <2>2 DEF EvaluateCandidate, limitVars
    <3> QED
      BY <3>1, <1>1
  <2>3. CASE StillCandidate(p, d)
    <3>1. ASSUME NEW q \in Points, q # p PROVE PointKept(q)
      <4>1. state'[q] = state[q]
        BY <1>0, <1>2, <3>1 DEF EvaluateCandidate, TypeOK
      <4>2. LimitsAt(q)' = LimitsAt(q) /\ (q \in widened' <=> q \in widened)
        BY <1>2, <2>1, <3>1 DEF EvaluateCandidate, LimitsAt
      <4>3. NoWider(q)
        BY <1>0, <4>2, LimitsType DEF NoWider
      <4> QED
        BY <4>1, <4>3 DEF PointKept
    <3>2. /\ state[p].latest # NoMessage /\ LimitsAt(p)' = LimitsAt(p)
          /\ state[p] \in StateRow
      BY <1>0, <2>1, <2>3 DEF StillCandidate, LimitsAt
    <3>3. state'[p] \in {[state[p] EXCEPT !.connectivity = target], Withdrawn(state[p], target)}
      <4>1. CASE state[p].connectivity = target
        <5>1. state'[p] = state[p]
          BY <1>2, <4>1 DEF EvaluateCandidate
        <5>2. state[p] = [state[p] EXCEPT !.connectivity = state[p].connectivity]
          BY <3>2 DEF StateRow
        <5> QED
          BY <5>1, <5>2, <4>1
      <4>2. CASE state[p].connectivity # target
        BY <1>2, <2>3, <4>2, <1>0 DEF EvaluateCandidate, TypeOK
      <4> QED
        BY <4>1, <4>2
    <3> HIDE DEF target
    <3>4. /\ state'[p].latest = state[p].latest /\ state'[p].device = state[p].device
          /\ state'[p].connectivity = target
          /\ \/ state'[p].risk = "UNKNOWN" /\ state'[p].counts = NoCounts
             \/ state'[p].risk = state[p].risk /\ state'[p].counts = state[p].counts
      BY <3>2, <3>3 DEF Withdrawn, StateRow
    <3>5. PointJudged(p)
      BY <2>1, <3>2, <3>4 DEF PointJudged, target
    <3> QED
      BY <3>1, <3>5
  <2> QED
    BY <2>2, <2>3
<1>3. ASSUME NEW d \in Devices, NEW p \in Points, MoveDevice(d, p) PROVE Goal
  <2> DEFINE old == device[d].point
  <2>0. UNCHANGED limitVars /\ \A q \in Points : NoWider(q)
    BY <1>0, <1>3, LimitsKept DEF MoveDevice
  <2>1. CASE state[old].device = d
    <3>0. old \in Points
      BY <1>3, <1>0 DEF MoveDevice, TypeOK, DeviceRow
    <3>1. \A q \in Points : q # old => state'[q] = state[q]
      BY <1>3, <2>1 DEF MoveDevice
    <3>2. state'[old] = [Withdrawn(state[old], "UNKNOWN") EXCEPT !.device = NoDevice, !.latest = NoMessage]
      BY <2>1, <1>3, <3>0, <1>0 DEF MoveDevice, TypeOK
    <3>3. PointWithdrawn(old)
      BY <3>2, <3>0, <1>0 DEF PointWithdrawn, Withdrawn, StateRow
    <3> QED
      BY <2>0, <3>1, <3>3 DEF PointKept
  <2>2. CASE state[old].device # d
    BY <1>1, <1>3, <2>0, <2>2 DEF MoveDevice
  <2> QED
    BY <2>1, <2>2
<1>4. ASSUME NEW d \in Devices, DisableDevice(d) PROVE Goal
  <2> DEFINE p == device[d].point
  <2>0. UNCHANGED limitVars /\ \A q \in Points : NoWider(q)
    BY <1>0, <1>4, LimitsKept DEF DisableDevice
  <2>1. CASE state[p].device = d
    <3>0. p \in Points
      BY <1>4, <1>0, EnabledIsRegistered DEF DisableDevice
    <3>1. \A q \in Points : q # p => state'[q] = state[q]
      BY <1>4, <2>1 DEF DisableDevice
    <3>2. state'[p] = Withdrawn(state[p], "UNKNOWN")
      BY <2>1, <1>4, <3>0, <1>0 DEF DisableDevice, TypeOK
    <3>3. device[d] \in RegisteredRow /\ device' = [device EXCEPT ![d] = [device[d] EXCEPT !.status = "DISABLED"]]
      BY <1>4, <1>0, EnabledIsRegistered DEF DisableDevice
    <3>4. device'[d].status = "DISABLED"
      BY <3>3, <1>0 DEF TypeOK, RegisteredRow
    <3>5. /\ state'[p].risk = "UNKNOWN" /\ state'[p].counts = NoCounts
          /\ state'[p].connectivity = "UNKNOWN" /\ state'[p].device = d
      BY <3>2, <3>0, <1>0, <2>1 DEF Withdrawn, StateRow
    <3>6. PointWithdrawn(p)
      BY <3>4, <3>5 DEF PointWithdrawn
    <3> QED
      BY <2>0, <3>1, <3>6 DEF PointKept
  <2>2. CASE state[p].device # d
    BY <1>1, <1>4, <2>0, <2>2 DEF DisableDevice
  <2> QED
    BY <2>1, <2>2
<1>5. ASSUME NEW s \in Sites, NEW l \in Limits, ReplaceProfile(s, l) PROVE Goal
  <2>1. \A q \in Points : state'[q] \in {state[q], [state[q] EXCEPT !.counts = NoCounts]}
    BY <1>5 DEF ReplaceProfile
  <2>2. ASSUME NEW q \in Points PROVE NoWider(q)
    <3> DEFINE k == limits[SiteOf[q]]
    <3>1. k.online \in Nat /\ k.offline \in Nat
      BY <1>0, LimitsType DEF LimitsAt
    <3>2. CASE SiteOf[q] = s
      <4>1. limits'[SiteOf[q]] = l /\ l.online \in Nat /\ l.offline \in Nat
        BY <1>0, <1>5, <3>2, ConstantsAssumption DEF ReplaceProfile, TypeOK, ConstantsAssumption
      <4>2. q \notin widened' =>
              /\ q \notin widened
              /\ Marked(q) => ~(l.online > k.online) /\ ~(l.offline > k.offline)
        BY <1>5, <3>2 DEF ReplaceProfile, MarkedByNarrower
      <4> QED
        BY <3>1, <4>1, <4>2 DEF NoWider, LimitsAt
    <3>3. CASE SiteOf[q] # s
      <4>1. limits'[SiteOf[q]] = k
        BY <1>5, <3>3 DEF ReplaceProfile
      <4>2. q \notin widened' => q \notin widened
        BY <1>5 DEF ReplaceProfile
      <4> QED
        BY <3>1, <4>1, <4>2 DEF NoWider, LimitsAt
    <3> QED
      BY <3>2, <3>3
  <2> QED
    BY <2>1, <2>2, <1>0 DEF PointKept, StateRow
<1>6. ASSUME Ingestion PROVE Goal
  BY <1>6, <1>1 DEF Ingestion, Receive, Reject, Begin
<1>7. ASSUME Evaluation PROVE Goal
  BY <1>7, <1>1, <1>2 DEF Evaluation, StartEvaluation, FinishEvaluation, FailEvaluation, ExpireLock
<1>8. ASSUME Administration PROVE Goal
  BY <1>8, <1>1, <1>3, <1>4, <1>5
     DEF Administration, RegisterDevice, RotateCredential, DeactivatePoint, ReactivatePoint, UpdateProfile
<1>9. ASSUME Tick \/ Restart \/ UNCHANGED vars PROVE Goal
  BY <1>9, <1>1 DEF Tick, Restart, vars, limitVars
<1> QED
  BY <1>6, <1>7, <1>8, <1>9 DEF Next

(* A sample that a point shows was received at some time.                  *)
LEMMA LatestIsStored ==
  ASSUME IInv, NEW p \in Points, state[p].latest # NoMessage
  PROVE  /\ state[p].latest \in Messages /\ Stored(state[p].latest)
         /\ telemetry[state[p].latest].receivedAt \in Nat
<1>1. state[p].latest \in Messages
  BY DEF IInv, TypeOK, StateRow
<1> QED
  BY <1>1 DEF IInv, StateRefersToRows, TypeOK, TelemetryRow

(* A step that stores no sample.                                           *)
LEMMA OtherPointsInv ==
  ASSUME IInv, TimesInv, [Next]_vars, ~ \E r \in Requests, w \in HistoryDays : Commit(r, w)
  PROVE  PointsInv'
<1>0. TypeOK /\ TypeOK' /\ RunsInv /\ LevelsOnlyGo
  BY OtherSteps, StepIInv DEF IInv, TimesInv
<1>1. clock \in Nat /\ clock' \in Nat /\ clock <= clock'
  BY <1>0, ClockGoesOn DEF TypeOK
<1>2. ASSUME NEW p \in Points PROVE PointAt(p)'
  <2>1. PointAt(p)
    BY DEF TimesInv, PointsInv
  <2>2. /\ state[p].latest # NoMessage =>
             /\ telemetry[state[p].latest].receivedAt \in Nat
             /\ telemetry'[state[p].latest].receivedAt = telemetry[state[p].latest].receivedAt
    BY LatestIsStored, <1>0 DEF LevelsOnlyGo
  <2>3. /\ LimitsAt(p).online \in Nat /\ LimitsAt(p).offline \in Nat
        /\ LimitsAt(p).online <= LimitsAt(p).offline
        /\ LimitsAt(p)'.online \in Nat /\ LimitsAt(p)'.offline \in Nat
    <3>1. LimitsAt(p)' \in Limits \cup {NoLimits}
      BY <1>0, ConstantsAssumption DEF ConstantsAssumption, TypeOK, LimitsAt
    <3> QED
      BY <1>0, <3>1, LimitsType, LimitsOrdered
  <2>4. CASE PointKept(p)
    <3>1. /\ state'[p].counts.watch > 0 => state'[p].risk = "WATCH"
          /\ state'[p].counts.danger > 0 => state'[p].risk = "DANGER"
          /\ state'[p].risk # "UNKNOWN" => ~SensorMissing(state'[p].latest.reading)
          /\ Marked(p)' => state'[p].latest # NoMessage
      BY <2>1, <2>4 DEF PointAt, PointKept, NoCounts, Marked
    <3>2. ASSUME p \notin widened', Marked(p)
          PROVE  MarkHolds(state'[p].connectivity, clock' - telemetry'[state'[p].latest].receivedAt, LimitsAt(p)')
      <4> DEFINE at == telemetry[state[p].latest].receivedAt
      <4>1. state[p].latest # NoMessage /\ p \notin widened
        BY <2>1, <2>4, <3>2 DEF PointAt, PointKept, NoWider
      <4>2. at \in Nat /\ telemetry'[state'[p].latest].receivedAt = at
        BY <2>2, <2>4, <4>1 DEF PointKept
      <4>3. MarkHolds(state[p].connectivity, clock - at, LimitsAt(p))
        BY <2>1, <4>1 DEF PointAt
      <4>4. clock - at \in Int /\ clock' - at \in Int /\ clock - at <= clock' - at
        BY <1>1, <4>2
      <4>5. LimitsAt(p)'.online <= LimitsAt(p).online /\ LimitsAt(p)'.offline <= LimitsAt(p).offline
        BY <2>4, <3>2 DEF PointKept, NoWider
      <4>6. state'[p].connectivity = state[p].connectivity
        BY <2>4 DEF PointKept
      <4> HIDE DEF at
      <4> QED
        BY <2>3, <4>2, <4>3, <4>4, <4>5, <4>6, MarkHoldsOn
    <3>3. ~Marked(p) => ~Marked(p)'
      BY <2>4 DEF PointKept, Marked
    <3> QED
      BY <3>1, <3>2, <3>3 DEF PointAt, Marked, MarkHolds
  <2>5. CASE PointWithdrawn(p)
    BY <2>5 DEF PointAt, PointWithdrawn, Marked, MarkHolds, NoCounts
  <2>6. CASE PointJudged(p)
    <3>1. PICK e \in Evaluators : /\ evaluator[e].running
                                  /\ state'[p].connectivity = TargetConnectivity(e, p)
      BY <2>6 DEF PointJudged
    <3> DEFINE at == telemetry[state[p].latest].receivedAt
               time == evaluator[e].time
    <3>2. at \in Nat /\ time \in Nat /\ time <= clock
      BY <2>2, <2>6, <3>1, <1>0 DEF PointJudged, RunsInv, TypeOK, EvaluatorRow
    <3>3. telemetry'[state'[p].latest].receivedAt = at
      BY <2>2, <2>6 DEF PointJudged
    <3>4. state'[p].connectivity = EvaluateConnectivity(at, time, LimitsAt(p).online, LimitsAt(p).offline)
      BY <3>1 DEF TargetConnectivity, LimitsAt
    <3>5. LimitsAt(p)' = LimitsAt(p) /\ state[p].latest # NoMessage /\ state'[p].latest = state[p].latest
      BY <2>6 DEF PointJudged
    <3>6. /\ state'[p].counts.watch > 0 => state'[p].risk = "WATCH"
          /\ state'[p].counts.danger > 0 => state'[p].risk = "DANGER"
          /\ state'[p].risk # "UNKNOWN" => ~SensorMissing(state'[p].latest.reading)
      BY <2>1, <2>6, <3>5 DEF PointAt, PointJudged, NoCounts
    <3> HIDE DEF at, time
    <3>7. MarkHolds(state'[p].connectivity, time - at, LimitsAt(p))
      BY <2>3, <3>2, <3>4, TargetHolds
    <3>8. time - at \in Int /\ clock' - at \in Int /\ time - at <= clock' - at
      <4>1. at \in Nat /\ time \in Nat /\ clock' \in Nat /\ time <= clock'
        BY <1>1, <3>2
      <4> QED
        BY <4>1, AgeGrows
    <3>9. MarkHolds(state'[p].connectivity, clock' - at, LimitsAt(p)')
      BY <2>3, <3>5, <3>7, <3>8, MarkHoldsOn
    <3> QED
      BY <3>3, <3>5, <3>6, <3>9 DEF PointAt
  <2> QED
    BY <2>4, <2>5, <2>6, OtherPoints
<1> QED
  BY <1>2 DEF PointsInv

(* A sample is committed: its point is ONLINE with the level of the        *)
(* sample, the counters are those of that level, and the sample of every   *)
(* other point stays what it was.                                          *)
LEMMA CommitPointsInv ==
  ASSUME IInv, PointsInv, NEW r \in Requests, NEW w \in HistoryDays, Commit(r, w)
  PROVE  PointsInv'
<1> DEFINE m == request[r].msg
           p == device[m.device].point
           risk == Classify(Enabled(m.device), ProfileOf(request[r].version), m.reading, w)
<1>0. /\ TypeOK /\ OpenIsProtected /\ request[r].stage = "open"
      /\ UNCHANGED <<clock, limits, widened>>
  BY DEF IInv, Commit, adminVars, limitVars
<1>1. m \in Messages /\ ~Stored(m) /\ p \in Points
  BY <1>0, OpenRequest
<1>2. \A n \in Messages : n # m => telemetry'[n] = telemetry[n]
  BY <1>0, CommitEffect
<1>3. ASSUME NEW q \in Points, state'[q] = state[q] PROVE PointAt(q)'
  <2>1. PointAt(q)
    BY DEF PointsInv
  <2>2. state[q].latest # NoMessage => telemetry'[state[q].latest] = telemetry[state[q].latest]
    BY <1>1, <1>2, LatestIsStored
  <2> QED
    BY <2>1, <2>2, <1>0, <1>3 DEF PointAt, Marked, MarkHolds, LimitsAt
<1>4. ASSUME NEW q \in Points, q = p, IsLatest(m) PROVE PointAt(q)'
  <2> DEFINE same == state[q].device = m.device /\ state[q].version = request[r].version
             cs == NextCounts(same, request[r].counts, risk, m.firmware)
  <2>1. state'[q] = NextState(q, m, request[r].version, request[r].counts, risk)
    BY <1>0, <1>1, <1>4 DEF Commit, TypeOK
  <2>2. /\ state'[q].risk = risk /\ state'[q].connectivity = "ONLINE"
        /\ state'[q].latest = m /\ state'[q].counts = cs
    <3> HIDE DEF m, p, risk
    <3> QED
      BY <2>1 DEF NextState
  <2>3. cs.watch > 0 => risk = "WATCH"
    <3> HIDE DEF m, p, risk, same
    <3> QED
      BY DEF NextCounts
  <2>4. cs.danger > 0 => risk = "DANGER"
    <3> HIDE DEF m, p, risk, same
    <3> QED
      BY DEF NextCounts
  <2>5. risk # "UNKNOWN" => ~SensorMissing(m.reading)
    BY DEF Classify
  <2> HIDE DEF m, p, risk, cs
  <2>6. /\ state'[q].counts.watch > 0 => state'[q].risk = "WATCH"
        /\ state'[q].counts.danger > 0 => state'[q].risk = "DANGER"
        /\ state'[q].risk # "UNKNOWN" => ~SensorMissing(state'[q].latest.reading)
    BY <2>2, <2>3, <2>4, <2>5
  <2> QED
    BY <2>2, <2>6 DEF PointAt, Marked, MarkHolds, SensorMissing
<1>5. ASSUME NEW q \in Points PROVE PointAt(q)'
  <2>1. CASE q = p /\ IsLatest(m)
    BY <1>4, <2>1
  <2>2. CASE ~(q = p /\ IsLatest(m))
    <3>1. state'[q] = state[q]
      BY <2>2, <1>0 DEF Commit, TypeOK
    <3> QED
      BY <3>1, <1>3
  <2> QED
    BY <2>1, <2>2
<1> QED
  BY <1>5 DEF PointsInv

(* Only a commit changes the times of a device: one that is registered has *)
(* none yet, as it had before.                                             *)
LEMMA OtherTimes ==
  ASSUME IInv, [Next]_vars, ~ \E r \in Requests, w \in HistoryDays : Commit(r, w)
  PROVE  \A d \in Devices : device'[d].lastSeen = device[d].lastSeen
<1> DEFINE Goal == \A d \in Devices : device'[d].lastSeen = device[d].lastSeen
<1>0. TypeOK
  BY DEF IInv
<1>1. ASSUME device' = device PROVE Goal
  BY <1>1
<1>2. ASSUME NEW d \in Devices, NEW p \in Points, RegisterDevice(d, p) PROVE Goal
  BY <1>2, <1>0 DEF RegisterDevice, TypeOK, Unregistered
<1>3. ASSUME NEW d \in Devices, NEW row, device' = [device EXCEPT ![d] = row],
             row.lastSeen = device[d].lastSeen
      PROVE  Goal
  BY <1>3, <1>0 DEF TypeOK
<1>4. ASSUME NEW d \in Devices, NEW p \in Points, MoveDevice(d, p) PROVE Goal
  <2>1. device[d] \in RegisteredRow
    BY <1>4, <1>0 DEF MoveDevice, TypeOK, DeviceRow, RegisteredRow
  <2>2. device' = [device EXCEPT ![d] = [device[d] EXCEPT !.point = p]]
    BY <1>4 DEF MoveDevice
  <2>3. [device[d] EXCEPT !.point = p].lastSeen = device[d].lastSeen
    BY <2>1 DEF RegisteredRow
  <2> QED
    BY <1>3, <2>2, <2>3
<1>5. ASSUME NEW d \in Devices, RotateCredential(d) PROVE Goal
  <2>1. device[d] \in RegisteredRow
    BY <1>5, <1>0, EnabledIsRegistered DEF RotateCredential
  <2>2. device' = [device EXCEPT ![d] = [device[d] EXCEPT !.credential = device[d].credential + 1]]
    BY <1>5 DEF RotateCredential
  <2>3. [device[d] EXCEPT !.credential = device[d].credential + 1].lastSeen = device[d].lastSeen
    BY <2>1 DEF RegisteredRow
  <2> QED
    BY <1>3, <2>2, <2>3
<1>6. ASSUME NEW d \in Devices, DisableDevice(d) PROVE Goal
  <2>1. device[d] \in RegisteredRow
    BY <1>6, <1>0, EnabledIsRegistered DEF DisableDevice
  <2>2. device' = [device EXCEPT ![d] = [device[d] EXCEPT !.status = "DISABLED"]]
    BY <1>6 DEF DisableDevice
  <2>3. [device[d] EXCEPT !.status = "DISABLED"].lastSeen = device[d].lastSeen
    BY <2>1 DEF RegisteredRow
  <2> QED
    BY <1>3, <2>2, <2>3
<1>7. ASSUME Ingestion PROVE Goal
  BY <1>7, <1>1 DEF Ingestion, Receive, Reject, Begin
<1>8. ASSUME Evaluation PROVE Goal
  BY <1>8, <1>1 DEF Evaluation, StartEvaluation, EvaluateCandidate, FinishEvaluation, FailEvaluation, ExpireLock
<1>9. ASSUME Administration PROVE Goal
  BY <1>9, <1>1, <1>2, <1>4, <1>5, <1>6
     DEF Administration, DeactivatePoint, ReactivatePoint, UpdateProfile, ReplaceProfile
<1>10. ASSUME Tick \/ Restart \/ UNCHANGED vars PROVE Goal
  BY <1>10, <1>1 DEF Tick, Restart, vars
<1> QED
  BY <1>7, <1>8, <1>9, <1>10 DEF Next

(* DeviceTimesAreMaxima of one device, with the rows as a set.             *)
Rows(d) == {m \in Messages : Stored(m) /\ m.device = d}
TimesOf(d) ==
  /\ Rows(d) = {} => device[d].lastAt = Never /\ device[d].lastSeen = Never
  /\ Rows(d) # {} =>
       /\ \E m \in Rows(d) : device[d].lastAt = m.at
       /\ \E m \in Rows(d) : device[d].lastSeen = telemetry[m].receivedAt
  /\ \A m \in Rows(d) :
       /\ m.at <= device[d].lastAt
       /\ telemetry[m].receivedAt <= device[d].lastSeen

(* DeviceTimesAreMaxima is a statement of each device.                     *)
LEMMA TimesByDevice == DeviceTimesAreMaxima <=> \A d \in Devices : TimesOf(d)
BY DEF DeviceTimesAreMaxima, TimesOf, Rows

(* A step that stores no sample leaves the maxima.                         *)
LEMMA OtherTimesInv ==
  ASSUME IInv, DeviceTimesAreMaxima, [Next]_vars,
         ~ \E r \in Requests, w \in HistoryDays : Commit(r, w)
  PROVE  DeviceTimesAreMaxima'
<1>1. LevelsOnlyGo
  BY OtherSteps
<1>2. ASSUME NEW d \in Devices PROVE TimesOf(d)'
  <2>1. TimesOf(d)
    BY TimesByDevice
  <2>2. /\ device'[d].lastAt = device[d].lastAt /\ device'[d].lastSeen = device[d].lastSeen
        /\ \A m \in Messages : telemetry'[m].receivedAt = telemetry[m].receivedAt
    BY <1>1, OtherTimes DEF LevelsOnlyGo
  <2>3. Rows(d)' = Rows(d)
    BY <2>2 DEF Rows, Stored
  <2>4. \A m \in Rows(d) : m \in Messages
    BY DEF Rows
  <2> QED
    BY <2>1, <2>2, <2>3, <2>4 DEF TimesOf
<1>3. (\A d \in Devices : TimesOf(d))'
  BY <1>2
<1> QED
  BY <1>3, TimesByDevice DEF DeviceTimesAreMaxima, TimesOf, Rows

(* A sample that is stored is one more to take the maxima over.            *)
LEMMA CommitTimesInv ==
  ASSUME IInv, DeviceTimesAreMaxima, NEW r \in Requests, NEW w \in HistoryDays, Commit(r, w)
  PROVE  DeviceTimesAreMaxima'
<1> DEFINE at == request[r].receivedAt
<1>1. PICK m \in Messages : m = request[r].msg
  BY OpenRequest DEF IInv, Commit
<1>2. PICK d \in Devices : d = m.device
  BY <1>1, ConstantsAssumption DEF ConstantsAssumption
<1>3. /\ TypeOK /\ OpenIsProtected /\ request[r].stage = "open" /\ ~Stored(m)
      /\ m.at \in Nat \ {Never} /\ at \in Nat \ {Never} /\ device[d] \in RegisteredRow
  BY <1>1, <1>2, OpenRequest DEF IInv, Commit
<1>4. /\ \A x \in Devices : x # d => device'[x] = device[x]
      /\ device'[d].lastAt = IF IsLatest(m) THEN m.at ELSE device[d].lastAt
      /\ \A n \in Messages : n # m => telemetry'[n] = telemetry[n]
  BY <1>1, <1>2, <1>3, CommitEffect
<1>5. device'[d].lastSeen = LaterOf(at, device[d].lastSeen)
  <2>1. device' = [device EXCEPT ![d] =
           [device[d] EXCEPT !.lastSeen = LaterOf(at, device[d].lastSeen),
                             !.lastAt = IF IsLatest(m) THEN m.at ELSE device[d].lastAt]]
    BY <1>1, <1>2 DEF Commit
  <2> QED
    BY <2>1, <1>3 DEF TypeOK, RegisteredRow
<1>6. telemetry'[m].receivedAt = at
  BY <1>1, <1>3 DEF Commit, TypeOK
<1> HIDE DEF at
<1>7. device[d].lastAt \in Nat /\ device[d].lastSeen \in Nat
  BY <1>3 DEF RegisteredRow
<1>8. ASSUME NEW x \in Devices PROVE TimesOf(x)'
  <2>1. TimesOf(x)
    BY TimesByDevice
  <2>2. CASE x # d
    <3>1. Rows(x)' = Rows(x) /\ \A n \in Rows(x) : n \in Messages /\ n # m
      BY <1>2, <1>3, <1>4, <2>2 DEF Rows, Stored
    <3> QED
      BY <2>1, <2>2, <3>1, <1>4 DEF TimesOf
  <2>3. CASE x = d
    <3>1. Rows(d)' = Rows(d) \cup {m} /\ m \notin Rows(d) /\ Rows(d) \subseteq Messages
      BY <1>2, <1>3, <1>4, <1>6 DEF Rows, Stored, Never
    <3>2. \A n \in Rows(d) : /\ telemetry'[n].receivedAt = telemetry[n].receivedAt
                             /\ telemetry[n].receivedAt \in Nat /\ n.at \in Nat
      BY <3>1, <1>3, <1>4, ConstantsAssumption DEF TypeOK, TelemetryRow, ConstantsAssumption
    <3>3. /\ device[d].lastAt <= device'[d].lastAt /\ m.at <= device'[d].lastAt
          /\ device'[d].lastAt \in {m.at, device[d].lastAt}
          /\ device[d].lastAt = Never => device'[d].lastAt = m.at
      BY <1>2, <1>3, <1>4, <1>7 DEF IsLatest, Never
    <3>4. /\ device[d].lastSeen <= device'[d].lastSeen /\ at <= device'[d].lastSeen
          /\ device'[d].lastSeen \in {at, device[d].lastSeen}
          /\ device[d].lastSeen = Never => device'[d].lastSeen = at
      BY <1>3, <1>5, <1>7 DEF LaterOf, Never
    <3>5. device'[d].lastAt \in Nat /\ device'[d].lastSeen \in Nat
      BY <3>3, <3>4, <1>3, <1>7
    <3>6. \A n \in Rows(d)' : n.at <= device'[d].lastAt /\ telemetry'[n].receivedAt <= device'[d].lastSeen
      <4>1. \A n \in Rows(d) : n.at <= device'[d].lastAt /\ telemetry'[n].receivedAt <= device'[d].lastSeen
        BY <2>1, <2>3, <3>2, <3>3, <3>4, <3>5, <1>7 DEF TimesOf
      <4> QED
        BY <4>1, <3>1, <3>3, <3>4, <1>6
    <3>7. \E n \in Rows(d)' : device'[d].lastAt = n.at
      <4>1. CASE device'[d].lastAt = m.at
        BY <4>1, <3>1
      <4>2. CASE device'[d].lastAt # m.at
        <5>1. Rows(d) # {} /\ device'[d].lastAt = device[d].lastAt
          BY <4>2, <3>3, <2>1, <2>3 DEF TimesOf
        <5>2. PICK n \in Rows(d) : device[d].lastAt = n.at
          BY <5>1, <2>1, <2>3 DEF TimesOf
        <5> QED
          BY <5>1, <5>2, <3>1
      <4> QED
        BY <4>1, <4>2
    <3>8. \E n \in Rows(d)' : device'[d].lastSeen = telemetry'[n].receivedAt
      <4>1. CASE device'[d].lastSeen = at
        BY <4>1, <3>1, <1>6
      <4>2. CASE device'[d].lastSeen # at
        <5>1. Rows(d) # {} /\ device'[d].lastSeen = device[d].lastSeen
          BY <4>2, <3>4, <2>1, <2>3 DEF TimesOf
        <5>2. PICK n \in Rows(d) : device[d].lastSeen = telemetry[n].receivedAt
          BY <5>1, <2>1, <2>3 DEF TimesOf
        <5> QED
          BY <5>1, <5>2, <3>1, <3>2
      <4> QED
        BY <4>1, <4>2
    <3>9. Rows(d)' # {}
      BY <3>1
    <3> QED
      BY <2>3, <3>6, <3>7, <3>8, <3>9 DEF TimesOf
  <2> QED
    BY <2>2, <2>3
<1>9. (\A x \in Devices : TimesOf(x))'
  BY <1>8
<1> QED
  BY <1>9, TimesByDevice DEF DeviceTimesAreMaxima, TimesOf, Rows

-----------------------------------------------------------------------------
(* The theorems.                                                           *)

(* Every step preserves it.                                                *)
LEMMA StepTimes == IInv /\ TimesInv /\ [Next]_vars => TimesInv'
<1> SUFFICES ASSUME IInv, TimesInv, [Next]_vars
             PROVE  TimesInv'
  OBVIOUS
<1>1. RunsInv'
  BY StepRuns DEF IInv, TimesInv
<1>2. PointsInv' /\ DeviceTimesAreMaxima'
  <2>1. ASSUME NEW r \in Requests, NEW w \in HistoryDays, Commit(r, w)
        PROVE  PointsInv' /\ DeviceTimesAreMaxima'
    BY <2>1, CommitPointsInv, CommitTimesInv DEF TimesInv
  <2>2. CASE ~ \E r \in Requests, w \in HistoryDays : Commit(r, w)
    BY <2>2, OtherPointsInv, OtherTimesInv DEF TimesInv
  <2> QED
    BY <2>1, <2>2
<1> QED
  BY <1>1, <1>2 DEF TimesInv

(* The two invariants hold together.                                       *)
THEOREM TimesInvariance == Spec => [](IInv /\ TimesInv)
<1>1. Init => IInv /\ TimesInv
  BY InitIInv, TimesInit
<1>2. (IInv /\ TimesInv) /\ [Next]_vars => (IInv /\ TimesInv)'
  BY StepIInv, StepTimes
<1> QED
  BY <1>1, <1>2, PTL DEF Spec

(* A counter that runs is that of the level shown.                         *)
THEOREM CountersFollow == Spec => []CountsFollowLevel
<1>1. TimesInv => CountsFollowLevel
  BY DEF TimesInv, PointsInv, PointAt, CountsFollowLevel
<1> QED
  BY <1>1, TimesInvariance, PTL

(* The times of a device are the maxima over its samples, in whatever      *)
(* order these were committed.                                             *)
THEOREM TimesAreMaxima == Spec => []DeviceTimesAreMaxima
<1>1. TimesInv => DeviceTimesAreMaxima
  BY DEF TimesInv
<1> QED
  BY <1>1, TimesInvariance, PTL

(* No run of the evaluator, however late it finishes, marks a point        *)
(* DELAYED or OFFLINE before its sample is old enough by the limits in     *)
(* force, nor does a replacement of the profile make it so, but for one    *)
(* that widens them and that no run has seen yet.                          *)
THEOREM MarkedInTime == Spec => []NotMarkedEarly
<1>1. TimesInv => NotMarkedEarly
  BY DEF TimesInv, PointsInv, PointAt, MarkHolds, LimitsAt, NotMarkedEarly
<1> QED
  BY <1>1, TimesInvariance, PTL

(* By the same limits the pages do not show a point fresher than the       *)
(* evaluator has marked it.                                                *)
THEOREM PagesAgree == Spec => []NeverFresherThanMarked
<1>1. IInv /\ TimesInv => NeverFresherThanMarked
  <2> SUFFICES ASSUME IInv, TimesInv, NEW p \in Points, p \notin widened, Marked(p)
               PROVE  Freshness(FreshnessOf(LimitsAt(p), LatestReceivedAt(p), clock)) <= Freshness(state[p].connectivity)
    BY DEF NeverFresherThanMarked
  <2> DEFINE at == LatestReceivedAt(p)
             l == LimitsAt(p)
  <2>1. PointAt(p)
    BY DEF TimesInv, PointsInv
  <2>2. state[p].latest # NoMessage /\ at = telemetry[state[p].latest].receivedAt
    BY <2>1 DEF PointAt, LatestReceivedAt
  <2>3. at \in Nat /\ at # Never
    BY <2>2, LatestIsStored DEF Stored
  <2>4. /\ l.online \in Nat /\ l.offline \in Nat /\ l.online <= l.offline /\ clock \in Nat
    BY LimitsType DEF IInv, TypeOK
  <2>5. MarkHolds(state[p].connectivity, clock - at, l)
    BY <2>1, <2>2 DEF PointAt
  <2> HIDE DEF at, l
  <2>6. /\ state[p].connectivity = "DELAYED" => FreshnessOf(l, at, clock) \in {"UNKNOWN", "DELAYED", "OFFLINE"}
        /\ state[p].connectivity = "OFFLINE" => FreshnessOf(l, at, clock) \in {"UNKNOWN", "OFFLINE"}
    BY <2>3, <2>4, <2>5 DEF FreshnessOf, MarkHolds
  <2> QED
    BY <2>6 DEF Freshness, Marked, at, l
<1> QED
  BY <1>1, TimesInvariance, PTL

-----------------------------------------------------------------------------
(* A page between its two reads.                                           *)

\* What it has resolved is a device and the point where it was.
PageInv == page # NoPage => page.device \in Devices /\ page.point \in Points

(* A page keeps what it has resolved until it is answered.                 *)
LEMMA PageStep == TypeOK /\ PageInv /\ [PageNext]_<<vars, page>> => PageInv'
<1> SUFFICES ASSUME TypeOK, PageInv, [PageNext]_<<vars, page>>
             PROVE  PageInv'
  OBVIOUS
<1>1. ASSUME UNCHANGED page PROVE PageInv'
  BY <1>1 DEF PageInv
<1>2. ASSUME NEW d \in Devices, NEW h \in Devices \cup {NoDevice}, Resolve(h, d) PROVE PageInv'
  <2>1. device[d].point \in Points
    BY <1>2, EnabledIsRegistered DEF Resolve, IsContext, Deployed
  <2> QED
    BY <1>2, <2>1 DEF Resolve, PageInv
<1>3. ASSUME Answer PROVE PageInv'
  BY <1>3 DEF Answer, PageInv
<1> QED
  BY <1>1, <1>2, <1>3 DEF PageNext, Open

(* Pages only read: what holds of the backend holds behind them.           *)
LEMMA PagesOnlyRead == PageSpec => Spec
<1>1. PageInit => Init
  BY DEF PageInit
<1>2. [PageNext]_<<vars, page>> => [Next]_vars
  BY DEF PageNext
<1> QED
  BY <1>1, <1>2, PTL DEF PageSpec, Spec

(* Whatever level the overview shows is recent by the page's own limits    *)
(* and rests on readable sensors and on the newest sample of an enabled    *)
(* device at the point; and that device is the one the page names, unless  *)
(* this one left the point between the two reads.                          *)
THEOREM OverviewIsTrue == PageSpec => []ShownLevelIsItsOwn
<1>1. IInv /\ TimesInv /\ PageInv => ShownLevelIsItsOwn
  <2> SUFFICES ASSUME IInv, TimesInv, PageInv, page # NoPage, NEW now \in page.since..clock,
                      OverviewStatus(now) # "UNKNOWN"
               PROVE  LET p == page.point
                          m == state[p].latest
                      IN  /\ m \in Messages /\ Stored(m)
                          /\ Enabled(m.device) /\ device[m.device].point = p
                          /\ StillThere => m.device = page.device
                          /\ now - telemetry[m].receivedAt <= page.limits.online
                          /\ \A n \in Messages : Stored(n) /\ n.device = m.device => n.at <= m.at
                          /\ \A s \in {"tilt", "soil", "rain"} : SensorStatus(s, now) = "READABLE"
    BY DEF ShownLevelIsItsOwn
  <2>1. page.device \in Devices /\ page.point \in Points
    BY DEF PageInv
  <2> DEFINE p == page.point
             m == state[p].latest
             at == LatestReceivedAt(p)
  <2>2. FreshnessOf(page.limits, at, now) = "ONLINE" /\ state[p].risk # "UNKNOWN"
    BY DEF OverviewStatus
  <2>3. /\ state[p].device \in Devices /\ m \in Messages
        /\ Enabled(state[p].device) /\ device[state[p].device].point = p
        /\ m.device = state[p].device /\ m.at = device[m.device].lastAt
    BY <2>1, <2>2 DEF IInv, KnownLevelInv
  <2>4. StillThere => m.device = page.device
    BY <2>1, <2>3 DEF IInv, SingleOccupant, StillThere
  <2>5. m # NoMessage /\ at = telemetry[m].receivedAt
    BY <2>3, ConstantsAssumption DEF ConstantsAssumption, LatestReceivedAt
  <2>6. Stored(m) /\ at \in Nat
    BY <2>1, <2>5, LatestIsStored
  <2>7. now - at <= page.limits.online
    <3> HIDE DEF at
    <3> QED
      BY <2>2 DEF FreshnessOf
  <2>8. \A n \in Messages : Stored(n) /\ n.device = m.device => n.at <= m.at
    BY <2>3 DEF IInv, NothingNewer
  <2>9. ~SensorMissing(m.reading)
    BY <2>1, <2>2 DEF TimesInv, PointsInv, PointAt
  <2>10. \A s \in {"tilt", "soil", "rain"} : SensorStatus(s, now) = "READABLE"
    BY <2>2, <2>9 DEF SensorStatus, SensorMissing
  <2> QED
    BY <2>3, <2>4, <2>5, <2>6, <2>7, <2>8, <2>10
<1>2. PageSpec => [](IInv /\ TimesInv)
  BY PagesOnlyRead, TimesInvariance, PTL
<1>3. PageInit => PageInv
  BY DEF PageInit, PageInv
<1>4. IInv => TypeOK
  BY DEF IInv
<1> QED
  BY <1>1, <1>2, <1>3, <1>4, PageStep, PTL DEF PageSpec

-----------------------------------------------------------------------------
(* The run that owns the lock.                                             *)

\* It was the last to start, and what is marked was marked by its time.
OwnerInv ==
  \A e \in Evaluators : lock = e =>
    /\ evaluator[e].running
    /\ \A f \in Evaluators : evaluator[f].running => evaluator[f].time <= evaluator[e].time
    /\ \A p \in Points \ widened :
         MarkHolds(state[p].connectivity,
                   evaluator[e].time - telemetry[state[p].latest].receivedAt, LimitsAt(p))

\* The connectivity of an enabled device's point is known.
ConnectedInv ==
  \A p \in Points : state[p].device # NoDevice =>
    /\ device[state[p].device].status # "ABSENT"
    /\ state[p].connectivity = "UNKNOWN" => device[state[p].device].status = "DISABLED"

(* A device is never forgotten, and never enabled again.                   *)
StatusGoesOn ==
  \A d \in Devices :
    /\ device[d].status # "ABSENT" => device'[d].status # "ABSENT"
    /\ device[d].status = "DISABLED" => device'[d].status = "DISABLED"

\* No device is deleted, and none that was disabled is enabled again.
LEMMA StatusSteps ==
  ASSUME IInv, [Next]_vars
  PROVE  StatusGoesOn
<1> USE DEF StatusGoesOn
<1> DEFINE Goal == \A d \in Devices :
             /\ device[d].status # "ABSENT" => device'[d].status # "ABSENT"
             /\ device[d].status = "DISABLED" => device'[d].status = "DISABLED"
<1>0. TypeOK /\ OpenIsProtected
  BY DEF IInv
<1>1. ASSUME UNCHANGED device PROVE Goal
  BY <1>1
<1>2. ASSUME NEW d \in Devices, NEW p \in Points, RegisterDevice(d, p) PROVE Goal
  BY <1>2, <1>0 DEF RegisterDevice, TypeOK, Unregistered
<1>3. ASSUME NEW d \in Devices, NEW row, device' = [device EXCEPT ![d] = row],
             row.status = device[d].status \/ (Enabled(d) /\ row.status = "DISABLED")
      PROVE  Goal
  BY <1>3, <1>0 DEF TypeOK, Enabled
<1>4. ASSUME NEW d \in Devices, NEW p \in Points, MoveDevice(d, p) PROVE Goal
  <2>1. device[d] \in RegisteredRow
    BY <1>4, <1>0 DEF MoveDevice, TypeOK, DeviceRow, RegisteredRow
  <2>2. device' = [device EXCEPT ![d] = [device[d] EXCEPT !.point = p]]
    BY <1>4 DEF MoveDevice
  <2>3. [device[d] EXCEPT !.point = p].status = device[d].status
    BY <2>1 DEF RegisteredRow
  <2> QED
    BY <1>3, <2>2, <2>3
<1>5. ASSUME NEW d \in Devices, RotateCredential(d) PROVE Goal
  <2>1. device[d] \in RegisteredRow
    BY <1>5, <1>0, EnabledIsRegistered DEF RotateCredential
  <2>2. device' = [device EXCEPT ![d] = [device[d] EXCEPT !.credential = device[d].credential + 1]]
    BY <1>5 DEF RotateCredential
  <2>3. [device[d] EXCEPT !.credential = device[d].credential + 1].status = device[d].status
    BY <2>1 DEF RegisteredRow
  <2> QED
    BY <1>3, <2>2, <2>3
<1>6. ASSUME NEW d \in Devices, DisableDevice(d) PROVE Goal
  <2>1. device[d] \in RegisteredRow
    BY <1>6, <1>0, EnabledIsRegistered DEF DisableDevice
  <2>2. device' = [device EXCEPT ![d] = [device[d] EXCEPT !.status = "DISABLED"]] /\ Enabled(d)
    BY <1>6 DEF DisableDevice
  <2>3. [device[d] EXCEPT !.status = "DISABLED"].status = "DISABLED"
    BY <2>1 DEF RegisteredRow
  <2> QED
    BY <1>3, <2>2, <2>3
<1>7. ASSUME NEW r \in Requests, NEW w \in HistoryDays, Commit(r, w) PROVE Goal
  BY <1>7, <1>0, CommitEffect
<1>8. ASSUME Ingestion PROVE Goal
  BY <1>8, <1>1, <1>7 DEF Ingestion, Receive, Reject, Begin
<1>9. ASSUME Evaluation PROVE Goal
  BY <1>9, <1>1 DEF Evaluation, StartEvaluation, EvaluateCandidate, FinishEvaluation, FailEvaluation, ExpireLock
<1>10. ASSUME Administration PROVE Goal
  BY <1>10, <1>1, <1>2, <1>4, <1>5, <1>6
     DEF Administration, DeactivatePoint, ReactivatePoint, UpdateProfile, ReplaceProfile
<1>11. ASSUME Tick \/ Restart \/ UNCHANGED vars PROVE Goal
  BY <1>11, <1>1 DEF Tick, Restart, vars
<1> QED
  BY <1>8, <1>9, <1>10, <1>11 DEF Next

(* What a commit makes of the rows of the points.                          *)
LEMMA CommitPoints ==
  ASSUME IInv, NEW r \in Requests, NEW w \in HistoryDays, Commit(r, w), NEW p \in Points
  PROVE  \/ /\ state'[p] = state[p]
            /\ state[p].latest # NoMessage => telemetry'[state[p].latest] = telemetry[state[p].latest]
         \/ /\ state'[p].connectivity = "ONLINE"
            /\ state'[p].device \in Devices /\ device'[state'[p].device].status = "ENABLED"
<1> DEFINE m == request[r].msg
           q == device[m.device].point
           risk == Classify(Enabled(m.device), ProfileOf(request[r].version), m.reading, w)
<1>1. /\ TypeOK /\ OpenIsProtected /\ request[r].stage = "open"
  BY DEF IInv, Commit
<1>2. /\ m \in Messages /\ m.device \in Devices /\ ~Stored(m) /\ Enabled(m.device)
  BY <1>1, OpenRequest
<1>3. /\ \A n \in Messages : n # m => telemetry'[n] = telemetry[n]
      /\ device'[m.device].status = "ENABLED"
  BY <1>1, <1>2, CommitEffect DEF Enabled
<1>4. CASE state'[p] = state[p]
  BY <1>2, <1>3, <1>4, LatestIsStored
<1>5. CASE state'[p] # state[p]
  <2>1. p = q /\ state'[p] = NextState(p, m, request[r].version, request[r].counts, risk)
    BY <1>1, <1>5 DEF Commit, TypeOK
  <2>2. state'[p].connectivity = "ONLINE" /\ state'[p].device = m.device
    <3> HIDE DEF m, q, risk
    <3> QED
      BY <2>1 DEF NextState
  <2> QED
    BY <1>2, <1>3, <2>2
<1> QED
  BY <1>4, <1>5

(* Connectivity is forgotten only with the device or when it is disabled.  *)
LEMMA ConnectedStep == IInv /\ ConnectedInv /\ [Next]_vars => ConnectedInv'
<1> SUFFICES ASSUME IInv, ConnectedInv, [Next]_vars, NEW p \in Points, state'[p].device # NoDevice
             PROVE  /\ device'[state'[p].device].status # "ABSENT"
                    /\ state'[p].connectivity = "UNKNOWN" => device'[state'[p].device].status = "DISABLED"
  BY DEF ConnectedInv
<1>0. StatusGoesOn
  BY StatusSteps
<1>1. /\ TypeOK /\ TypeOK'
  BY StepIInv DEF IInv
<1>2. state'[p].device \in Devices
  BY <1>1 DEF TypeOK, StateRow
<1>3. CASE state'[p].device = state[p].device /\ (state'[p].connectivity = "UNKNOWN" => state[p].connectivity = "UNKNOWN")
  <2>1. PICK d \in Devices : d = state'[p].device /\ d = state[p].device
    BY <1>2, <1>3
  <2>2. state[p].device # NoDevice
    BY <2>1
  <2>3. device[d].status # "ABSENT" /\ (state[p].connectivity = "UNKNOWN" => device[d].status = "DISABLED")
    BY <2>1, <2>2 DEF ConnectedInv
  <2>4. device'[d].status # "ABSENT" /\ (device[d].status = "DISABLED" => device'[d].status = "DISABLED")
    BY <2>3, <1>0 DEF StatusGoesOn
  <2>5. device'[d] = device'[state'[p].device]
    BY <2>1
  <2>6. state'[p].connectivity = "UNKNOWN" => device'[d].status = "DISABLED"
    BY <2>3, <2>4, <1>3
  <2> QED
    BY <2>3, <2>4, <2>5, <2>6
<1>4. ASSUME NEW r \in Requests, NEW w \in HistoryDays, Commit(r, w)
      PROVE  /\ device'[state'[p].device].status # "ABSENT"
             /\ state'[p].connectivity = "UNKNOWN" => device'[state'[p].device].status = "DISABLED"
  <2>1. CASE state'[p] = state[p]
    BY <1>3, <2>1
  <2>2. CASE state'[p].connectivity = "ONLINE" /\ device'[state'[p].device].status = "ENABLED"
    BY <2>2
  <2> QED
    BY <1>4, <2>1, <2>2, CommitPoints
<1>5. CASE ~ \E r \in Requests, w \in HistoryDays : Commit(r, w)
  <2>1. CASE PointKept(p)
    BY <1>3, <2>1 DEF PointKept
  <2>2. CASE PointWithdrawn(p)
    BY <2>2 DEF PointWithdrawn
  <2>3. CASE PointJudged(p)
    <3>1. state'[p].device = state[p].device /\ state'[p].connectivity # "UNKNOWN"
      BY <2>3, EvaluateConnectivityType DEF PointJudged, TargetConnectivity
    <3> QED
      BY <1>3, <3>1
  <2> QED
    BY <1>5, <2>1, <2>2, <2>3, OtherPoints
<1> QED
  BY <1>4, <1>5

(* What a step leaves marked was marked by the time of the lock's owner.   *)
LEMMA OwnerPoints ==
  ASSUME IInv, TimesInv, OwnerInv, [Next]_vars, NEW e \in Evaluators, lock = e, NEW p \in Points,
         p \notin widened'
  PROVE  MarkHolds(state'[p].connectivity,
                   evaluator[e].time - telemetry'[state'[p].latest].receivedAt, LimitsAt(p)')
<1> DEFINE Aged == MarkHolds(state'[p].connectivity,
                             evaluator[e].time - telemetry'[state'[p].latest].receivedAt, LimitsAt(p)')
<1>0. /\ TypeOK /\ TypeOK' /\ \A f \in Evaluators : evaluator[f].time \in Nat
  BY StepIInv DEF IInv, TypeOK, EvaluatorRow
<1>1. /\ LimitsAt(p).online \in Nat /\ LimitsAt(p).offline \in Nat
      /\ LimitsAt(p).online <= LimitsAt(p).offline
      /\ LimitsAt(p)'.online \in Nat /\ LimitsAt(p)'.offline \in Nat
  <2>1. LimitsAt(p)' \in Limits \cup {NoLimits}
    BY <1>0, ConstantsAssumption DEF ConstantsAssumption, TypeOK, LimitsAt
  <2> QED
    BY <1>0, <2>1, LimitsType, LimitsOrdered
<1>2. Marked(p) => state[p].latest # NoMessage
  BY DEF TimesInv, PointsInv, PointAt
<1>3. ASSUME state'[p].latest = state[p].latest, state'[p].connectivity = state[p].connectivity,
             state[p].latest # NoMessage =>
               telemetry'[state[p].latest].receivedAt = telemetry[state[p].latest].receivedAt,
             NoWider(p)
      PROVE  Aged
  <2>1. CASE ~Marked(p)
    BY <1>3, <2>1 DEF Marked, MarkHolds
  <2>2. CASE Marked(p)
    <3> DEFINE age == evaluator[e].time - telemetry[state[p].latest].receivedAt
    <3>1. /\ state[p].latest # NoMessage /\ p \notin widened
          /\ LimitsAt(p)'.online <= LimitsAt(p).online /\ LimitsAt(p)'.offline <= LimitsAt(p).offline
      BY <1>2, <1>3, <2>2 DEF NoWider
    <3>2. age \in Int /\ evaluator[e].time - telemetry'[state'[p].latest].receivedAt = age
      BY <1>0, <1>3, <3>1, LatestIsStored
    <3>3. MarkHolds(state[p].connectivity, age, LimitsAt(p))
      BY <3>1 DEF OwnerInv
    <3> HIDE DEF age
    <3>4. age <= age
      BY <3>2
    <3> QED
      BY <1>1, <1>3, <3>1, <3>2, <3>3, <3>4, MarkHoldsOn
  <2> QED
    BY <2>1, <2>2
<1>4. ASSUME NEW r \in Requests, NEW w \in HistoryDays, Commit(r, w) PROVE Aged
  <2>1. CASE /\ state'[p] = state[p]
             /\ state[p].latest # NoMessage => telemetry'[state[p].latest] = telemetry[state[p].latest]
    <3>1. NoWider(p)
      BY <1>0, <1>4, LimitsKept DEF Commit, adminVars
    <3> QED
      BY <1>3, <2>1, <3>1
  <2>2. CASE state'[p].connectivity = "ONLINE"
    BY <2>2 DEF MarkHolds
  <2> QED
    BY <1>4, <2>1, <2>2, CommitPoints
<1>5. ASSUME ~ \E r \in Requests, w \in HistoryDays : Commit(r, w) PROVE Aged
  <2>1. state[p].latest # NoMessage =>
          /\ telemetry[state[p].latest].receivedAt \in Nat
          /\ telemetry'[state[p].latest].receivedAt = telemetry[state[p].latest].receivedAt
    BY <1>5, LatestIsStored, OtherSteps DEF LevelsOnlyGo
  <2>2. CASE PointKept(p)
    BY <1>3, <2>1, <2>2 DEF PointKept
  <2>3. CASE PointWithdrawn(p)
    BY <2>3 DEF PointWithdrawn, MarkHolds
  <2>4. CASE PointJudged(p)
    <3>1. PICK f \in Evaluators : /\ evaluator[f].running
                                  /\ state'[p].connectivity = TargetConnectivity(f, p)
      BY <2>4 DEF PointJudged
    <3> DEFINE at == telemetry[state[p].latest].receivedAt
               time == evaluator[f].time
    <3>2. at \in Nat /\ time \in Nat /\ time <= evaluator[e].time
      BY <1>0, <2>1, <2>4, <3>1 DEF OwnerInv, PointJudged
    <3>3. telemetry'[state'[p].latest].receivedAt = at /\ LimitsAt(p)' = LimitsAt(p)
      BY <2>1, <2>4 DEF PointJudged
    <3>4. state'[p].connectivity = EvaluateConnectivity(at, time, LimitsAt(p).online, LimitsAt(p).offline)
      BY <3>1 DEF TargetConnectivity, LimitsAt
    <3> HIDE DEF at, time
    <3>5. MarkHolds(state'[p].connectivity, time - at, LimitsAt(p))
      BY <1>1, <3>2, <3>4, TargetHolds
    <3>6. time - at \in Int /\ evaluator[e].time - at \in Int /\ time - at <= evaluator[e].time - at
      BY <1>0, <3>2
    <3> QED
      BY <1>1, <3>3, <3>5, <3>6, MarkHoldsOn
  <2> QED
    BY <1>5, <2>2, <2>3, <2>4, OtherPoints
<1> QED
  BY <1>4, <1>5

(* A run that takes the lock starts last, with what is marked before it.   *)
LEMMA OwnerStep == IInv /\ TimesInv /\ OwnerInv /\ [Next]_vars => OwnerInv'
<1> SUFFICES ASSUME IInv, TimesInv, OwnerInv, [Next]_vars, NEW e \in Evaluators, lock' = e
             PROVE  /\ evaluator'[e].running
                    /\ \A f \in Evaluators : evaluator'[f].running => evaluator'[f].time <= evaluator'[e].time
                    /\ \A p \in Points \ widened' :
                         MarkHolds(state'[p].connectivity,
                                   evaluator'[e].time - telemetry'[state'[p].latest].receivedAt, LimitsAt(p)')
  BY DEF OwnerInv
<1> DEFINE Goal == /\ evaluator'[e].running
                   /\ \A f \in Evaluators : evaluator'[f].running => evaluator'[f].time <= evaluator'[e].time
                   /\ \A p \in Points \ widened' :
                        MarkHolds(state'[p].connectivity,
                                  evaluator'[e].time - telemetry'[state'[p].latest].receivedAt, LimitsAt(p)')
<1>0. /\ TypeOK /\ RunsInv /\ PointsInv /\ e # NoEvaluator
  BY ConstantsAssumption DEF IInv, TimesInv, ConstantsAssumption
<1>1. ASSUME lock = e, evaluator'[e] = evaluator[e],
             \A f \in Evaluators : evaluator'[f].running => evaluator[f].running /\ evaluator'[f].time = evaluator[f].time
      PROVE  Goal
  BY <1>1, OwnerPoints DEF OwnerInv
<1>2. ASSUME NEW f \in Evaluators, StartEvaluation(f) PROVE Goal
  <2>1. /\ f = e /\ UNCHANGED <<state, telemetry, limits, widened>>
        /\ evaluator' = [evaluator EXCEPT ![e] = [running |-> TRUE, time |-> clock, todo |-> Candidates]]
    BY <1>2 DEF StartEvaluation, rowVars, adminVars, limitVars
  <2>2. evaluator'[e].running /\ evaluator'[e].time = clock
    BY <2>1, <1>0 DEF TypeOK
  <2>3. \A g \in Evaluators : g # e => evaluator'[g] = evaluator[g]
    BY <2>1, <1>0 DEF TypeOK
  <2>4. clock <= clock
    BY <1>0 DEF TypeOK
  <2>5. \A g \in Evaluators : evaluator'[g].running => evaluator'[g].time <= clock
    BY <2>2, <2>3, <2>4, <1>0 DEF RunsInv
  <2> QED
    BY <2>1, <2>2, <2>5, <1>0 DEF PointsInv, PointAt, LimitsAt
<1>3. ASSUME NEW f \in Evaluators, FinishEvaluation(f) \/ FailEvaluation(f) PROVE Goal
  <2>1. lock = e /\ f # e /\ evaluator' = [evaluator EXCEPT ![f] = NotRunning]
    BY <1>3, <1>0 DEF FinishEvaluation, FailEvaluation, Release
  <2>2. \A g \in Evaluators : evaluator'[g] = IF g = f THEN NotRunning ELSE evaluator[g]
    BY <2>1, <1>0 DEF TypeOK
  <2>3. \A g \in Evaluators : evaluator'[g].running => evaluator'[g] = evaluator[g]
    BY <2>2 DEF NotRunning
  <2> QED
    BY <2>1, <2>2, <2>3, <1>1
<1>4. ASSUME NEW f \in Evaluators, NEW p \in Points, NEW d \in Devices, EvaluateCandidate(f, p, d) PROVE Goal
  <2>1. lock = e /\ evaluator' = [evaluator EXCEPT ![f] = [evaluator[f] EXCEPT !.todo = evaluator[f].todo \ {<<p, d>>}]]
    BY <1>4 DEF EvaluateCandidate
  <2>2. \A g \in Evaluators : evaluator'[g].running = evaluator[g].running /\ evaluator'[g].time = evaluator[g].time
    BY <2>1, <1>0 DEF TypeOK, EvaluatorRow
  <2> QED
    BY <2>1, <2>2, OwnerPoints DEF OwnerInv
<1>5. ASSUME UNCHANGED <<lock, evaluator>> PROVE Goal
  BY <1>1, <1>5
<1>6. ASSUME ExpireLock \/ Restart PROVE Goal
  BY <1>6, <1>0 DEF ExpireLock, Restart
<1>7. ASSUME Ingestion \/ Administration \/ Tick \/ UNCHANGED vars PROVE Goal
  BY <1>7, <1>5 DEF Ingestion, Receive, Reject, Begin, Commit, Administration, RegisterDevice, MoveDevice,
     RotateCredential, DisableDevice, DeactivatePoint, ReactivatePoint, UpdateProfile, ReplaceProfile, Tick,
     vars, procVars
<1> QED
  BY <1>2, <1>3, <1>4, <1>6, <1>7 DEF Next, Evaluation

(* A run that still owns the lock never improves a point's connectivity,   *)
(* whatever slower runs have written meanwhile.                            *)
THEOREM OwnerOnlyDecays == Spec => ConnectivityOnlyDecays
<1> DEFINE Inv == IInv /\ TimesInv /\ OwnerInv /\ ConnectedInv
           Decays == \A e \in Evaluators, p \in Points :
             lock = e /\ p \notin widened /\ evaluator'[e].todo # evaluator[e].todo
             => Freshness(state'[p].connectivity) <= Freshness(state[p].connectivity)
<1>1. Init => Inv
  <2> SUFFICES ASSUME Init PROVE OwnerInv /\ ConnectedInv
    BY InitIInv, TimesInit
  <2>1. OwnerInv
    BY ConstantsAssumption DEF Init, OwnerInv, ConstantsAssumption
  <2>2. ConnectedInv
    BY DEF Init, ConnectedInv, NoState
  <2> QED
    BY <2>1, <2>2
<1>2. Inv /\ [Next]_vars => Inv'
  BY StepIInv, StepTimes, OwnerStep, ConnectedStep
<1>3. Inv /\ [Next]_vars => [Decays]_vars
  <2> SUFFICES ASSUME Inv, [Next]_vars, NEW e \in Evaluators, NEW p \in Points,
                      lock = e, p \notin widened, evaluator'[e].todo # evaluator[e].todo
               PROVE  Freshness(state'[p].connectivity) <= Freshness(state[p].connectivity)
    OBVIOUS
  <2> DEFINE Goal == Freshness(state'[p].connectivity) <= Freshness(state[p].connectivity)
  <2>0. TypeOK /\ state[p] \in StateRow
    BY DEF IInv, TypeOK
  <2>1. ASSUME state'[p].connectivity = state[p].connectivity PROVE Goal
    BY <2>1 DEF Freshness
  <2>2. ASSUME NEW f \in Evaluators, NEW q \in Points, NEW d \in Devices, EvaluateCandidate(f, q, d)
        PROVE  Goal
    <3> DEFINE at == telemetry[state[p].latest].receivedAt
               time == evaluator[e].time
               l == LimitsAt(p)
    <3>1. f = e
      BY <2>2, <2>0 DEF EvaluateCandidate, TypeOK
    <3>2. CASE state'[p] = state[p]
      BY <3>2, <2>1
    <3>3. CASE state'[p] # state[p]
      <4>1. q = p /\ StillCandidate(p, d)
        BY <2>2, <3>3, <2>0 DEF EvaluateCandidate, TypeOK
      <4>2. state'[p] \in {[state[p] EXCEPT !.connectivity = TargetConnectivity(e, p)],
                            Withdrawn(state[p], TargetConnectivity(e, p))}
        BY <2>2, <3>1, <3>3, <4>1, <2>0 DEF EvaluateCandidate, TypeOK
      <4>3. state'[p].connectivity = TargetConnectivity(e, p)
        BY <4>2, <2>0 DEF Withdrawn, StateRow
      <4>4. d # NoDevice /\ state[p].device = d /\ Enabled(d) /\ state[p].latest # NoMessage
        BY <4>1, ConstantsAssumption DEF StillCandidate, ConstantsAssumption
      <4>5. state[p].connectivity \in {"ONLINE", "DELAYED", "OFFLINE"}
        BY <4>4, <2>0 DEF ConnectedInv, Enabled, StateRow, Connectivity
      <4>6. /\ at \in Nat /\ time \in Nat
            /\ l.online \in Nat /\ l.offline \in Nat /\ l.online <= l.offline
        BY <4>4, <2>0, LatestIsStored, LimitsType DEF TypeOK, EvaluatorRow
      <4>7. MarkHolds(state[p].connectivity, time - at, l)
        BY DEF OwnerInv
      <4>8. state'[p].connectivity = EvaluateConnectivity(at, time, l.online, l.offline)
        BY <4>3 DEF TargetConnectivity, LimitsAt
      <4> HIDE DEF at, time, l
      <4>9. /\ state[p].connectivity = "DELAYED" => state'[p].connectivity \in {"DELAYED", "OFFLINE"}
            /\ state[p].connectivity = "OFFLINE" => state'[p].connectivity = "OFFLINE"
            /\ state'[p].connectivity \in {"ONLINE", "DELAYED", "OFFLINE"}
        BY <4>6, <4>7, <4>8 DEF EvaluateConnectivity, MarkHolds
      <4> QED
        BY <4>5, <4>9 DEF Freshness
    <3> QED
      BY <3>2, <3>3
  <2>3. ASSUME UNCHANGED state \/ UNCHANGED evaluator PROVE Goal
    BY <2>1, <2>3
  <2> QED
    BY <2>2, <2>3 DEF Next, Ingestion, Receive, Reject, Begin, Commit, Evaluation, StartEvaluation,
       FinishEvaluation, FailEvaluation, ExpireLock, Administration, RegisterDevice, MoveDevice,
       RotateCredential, DisableDevice, DeactivatePoint, ReactivatePoint, UpdateProfile, ReplaceProfile,
       Tick, Restart, vars, rowVars, procVars
<1> HIDE DEF Inv
<1> QED
  BY <1>1, <1>2, <1>3, PTL DEF Spec, ConnectivityOnlyDecays
=============================================================================
