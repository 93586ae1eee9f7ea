------------------------ MODULE MonitoringStateProofs ------------------------
(* Proofs of the safety properties of MonitoringState, for every value of  *)
(* its constants.                                                          *)
EXTENDS MonitoringState, TLAPS

(* A sample's level is one of the five levels, whatever its inputs.        *)
LEMMA ClassifyType ==
  ASSUME NEW enabled, NEW profile, NEW r, NEW wetDays
  PROVE  Classify(enabled, profile, r, wetDays) \in Levels
BY DEF Classify, LevelOf, Levels

(* Without a profile a sample has no level.                                *)
LEMMA ClassifyWithoutProfile ==
  ASSUME NEW enabled, NEW r, NEW wetDays
  PROVE  Classify(enabled, Missing, r, wetDays) = "UNKNOWN"
BY DEF Classify

(* Counters stay counters.                                                 *)
LEMMA NextCountsType ==
  ASSUME NEW sameContext, NEW counts \in CountsRow, NEW risk, NEW firmwareRisk
  PROVE  NextCounts(sameContext, counts, risk, firmwareRisk) \in CountsRow
<1>1. NoCounts \in CountsRow
  BY DEF NoCounts, CountsRow
<1> DEFINE base == IF sameContext THEN counts ELSE NoCounts
<1>2. base \in CountsRow
  BY <1>1
<1>3. /\ base.watch \in Nat /\ base.danger \in Nat /\ base.mismatch \in Nat
  BY <1>2 DEF CountsRow
<1> HIDE DEF base
<1>4. [watch    |-> IF risk = "WATCH" THEN base.watch + 1 ELSE 0,
       danger   |-> IF risk = "DANGER" THEN base.danger + 1 ELSE 0,
       mismatch |-> IF Mismatch(firmwareRisk, risk) THEN base.mismatch + 1 ELSE 0]
      \in CountsRow
  BY <1>3 DEF CountsRow
<1>5. QED
  BY <1>4 DEF NextCounts, base

(* Freshness has three outcomes, none of them UNKNOWN.                      *)
LEMMA EvaluateConnectivityType ==
  ASSUME NEW a, NEW b, NEW c, NEW d
  PROVE  EvaluateConnectivity(a, b, c, d) \in {"ONLINE", "DELAYED", "OFFLINE"}
BY DEF EvaluateConnectivity

(* A withdrawn row has lost its level and kept what it refers to.          *)
LEMMA WithdrawnRow ==
  ASSUME NEW row \in StateRow, NEW c \in Connectivity
  PROVE  /\ Withdrawn(row, c) \in StateRow
         /\ Withdrawn(row, c).risk = "UNKNOWN"
         /\ Withdrawn(row, c).device = row.device
         /\ Withdrawn(row, c).latest = row.latest
         /\ Withdrawn(row, c).version = row.version
BY DEF Withdrawn, StateRow, Levels, CountsRow, NoCounts

(* An announcement names two levels.                                       *)
LEMMA AnnounceType ==
  ASSUME NEW p \in Points, NEW from \in Levels, NEW to \in Levels,
         announced \in [Points -> [from : Levels, to : Levels]], Announce(p, from, to)
  PROVE  announced' \in [Points -> [from : Levels, to : Levels]]
BY DEF Announce

-----------------------------------------------------------------------------
(* Type correctness.                                                       *)

LEMMA InitTypeOK == Init => TypeOK
BY ConstantsAssumption
   DEF ConstantsAssumption, Init, TypeOK, DeviceRow, TelemetryRow, AssessmentRow, CountsRow,
       StateRow, RequestRow, EvaluatorRow, NoTelemetry, NoAssessment, NoState, NotAnnounced,
       NotRunning, NoCounts, Levels, Connectivity, Never, Versions, NoLimits

LEMMA StepTypeOK == TypeOK /\ OpenIsProtected /\ [Next]_vars => TypeOK'
<1> SUFFICES ASSUME TypeOK, OpenIsProtected, [Next]_vars PROVE TypeOK'
  OBVIOUS
<1> USE DEF adminVars, limitVars, rowVars, procVars
<1>1. ASSUME NEW r \in Requests, NEW m \in Messages, Receive(r, m) PROVE TypeOK'
  <2>1. device[m.device] \in DeviceRow /\ device[m.device].credential \in Nat
    BY <1>1, ConstantsAssumption DEF ConstantsAssumption, TypeOK, DeviceRow, Unregistered
  <2>2. [stage |-> "received", msg |-> m, credential |-> device[m.device].credential,
         receivedAt |-> clock, version |-> 0, counts |-> NoCounts] \in RequestRow
    BY <2>1 DEF TypeOK, RequestRow, Never, CountsRow, NoCounts
  <2>3. request' \in [Requests -> RequestRow]
    BY <1>1, <2>2 DEF Receive, TypeOK
  <2>4. QED
    BY <1>1, <2>3 DEF Receive, TypeOK
<1>2. ASSUME NEW r \in Requests, Reject(r) PROVE TypeOK'
  BY <1>2 DEF Reject, TypeOK, RequestRow
<1>3. ASSUME NEW r \in Requests, Begin(r) PROVE TypeOK'
  <2> DEFINE p == device[request[r].msg.device].point
             v == active[SiteOf[p]]
  <2>1. request[r].stage = "received" /\ Enabled(request[r].msg.device)
    BY <1>3 DEF Begin, PrincipalIsCurrent
  <2>2. request[r] \in [stage : {"received", "open"}, msg : Messages, credential : Nat,
                        receivedAt : Nat \ {Never}, version : Nat, counts : CountsRow]
    BY <2>1 DEF TypeOK, RequestRow, Idle
  <2>3. p \in Points
    BY <2>1, <2>2, ConstantsAssumption
       DEF ConstantsAssumption, TypeOK, DeviceRow, Unregistered, Enabled
  <2>4. v \in Nat /\ state[p].counts \in CountsRow
    BY <2>3, ConstantsAssumption DEF ConstantsAssumption, TypeOK, StateRow
  <2>5. [request[r] EXCEPT !.stage = "open", !.version = v, !.counts = state[p].counts]
          \in RequestRow
    BY <2>2, <2>4 DEF RequestRow
  <2>6. request' \in [Requests -> RequestRow]
    BY <1>3, <2>5 DEF Begin, TypeOK
  <2>7. QED
    BY <1>3, <2>6 DEF Begin, TypeOK
<1>4. ASSUME NEW r \in Requests, NEW wetDays \in HistoryDays, Commit(r, wetDays) PROVE TypeOK'
  <2> DEFINE m == request[r].msg
             p == device[m.device].point
             version == request[r].version
             risk == Classify(Enabled(m.device), ProfileOf(version), m.reading, wetDays)
             receivedAt == request[r].receivedAt
  <2>1. /\ m \in Messages /\ version \in Nat /\ receivedAt \in Nat
    BY <1>4 DEF Commit, TypeOK, RequestRow, Idle
  <2>2. /\ m.device \in Devices /\ m.at \in Nat
    BY <2>1, ConstantsAssumption DEF ConstantsAssumption
  <2>3. device[m.device] \in [status : {"ENABLED", "DISABLED"}, point : Points,
                              credential : Nat, lastAt : Nat, lastSeen : Nat]
    <3>1. Enabled(m.device)
      BY <1>4 DEF Commit, OpenIsProtected, PrincipalIsCurrent
    <3>2. QED
      BY <2>2, <3>1 DEF TypeOK, DeviceRow, Unregistered, Enabled
  <2>4. p \in Points /\ risk \in Levels
    BY <2>3, ClassifyType
  <2> HIDE DEF risk
  <2>5. telemetry' \in [Messages -> TelemetryRow]
    <3>1. [point |-> p, receivedAt |-> receivedAt] \in TelemetryRow
      BY <2>1, <2>4 DEF TelemetryRow
    <3>2. QED
      BY <3>1, <1>4 DEF Commit, TypeOK
  <2>6. assessment' \in [Messages -> AssessmentRow]
    <3>1. [version |-> version, point |-> p, risk |-> risk, current |-> IsLatest(m)]
            \in AssessmentRow
      BY <2>1, <2>4 DEF AssessmentRow, IsLatest
    <3>2. QED
      BY <3>1, <1>4 DEF Commit, TypeOK, risk
  <2>7. state' \in [Points -> StateRow]
    <3>1. request[r].counts \in CountsRow
      BY <1>4 DEF Commit, TypeOK, RequestRow, Idle
    <3>2. NextCounts(state[p].device = m.device /\ state[p].version = version,
                     request[r].counts, risk, m.firmware) \in CountsRow
      BY <3>1, NextCountsType
    <3>3. NextState(p, m, version, request[r].counts, risk) \in StateRow
      BY <3>2, <2>1, <2>2, <2>4 DEF NextState, StateRow, Connectivity
    <3>4. QED
      BY <3>3, <1>4 DEF Commit, TypeOK, risk
  <2>8. announced' \in [Points -> [from : Levels, to : Levels]]
    <3>1. CASE IsLatest(m)
      <4>1. state[p].risk \in Levels
        BY <2>4 DEF TypeOK, StateRow
      <4>2. Announce(p, state[p].risk, risk)
        BY <1>4, <3>1 DEF Commit, risk
      <4>3. QED
        BY <4>1, <4>2, <2>4, AnnounceType DEF TypeOK
    <3>2. CASE ~IsLatest(m)
      BY <3>2, <1>4 DEF Commit, TypeOK
    <3>3. QED
      BY <3>1, <3>2
  <2>9. device' \in [Devices -> DeviceRow]
    <3> DEFINE seen == LaterOf(receivedAt, device[m.device].lastSeen)
               at == IF IsLatest(m) THEN m.at ELSE device[m.device].lastAt
    <3>1. seen \in Nat /\ at \in Nat
      BY <2>1, <2>2, <2>3 DEF LaterOf
    <3> HIDE DEF seen, at
    <3>2. [device[m.device] EXCEPT !.lastSeen = seen, !.lastAt = at] \in DeviceRow
      BY <2>3, <3>1 DEF DeviceRow
    <3>3. device' = [device EXCEPT ![m.device] =
                       [device[m.device] EXCEPT !.lastSeen = seen, !.lastAt = at]]
      BY <1>4 DEF Commit, seen, at
    <3>4. QED
      BY <3>2, <3>3 DEF TypeOK
  <2>10. request' \in [Requests -> RequestRow]
    BY <1>4 DEF Commit, TypeOK, RequestRow
  <2>11. QED
    BY <1>4, <2>5, <2>6, <2>7, <2>8, <2>9, <2>10 DEF Commit, TypeOK
<1>5. ASSUME NEW e \in Evaluators, StartEvaluation(e) PROVE TypeOK'
  <2>1. Candidates \in SUBSET (Points \X Devices)
    BY DEF Candidates
  <2>2. [running |-> TRUE, time |-> clock, todo |-> Candidates] \in EvaluatorRow
    BY <2>1 DEF TypeOK, EvaluatorRow
  <2>3. QED
    BY <1>5, <2>2 DEF StartEvaluation, TypeOK
<1>6. ASSUME NEW e \in Evaluators, NEW p \in Points, NEW d \in Devices,
             EvaluateCandidate(e, p, d)
      PROVE  TypeOK'
  <2> DEFINE target == TargetConnectivity(e, p)
  <2>1. target \in Connectivity
    BY EvaluateConnectivityType DEF TargetConnectivity, Connectivity
  <2> HIDE DEF target
  <2>2. state[p] \in StateRow /\ state[p].risk \in Levels
    BY DEF TypeOK, StateRow
  <2>3. evaluator' \in [Evaluators -> EvaluatorRow]
    <3>1. evaluator[e].todo \ {<<p, d>>} \in SUBSET (Points \X Devices)
      BY DEF TypeOK, EvaluatorRow
    <3>2. [evaluator[e] EXCEPT !.todo = evaluator[e].todo \ {<<p, d>>}] \in EvaluatorRow
      BY <3>1 DEF TypeOK, EvaluatorRow
    <3>3. QED
      BY <3>2, <1>6 DEF EvaluateCandidate, TypeOK
  <2>4. state' \in [Points -> StateRow]
    <3>1. [state[p] EXCEPT !.connectivity = target] \in StateRow
      BY <2>1, <2>2 DEF StateRow
    <3>2. Withdrawn(state[p], target) \in StateRow
      BY <2>1, <2>2, WithdrawnRow
    <3>3. QED
      BY <3>1, <3>2, <1>6 DEF EvaluateCandidate, TypeOK, target
  <2>5. announced' \in [Points -> [from : Levels, to : Levels]]
    <3>1. "UNKNOWN" \in Levels
      BY DEF Levels
    <3>2. QED
      BY <3>1, <2>2, <1>6, AnnounceType DEF EvaluateCandidate, TypeOK
  <2>6. widened' \in SUBSET Points
    BY <1>6 DEF EvaluateCandidate, TypeOK
  <2>7. QED
    BY <1>6, <2>3, <2>4, <2>5, <2>6 DEF EvaluateCandidate, TypeOK
<1>7. ASSUME NEW e \in Evaluators, FinishEvaluation(e) \/ FailEvaluation(e) PROVE TypeOK'
  <2>1. NotRunning \in EvaluatorRow
    BY DEF NotRunning, EvaluatorRow, Never
  <2>2. evaluator' \in [Evaluators -> EvaluatorRow]
    BY <1>7, <2>1 DEF FinishEvaluation, FailEvaluation, TypeOK
  <2>3. lock' \in Evaluators \cup {NoEvaluator}
    BY <1>7 DEF FinishEvaluation, FailEvaluation, Release, TypeOK
  <2>4. QED
    BY <1>7, <2>2, <2>3 DEF FinishEvaluation, FailEvaluation, TypeOK
<1>8. ASSUME ExpireLock PROVE TypeOK'
  BY <1>8 DEF ExpireLock, TypeOK
<1>9. ASSUME NEW d \in Devices, NEW p \in Points, RegisterDevice(d, p) PROVE TypeOK'
  <2>1. [status |-> "ENABLED", point |-> p, credential |-> 1,
         lastAt |-> Never, lastSeen |-> Never] \in DeviceRow
    BY DEF DeviceRow, Never
  <2>2. QED
    BY <1>9, <2>1 DEF RegisterDevice, TypeOK
<1>10. ASSUME NEW d \in Devices, NEW p \in Points, MoveDevice(d, p) PROVE TypeOK'
  <2> DEFINE old == device[d].point
  <2>1. device[d] \in [status : {"ENABLED", "DISABLED"}, point : Points,
                       credential : Nat, lastAt : Nat, lastSeen : Nat]
    BY <1>10 DEF MoveDevice, TypeOK, DeviceRow
  <2>2. device' \in [Devices -> DeviceRow]
    <3>1. [device[d] EXCEPT !.point = p] \in DeviceRow
      BY <2>1 DEF DeviceRow
    <3>2. QED
      BY <3>1, <1>10 DEF MoveDevice, TypeOK
  <2>3. telemetry' \in [Messages -> TelemetryRow]
    <3>1. \A m \in Messages : [telemetry[m] EXCEPT !.point = p] \in TelemetryRow
      BY DEF TypeOK, TelemetryRow
    <3>2. QED
      BY <3>1, <1>10 DEF MoveDevice, TypeOK
  <2>4. state' \in [Points -> StateRow]
    <3>1. old \in Points /\ state[old] \in StateRow
      BY <2>1 DEF TypeOK
    <3>2. [Withdrawn(state[old], "UNKNOWN") EXCEPT !.device = NoDevice,
                                                     !.latest = NoMessage] \in StateRow
      <4>1. Withdrawn(state[old], "UNKNOWN") \in StateRow
        BY <3>1, WithdrawnRow DEF Connectivity
      <4>2. QED
        BY <4>1 DEF StateRow
    <3>3. QED
      BY <3>2, <1>10 DEF MoveDevice, TypeOK
  <2>5. QED
    BY <1>10, <2>2, <2>3, <2>4 DEF MoveDevice, TypeOK
<1>11. ASSUME NEW d \in Devices, RotateCredential(d) PROVE TypeOK'
  <2>1. device[d] \in [status : {"ENABLED", "DISABLED"}, point : Points,
                       credential : Nat, lastAt : Nat, lastSeen : Nat]
    BY <1>11 DEF RotateCredential, Enabled, TypeOK, DeviceRow, Unregistered
  <2>2. [device[d] EXCEPT !.credential = device[d].credential + 1] \in DeviceRow
    BY <2>1 DEF DeviceRow
  <2>3. QED
    BY <2>2, <1>11 DEF RotateCredential, TypeOK
<1>12. ASSUME NEW d \in Devices, DisableDevice(d) PROVE TypeOK'
  <2> DEFINE p == device[d].point
  <2>1. device[d] \in [status : {"ENABLED", "DISABLED"}, point : Points,
                       credential : Nat, lastAt : Nat, lastSeen : Nat]
    BY <1>12 DEF DisableDevice, Enabled, TypeOK, DeviceRow, Unregistered
  <2>2. [device[d] EXCEPT !.status = "DISABLED"] \in DeviceRow
    BY <2>1 DEF DeviceRow
  <2>3. state' \in [Points -> StateRow]
    <3>1. p \in Points /\ state[p] \in StateRow
      BY <2>1 DEF TypeOK
    <3>2. Withdrawn(state[p], "UNKNOWN") \in StateRow
      BY <3>1, WithdrawnRow DEF Connectivity
    <3>3. QED
      BY <3>2, <1>12 DEF DisableDevice, TypeOK
  <2>4. QED
    BY <2>2, <2>3, <1>12 DEF DisableDevice, TypeOK
<1>13. ASSUME NEW p \in Points, DeactivatePoint(p) \/ ReactivatePoint(p) PROVE TypeOK'
  BY <1>13 DEF DeactivatePoint, ReactivatePoint, TypeOK
<1>14. ASSUME NEW s \in Sites, UpdateProfile(s) PROVE TypeOK'
  BY <1>14 DEF UpdateProfile, TypeOK
<1>14a. ASSUME NEW s \in Sites, NEW l \in Limits, ReplaceProfile(s, l) PROVE TypeOK'
  <2>1. \A p \in Points : [state[p] EXCEPT !.counts = NoCounts] \in StateRow
    BY DEF TypeOK, StateRow, CountsRow, NoCounts
  <2>2. state' \in [Points -> StateRow]
    BY <1>14a, <2>1 DEF ReplaceProfile, TypeOK
  <2>3. active' \in [Sites -> Nat] /\ limits' \in [Sites -> Limits \cup {NoLimits}]
    BY <1>14a DEF ReplaceProfile, TypeOK
  <2>4. \A t \in Sites : limits'[t] = NoLimits <=> active'[t] = 0
    <3>1. l # NoLimits
      BY ConstantsAssumption DEF ConstantsAssumption, NoLimits
    <3>2. active[s] + 1 # 0
      BY DEF TypeOK
    <3>3. QED
      BY <3>1, <3>2, <1>14a DEF ReplaceProfile, TypeOK
  <2>5. widened' \in SUBSET Points
    BY <1>14a DEF ReplaceProfile, MarkedByNarrower, TypeOK
  <2>6. QED
    BY <1>14a, <2>2, <2>3, <2>4, <2>5 DEF ReplaceProfile, TypeOK
<1>15. ASSUME Tick PROVE TypeOK'
  BY <1>15 DEF Tick, TypeOK
<1>16. ASSUME Restart PROVE TypeOK'
  BY <1>16 DEF Restart, TypeOK, RequestRow, EvaluatorRow, NotRunning, Never
<1>17. CASE UNCHANGED vars
  BY <1>17 DEF vars, TypeOK
<1>18. QED
  BY <1>1, <1>2, <1>3, <1>4, <1>5, <1>6, <1>7, <1>8, <1>9, <1>10, <1>11, <1>12, <1>13, <1>14,
     <1>14a, <1>15, <1>16, <1>17 DEF Next, Ingestion, Evaluation, Administration

-----------------------------------------------------------------------------
(* What a step does to the rows.  Commit is the only step that stores a    *)
(* sample or gives a point a level; every other step leaves the rows or    *)
(* takes a level away.                                                     *)

RegisteredRow == [status : {"ENABLED", "DISABLED"}, point : Points, credential : Nat,
                  lastAt : Nat, lastSeen : Nat]

(* The rows of an enabled device are those of a registered one.            *)
LEMMA EnabledIsRegistered ==
  ASSUME TypeOK, NEW d \in Devices, Enabled(d)
  PROVE  device[d] \in RegisteredRow /\ device[d].point \in Points
<1>1. device[d] \in RegisteredRow
  BY DEF TypeOK, DeviceRow, Unregistered, Enabled, RegisteredRow
<1>2. QED
  BY <1>1 DEF RegisteredRow

(* An open transaction writes for a sample not stored yet, of an enabled   *)
(* device.                                                                 *)
LEMMA OpenRequest ==
  ASSUME TypeOK, OpenIsProtected, NEW r \in Requests, request[r].stage = "open"
  PROVE  LET m == request[r].msg
         IN  /\ m \in Messages /\ m.device \in Devices /\ m.at \in Nat \ {Never}
             /\ request[r].version \in Nat /\ request[r].receivedAt \in Nat \ {Never}
             /\ Enabled(m.device) /\ device[m.device] \in RegisteredRow
             /\ device[m.device].point \in Points
             /\ ~AlreadyUsed(m) /\ ~Stored(m)
<1> DEFINE m == request[r].msg
<1>1. request[r] \in [stage : {"received", "open"}, msg : Messages, credential : Nat,
                      receivedAt : Nat \ {Never}, version : Nat, counts : CountsRow]
  BY DEF TypeOK, RequestRow, Idle
<1>2. m \in Messages /\ request[r].version \in Nat /\ request[r].receivedAt \in Nat \ {Never}
  BY <1>1
<1>3. m.device \in Devices /\ m.at \in Nat \ {Never}
  BY <1>2, ConstantsAssumption DEF ConstantsAssumption
<1>4. Enabled(m.device) /\ ~AlreadyUsed(m)
  BY DEF OpenIsProtected, PrincipalIsCurrent
<1>5. ~Stored(m)
  BY <1>2, <1>4 DEF AlreadyUsed, SameMessageId
<1>6. QED
  BY <1>2, <1>3, <1>4, <1>5, EnabledIsRegistered

(* The effect of a commit on the rows, field by field.                     *)
LEMMA CommitEffect ==
  ASSUME TypeOK, OpenIsProtected, NEW r \in Requests, NEW wetDays \in HistoryDays,
         Commit(r, wetDays)
  PROVE  LET m == request[r].msg
             d == m.device
         IN  /\ \A x \in Devices : /\ device'[x].status = device[x].status
                                   /\ device'[x].point = device[x].point
                                   /\ device'[x].credential = device[x].credential
                                   /\ x # d => device'[x] = device[x]
             /\ device'[d].lastAt = IF IsLatest(m) THEN m.at ELSE device[d].lastAt
             /\ telemetry'[m].receivedAt # Never
             /\ \A n \in Messages : n # m => telemetry'[n] = telemetry[n]
<1> DEFINE m == request[r].msg
           d == m.device
           seen == LaterOf(request[r].receivedAt, device[d].lastSeen)
           at == IF IsLatest(m) THEN m.at ELSE device[d].lastAt
<1>1. request[r].stage = "open"
  BY DEF Commit
<1>2. /\ m \in Messages /\ d \in Devices /\ device[d] \in RegisteredRow
      /\ request[r].receivedAt \in Nat \ {Never}
  BY <1>1, OpenRequest
<1>3. device' = [device EXCEPT ![d] = [device[d] EXCEPT !.lastSeen = seen, !.lastAt = at]]
  BY DEF Commit
<1> HIDE DEF seen, at
<1>4. device'[d] = [device[d] EXCEPT !.lastSeen = seen, !.lastAt = at]
  BY <1>2, <1>3 DEF TypeOK
<1>5. /\ device'[d].status = device[d].status
      /\ device'[d].point = device[d].point
      /\ device'[d].credential = device[d].credential
      /\ device'[d].lastAt = at
  BY <1>2, <1>4 DEF RegisteredRow
<1>6. \A x \in Devices : x # d => device'[x] = device[x]
  BY <1>3 DEF TypeOK
<1>7. telemetry' = [telemetry EXCEPT ![m] = [point |-> device[d].point,
                                             receivedAt |-> request[r].receivedAt]]
  BY DEF Commit
<1>8. telemetry'[m].receivedAt # Never /\ \A n \in Messages : n # m => telemetry'[n] = telemetry[n]
  BY <1>2, <1>7 DEF TypeOK, Stored
<1>9. QED
  BY <1>5, <1>6, <1>8 DEF at

(* Every other step: no sample is stored, no level appears, and a level    *)
(* that stays does so with all that belongs to it.                         *)
LevelsOnlyGo ==
  /\ \A q \in Points :
       /\ state'[q].version = state[q].version
       /\ state'[q].latest # NoMessage => /\ state'[q].latest = state[q].latest
                                          /\ state'[q].device = state[q].device
       /\ state'[q].risk # "UNKNOWN" =>
            LET d == state[q].device
            IN  /\ state'[q].risk = state[q].risk
                /\ state'[q].connectivity = state[q].connectivity
                /\ state'[q].latest = state[q].latest /\ state'[q].device = d
                /\ announced'[q] = announced[q]
                /\ device'[d].status = device[d].status
                /\ device'[d].point = device[d].point
  /\ \A d \in Devices : /\ device'[d].lastAt = device[d].lastAt
                        /\ Locked(d) => device'[d] = device[d]
  /\ \A m \in Messages : telemetry'[m].receivedAt = telemetry[m].receivedAt
  /\ assessment' = assessment
  /\ \A s \in Sites : active'[s] >= active[s]

\* No step but the end of an ingestion gives a point a level.
LEMMA OtherSteps ==
  ASSUME IInv, [Next]_vars, ~ \E r \in Requests, w \in HistoryDays : Commit(r, w)
  PROVE  LevelsOnlyGo
<1> USE DEF adminVars, limitVars, rowVars, procVars
<1>0. TypeOK /\ OpenIsProtected /\ KnownLevelInv
  BY DEF IInv
<1>a. \A s \in Sites : active[s] \in Nat
  BY <1>0 DEF TypeOK
<1>1. CASE UNCHANGED <<device, active, rowVars>>
  BY <1>1, <1>a DEF LevelsOnlyGo
<1>2. ASSUME NEW e \in Evaluators, NEW p \in Points, NEW d \in Devices,
             EvaluateCandidate(e, p, d)
      PROVE  LevelsOnlyGo
  <2> DEFINE target == TargetConnectivity(e, p)
  <2>0. target \in Connectivity
    BY EvaluateConnectivityType DEF TargetConnectivity, Connectivity
  <2>1. UNCHANGED <<device, active, telemetry, assessment>>
    BY <1>2 DEF EvaluateCandidate
  <2>2. \A q \in Points : state[q] \in StateRow
    BY <1>0 DEF TypeOK
  <2>3. CASE UNCHANGED <<state, announced>>
    BY <2>1, <2>3, <1>a DEF LevelsOnlyGo
  <2>4. CASE /\ state[p].connectivity # target /\ target = "ONLINE"
             /\ state' = [state EXCEPT ![p] = [state[p] EXCEPT !.connectivity = target]]
             /\ UNCHANGED announced
    <3>1. state[p].risk = "UNKNOWN"
      BY <2>4, <1>0 DEF KnownLevelInv
    <3>2. \A q \in Points : q # p => state'[q] = state[q]
      BY <2>4, <1>0 DEF TypeOK
    <3>3. /\ state'[p].risk = "UNKNOWN" /\ state'[p].latest = state[p].latest
          /\ state'[p].device = state[p].device /\ state'[p].version = state[p].version
      BY <2>4, <2>2, <3>1, <1>0 DEF TypeOK, StateRow
    <3>4. QED
      BY <2>1, <2>4, <3>2, <3>3, <1>a DEF LevelsOnlyGo
  <2>5. CASE /\ state' = [state EXCEPT ![p] = Withdrawn(state[p], target)]
             /\ Announce(p, state[p].risk, "UNKNOWN")
    <3>1. \A q \in Points : q # p => state'[q] = state[q] /\ announced'[q] = announced[q]
      BY <2>5, <1>0 DEF TypeOK, Announce
    <3>2. /\ state'[p].risk = "UNKNOWN" /\ state'[p].latest = state[p].latest
          /\ state'[p].device = state[p].device /\ state'[p].version = state[p].version
      BY <2>5, <2>2, <1>0, <2>0, WithdrawnRow DEF TypeOK
    <3>3. QED
      BY <2>1, <3>1, <3>2, <1>a DEF LevelsOnlyGo
  <2>6. QED
    BY <1>2, <2>3, <2>4, <2>5 DEF EvaluateCandidate
<1>3. ASSUME NEW d \in Devices, NEW p \in Points, RegisterDevice(d, p) PROVE LevelsOnlyGo
  <2>1. UNCHANGED <<active, rowVars>> /\ device[d] = Unregistered /\ ~Enabled(d)
    BY <1>3 DEF RegisterDevice, Enabled, Unregistered
  <2>2. ~Locked(d)
    BY <2>1, <1>0 DEF OpenIsProtected, PrincipalIsCurrent, Locked
  <2>3. \A x \in Devices : x # d => device'[x] = device[x]
    BY <1>3, <1>0 DEF RegisterDevice, TypeOK
  <2>4. device'[d].lastAt = device[d].lastAt
    BY <1>3, <2>1, <1>0 DEF RegisterDevice, TypeOK, Unregistered
  <2>5. \A q \in Points : state[q].risk # "UNKNOWN" => state[q].device \in Devices \ {d}
    BY <2>1, <1>0 DEF KnownLevelInv
  <2>6. QED
    BY <2>1, <2>2, <2>3, <2>4, <2>5, <1>a DEF LevelsOnlyGo
<1>4. ASSUME NEW d \in Devices, NEW p \in Points, MoveDevice(d, p) PROVE LevelsOnlyGo
  <2> DEFINE old == device[d].point
  <2>1. UNCHANGED <<active, assessment, announced>> /\ ~Locked(d)
    BY <1>4 DEF MoveDevice
  <2>2. device[d] \in RegisteredRow /\ old \in Points
    BY <1>4, <1>0 DEF MoveDevice, TypeOK, DeviceRow, RegisteredRow
  <2>3. /\ \A x \in Devices : x # d => device'[x] = device[x]
        /\ device'[d].lastAt = device[d].lastAt
    BY <1>4, <2>2, <1>0 DEF MoveDevice, TypeOK, RegisteredRow
  <2>4. \A m \in Messages : telemetry'[m].receivedAt = telemetry[m].receivedAt
    BY <1>4, <1>0 DEF MoveDevice, TypeOK, TelemetryRow
  <2>5. \A q \in Points : q # old => state'[q] = state[q]
    BY <1>4, <1>0 DEF MoveDevice, TypeOK
  <2>6. CASE state[old].device = d
    <3>1. /\ state'[old].risk = "UNKNOWN" /\ state'[old].latest = NoMessage
          /\ state'[old].version = state[old].version
      <4>1. state'[old] = [Withdrawn(state[old], "UNKNOWN") EXCEPT !.device = NoDevice,
                                                                  !.latest = NoMessage]
        BY <2>6, <1>4, <2>2, <1>0 DEF MoveDevice, TypeOK
      <4>2. state[old] \in StateRow
        BY <2>2, <1>0 DEF TypeOK
      <4>3. QED
        BY <4>1, <4>2 DEF Withdrawn, StateRow
    <3>2. \A q \in Points : state'[q].risk # "UNKNOWN" =>
            q # old /\ state[q].device \in Devices \ {d}
      BY <3>1, <2>5, <1>0 DEF KnownLevelInv
    <3>3. QED
      BY <2>1, <2>3, <2>4, <2>5, <3>1, <3>2, <1>a DEF LevelsOnlyGo
  <2>7. CASE state[old].device # d
    <3>1. state' = state
      BY <2>7, <1>4 DEF MoveDevice
    <3>2. \A q \in Points : state[q].risk # "UNKNOWN" => state[q].device \in Devices \ {d}
      BY <2>7, <1>0 DEF KnownLevelInv
    <3>3. QED
      BY <2>1, <2>3, <2>4, <3>1, <3>2, <1>a DEF LevelsOnlyGo
  <2>8. QED
    BY <2>6, <2>7
<1>5. ASSUME NEW d \in Devices, RotateCredential(d) PROVE LevelsOnlyGo
  <2>1. UNCHANGED <<active, rowVars>> /\ ~Locked(d) /\ device[d] \in RegisteredRow
    BY <1>5, <1>0, EnabledIsRegistered DEF RotateCredential
  <2>2. /\ \A x \in Devices : x # d => device'[x] = device[x]
        /\ device'[d].lastAt = device[d].lastAt
        /\ device'[d].status = device[d].status
        /\ device'[d].point = device[d].point
    BY <1>5, <2>1, <1>0 DEF RotateCredential, TypeOK, RegisteredRow
  <2>3. \A q \in Points : state[q].risk # "UNKNOWN" => state[q].device \in Devices
    BY <1>0 DEF KnownLevelInv
  <2>4. QED
    BY <2>1, <2>2, <2>3, <1>a DEF LevelsOnlyGo
<1>6. ASSUME NEW d \in Devices, DisableDevice(d) PROVE LevelsOnlyGo
  <2> DEFINE p == device[d].point
  <2>1. /\ UNCHANGED <<active, telemetry, assessment, announced>> /\ ~Locked(d)
        /\ device[d] \in RegisteredRow /\ p \in Points
    BY <1>6, <1>0, EnabledIsRegistered DEF DisableDevice
  <2>2. /\ \A x \in Devices : x # d => device'[x] = device[x]
        /\ device'[d].lastAt = device[d].lastAt
    BY <1>6, <2>1, <1>0 DEF DisableDevice, TypeOK, RegisteredRow
  <2>3. \A q \in Points : q # p => state'[q] = state[q]
    BY <1>6, <1>0 DEF DisableDevice, TypeOK
  <2>4. CASE state[p].device = d
    <3>1. /\ state'[p].risk = "UNKNOWN" /\ state'[p].latest = state[p].latest
          /\ state'[p].device = state[p].device /\ state'[p].version = state[p].version
      <4>1. state'[p] = Withdrawn(state[p], "UNKNOWN") /\ state[p] \in StateRow
        BY <2>4, <1>6, <2>1, <1>0 DEF DisableDevice, TypeOK
      <4>2. QED
        BY <4>1, WithdrawnRow DEF Connectivity
    <3>2. \A q \in Points : state'[q].risk # "UNKNOWN" =>
            q # p /\ state[q].device \in Devices \ {d}
      BY <3>1, <2>3, <1>0 DEF KnownLevelInv
    <3>3. QED
      BY <2>1, <2>2, <2>3, <3>1, <3>2, <1>a DEF LevelsOnlyGo
  <2>5. CASE state[p].device # d
    <3>1. state' = state
      BY <2>5, <1>6 DEF DisableDevice
    <3>2. \A q \in Points : state[q].risk # "UNKNOWN" => state[q].device \in Devices \ {d}
      BY <2>5, <1>0 DEF KnownLevelInv
    <3>3. QED
      BY <2>1, <2>2, <3>1, <3>2, <1>a DEF LevelsOnlyGo
  <2>6. QED
    BY <2>4, <2>5
<1>7. ASSUME NEW s \in Sites, UpdateProfile(s) PROVE LevelsOnlyGo
  <2>1. \A x \in Sites : active'[x] >= active[x]
    BY <1>7, <1>0 DEF UpdateProfile, TypeOK
  <2>2. QED
    BY <1>7, <2>1 DEF UpdateProfile, LevelsOnlyGo
<1>7a. ASSUME NEW s \in Sites, NEW l \in Limits, ReplaceProfile(s, l) PROVE LevelsOnlyGo
  <2>1. \A x \in Sites : active'[x] >= active[x]
    BY <1>7a, <1>0 DEF ReplaceProfile, TypeOK
  <2>2. \A q \in Points : state'[q] \in {state[q], [state[q] EXCEPT !.counts = NoCounts]}
    BY <1>7a DEF ReplaceProfile
  <2>3. \A q \in Points : /\ state'[q].risk = state[q].risk
                           /\ state'[q].connectivity = state[q].connectivity
                           /\ state'[q].latest = state[q].latest
                           /\ state'[q].device = state[q].device
                           /\ state'[q].version = state[q].version
    BY <2>2, <1>0 DEF TypeOK, StateRow
  <2>4. QED
    BY <1>7a, <2>1, <2>3 DEF ReplaceProfile, LevelsOnlyGo
<1>8. QED
  <2>1. CASE Ingestion
    BY <2>1, <1>1 DEF Ingestion, Receive, Reject, Begin
  <2>2. CASE Evaluation
    BY <2>2, <1>1, <1>2
       DEF Evaluation, StartEvaluation, FinishEvaluation, FailEvaluation, ExpireLock
  <2>3. CASE Administration
    BY <2>3, <1>1, <1>3, <1>4, <1>5, <1>6, <1>7, <1>7a
       DEF Administration, DeactivatePoint, ReactivatePoint
  <2>4. CASE Tick \/ Restart \/ UNCHANGED vars
    BY <2>4, <1>1 DEF Tick, Restart, vars
  <2>5. QED
    BY <2>1, <2>2, <2>3, <2>4 DEF Next

-----------------------------------------------------------------------------
(* The conjuncts of IInv, one by one.                                      *)

LEMMA InitIInv == Init => IInv
<1> SUFFICES ASSUME Init PROVE IInv
  OBVIOUS
<1>1. /\ \A d \in Devices : ~Enabled(d)
      /\ \A m \in Messages : ~Stored(m)
      /\ \A p \in Points : /\ state[p].risk = "UNKNOWN" /\ state[p].latest = NoMessage
                           /\ state[p].version = 0
      /\ \A r \in Requests : request[r].stage = "idle"
  BY DEF Init, Enabled, Unregistered, Stored, NoTelemetry, NoState, Idle
<1>2. \A p \in Points : SiteOf[p] \in Sites /\ active[SiteOf[p]] \in {0, 1}
  BY ConstantsAssumption DEF ConstantsAssumption, Init
<1>3. SingleOccupant /\ OpenIsProtected /\ NothingNewer
  BY <1>1 DEF SingleOccupant, OpenIsProtected, NothingNewer
<1>4. StateRefersToRows
  BY <1>1, <1>2 DEF StateRefersToRows
<1>5. KnownLevelInv /\ LevelMatchesAssessment /\ KnownLevelIsAnnounced /\ StoredOnce
  BY <1>1 DEF KnownLevelInv, LevelMatchesAssessment, KnownLevelIsAnnounced, StoredOnce
<1>6. QED
  BY <1>3, <1>4, <1>5, InitTypeOK DEF IInv

LEMMA StepSingleOccupant == IInv /\ [Next]_vars => SingleOccupant'
<1> SUFFICES ASSUME IInv, [Next]_vars PROVE SingleOccupant'
  OBVIOUS
<1> USE DEF adminVars, limitVars, rowVars, procVars
<1>0. TypeOK /\ OpenIsProtected /\ SingleOccupant
  BY DEF IInv
<1>1. CASE UNCHANGED <<device, activePoints>>
  BY <1>0, <1>1 DEF SingleOccupant, Enabled
<1>2. ASSUME NEW r \in Requests, NEW w \in HistoryDays, Commit(r, w) PROVE SingleOccupant'
  <2>1. \A x \in Devices : /\ device'[x].status = device[x].status
                           /\ device'[x].point = device[x].point
    BY <1>2, <1>0, CommitEffect
  <2>2. UNCHANGED activePoints
    BY <1>2 DEF Commit
  <2>3. QED
    BY <1>0, <2>1, <2>2 DEF SingleOccupant, Enabled
<1>3. ASSUME NEW d \in Devices, NEW p \in Points, RegisterDevice(d, p) \/ MoveDevice(d, p)
      PROVE  SingleOccupant'
  <2>1. /\ UNCHANGED activePoints /\ p \in activePoints
        /\ \A x \in Devices : x # d => device'[x] = device[x]
        /\ \A x \in Devices \ {d} : ~(Enabled(x) /\ device[x].point = p)
    BY <1>3, <1>0 DEF RegisterDevice, MoveDevice, Occupied, TypeOK
  <2>2. device'[d].point = p
    <3>1. CASE RegisterDevice(d, p)
      BY <3>1, <1>0 DEF RegisterDevice, TypeOK
    <3>2. CASE MoveDevice(d, p)
      <4>1. device[d] \in RegisteredRow
        BY <3>2, <1>0 DEF MoveDevice, TypeOK, DeviceRow, RegisteredRow
      <4>2. QED
        BY <3>2, <4>1, <1>0 DEF MoveDevice, TypeOK, RegisteredRow
    <3>3. QED
      BY <3>1, <3>2, <1>3
  <2>3. QED
    BY <1>0, <2>1, <2>2 DEF SingleOccupant, Enabled
<1>4. ASSUME NEW d \in Devices, RotateCredential(d) \/ DisableDevice(d) PROVE SingleOccupant'
  <2>1. device[d] \in RegisteredRow
    BY <1>4, <1>0, EnabledIsRegistered DEF RotateCredential, DisableDevice
  <2>2. /\ UNCHANGED activePoints
        /\ \A x \in Devices : device'[x].point = device[x].point
        /\ \A x \in Devices : Enabled(x)' => Enabled(x)
    BY <1>4, <2>1, <1>0 DEF RotateCredential, DisableDevice, TypeOK, RegisteredRow, Enabled
  <2>3. QED
    BY <1>0, <2>2 DEF SingleOccupant
<1>5. ASSUME NEW p \in Points, DeactivatePoint(p) \/ ReactivatePoint(p) PROVE SingleOccupant'
  BY <1>5, <1>0 DEF DeactivatePoint, ReactivatePoint, Occupied, SingleOccupant, Enabled
<1>6. QED
  <2>1. CASE Ingestion
    BY <2>1, <1>1, <1>2 DEF Ingestion, Receive, Reject, Begin
  <2>2. CASE Evaluation
    BY <2>2, <1>1 DEF Evaluation, StartEvaluation, EvaluateCandidate, FinishEvaluation,
                      FailEvaluation, ExpireLock
  <2>3. CASE Administration
    BY <2>3, <1>1, <1>3, <1>4, <1>5 DEF Administration, UpdateProfile, ReplaceProfile
  <2>4. CASE Tick \/ Restart \/ UNCHANGED vars
    BY <2>4, <1>1 DEF Tick, Restart, vars
  <2>5. QED
    BY <2>1, <2>2, <2>3, <2>4 DEF Next

(* What the other steps leave of the rows is enough for the rest.          *)
LEMMA LevelsOnlyGoPreserves ==
  ASSUME IInv, TypeOK', LevelsOnlyGo
  PROVE  /\ NothingNewer' /\ StateRefersToRows' /\ KnownLevelInv'
         /\ LevelMatchesAssessment' /\ KnownLevelIsAnnounced' /\ StoredOnce'
<1>0. /\ TypeOK /\ NothingNewer /\ StateRefersToRows /\ KnownLevelInv
      /\ LevelMatchesAssessment /\ KnownLevelIsAnnounced /\ StoredOnce
  BY DEF IInv
<1>1. \A m \in Messages : m.device \in Devices /\ (Stored(m)' <=> Stored(m))
  BY ConstantsAssumption DEF ConstantsAssumption, LevelsOnlyGo, Stored
<1>2. NothingNewer'
  BY <1>0, <1>1 DEF NothingNewer, LevelsOnlyGo
<1>3. StoredOnce'
  BY <1>0, <1>1 DEF StoredOnce
<1>4. StateRefersToRows'
  <2>1. ASSUME NEW p \in Points PROVE state'[p].version <= active'[SiteOf[p]]
    <3>1. SiteOf[p] \in Sites /\ active[SiteOf[p]] \in Nat /\ state[p].version \in Nat
      BY <1>0, ConstantsAssumption DEF ConstantsAssumption, TypeOK, StateRow
    <3>2. /\ state'[p].version = state[p].version
          /\ active'[SiteOf[p]] >= active[SiteOf[p]]
          /\ state[p].version <= active[SiteOf[p]]
      BY <1>0, <3>1 DEF LevelsOnlyGo, StateRefersToRows
    <3>3. active'[SiteOf[p]] \in Nat
      BY <3>1 DEF TypeOK
    <3>4. QED
      BY <3>1, <3>2, <3>3
  <2>2. ASSUME NEW p \in Points, state'[p].latest # NoMessage
        PROVE  /\ telemetry'[state'[p].latest].receivedAt # Never
               /\ state'[p].latest.device = state'[p].device
    <3>1. /\ state'[p].latest = state[p].latest
          /\ state'[p].device = state[p].device
          /\ state[p].latest \in Messages
      BY <1>0, <2>2 DEF LevelsOnlyGo, TypeOK, StateRow
    <3>2. Stored(state[p].latest) /\ state[p].latest.device = state[p].device
      BY <1>0, <2>2, <3>1 DEF StateRefersToRows
    <3>3. QED
      BY <3>1, <3>2 DEF Stored, LevelsOnlyGo
  <2>3. QED
    BY <2>1, <2>2 DEF StateRefersToRows, Stored
<1>5. KnownLevelInv'
  BY <1>0 DEF KnownLevelInv, LevelsOnlyGo, Enabled
<1>6. LevelMatchesAssessment'
  BY <1>0 DEF LevelMatchesAssessment, LevelsOnlyGo
<1>7. KnownLevelIsAnnounced'
  BY <1>0 DEF KnownLevelIsAnnounced, LevelsOnlyGo
<1>8. QED
  BY <1>2, <1>3, <1>4, <1>5, <1>6, <1>7

(* An accepted sample is in order: it is the newest of its device or it    *)
(* leaves the point's state alone.                                         *)
LEMMA CommitPreserves ==
  ASSUME IInv, NEW r \in Requests, NEW w \in HistoryDays, Commit(r, w)
  PROVE  /\ NothingNewer' /\ StateRefersToRows' /\ KnownLevelInv'
         /\ LevelMatchesAssessment' /\ KnownLevelIsAnnounced' /\ StoredOnce'
<1> DEFINE m == request[r].msg
           d == m.device
           p == device[d].point
           v == request[r].version
           risk == Classify(Enabled(d), ProfileOf(v), m.reading, w)
<1>0. /\ TypeOK /\ OpenIsProtected /\ NothingNewer /\ StateRefersToRows /\ KnownLevelInv
      /\ LevelMatchesAssessment /\ KnownLevelIsAnnounced /\ StoredOnce
  BY DEF IInv
<1>1. request[r].stage = "open"
  BY DEF Commit
<1>2. /\ m \in Messages /\ d \in Devices /\ m.at \in Nat \ {Never}
      /\ v \in Nat /\ Enabled(d) /\ device[d] \in RegisteredRow /\ p \in Points
      /\ ~AlreadyUsed(m) /\ ~Stored(m)
  BY <1>0, <1>1, OpenRequest
<1>3. v <= active[SiteOf[p]]
  <2>1. v \in state[p].version..active[SiteOf[p]]
    BY <1>0, <1>1 DEF OpenIsProtected
  <2>2. state[p].version \in Nat /\ active[SiteOf[p]] \in Nat
    BY <1>0, <1>2, ConstantsAssumption DEF ConstantsAssumption, TypeOK, StateRow
  <2> HIDE DEF p, v
  <2>3. QED
    BY <1>2, <2>1, <2>2
<1>4. /\ \A x \in Devices : /\ device'[x].status = device[x].status
                            /\ device'[x].point = device[x].point
                            /\ x # d => device'[x] = device[x]
      /\ device'[d].lastAt = IF IsLatest(m) THEN m.at ELSE device[d].lastAt
      /\ telemetry'[m].receivedAt # Never
      /\ \A n \in Messages : n # m => telemetry'[n] = telemetry[n]
  BY <1>0, CommitEffect
<1>5. /\ UNCHANGED active
      /\ v = 0 => risk = "UNKNOWN"
  <2>1. v = 0 => ProfileOf(v) = Missing
    BY DEF ProfileOf
  <2>2. Classify(Enabled(d), Missing, m.reading, w) = "UNKNOWN"
    BY ClassifyWithoutProfile
  <2>3. v = 0 => risk = "UNKNOWN"
    BY <2>1, <2>2
  <2>4. UNCHANGED active
    BY DEF Commit, adminVars, limitVars
  <2>5. QED
    BY <2>3, <2>4
<1>6. \A n \in Messages : n # m => assessment'[n] = assessment[n]
  BY <1>0 DEF Commit, TypeOK
<1>7. \/ /\ IsLatest(m)
         /\ state' = [state EXCEPT ![p] = NextState(p, m, v, request[r].counts, risk)]
         /\ Announce(p, state[p].risk, risk)
      \/ ~IsLatest(m) /\ UNCHANGED <<state, announced>>
  BY DEF Commit
<1> HIDE DEF risk
<1>8. risk # "UNKNOWN" =>
        /\ assessment'[m].version = v /\ assessment'[m].point = p
        /\ assessment'[m].risk = risk
        /\ IsLatest(m) => assessment'[m].current
  <2>1. CASE v = 0
    BY <2>1, <1>5
  <2>2. CASE v # 0
    <3>1. assessment' = [assessment EXCEPT ![m] =
             [version |-> v, point |-> p, risk |-> risk, current |-> IsLatest(m)]]
      BY <2>2 DEF Commit, risk
    <3>2. QED
      BY <3>1, <1>0, <1>2 DEF TypeOK
  <2>3. QED
    BY <2>1, <2>2
<1> HIDE DEF v, p, d, m
<1>9. IsLatest(m) =>
        /\ state'[p].device = d /\ state'[p].latest = m /\ state'[p].version = v
        /\ state'[p].risk = risk /\ state'[p].connectivity = "ONLINE"
        /\ risk # "UNKNOWN" => announced'[p].to = risk
  <2> SUFFICES ASSUME IsLatest(m)
               PROVE  /\ state'[p].device = d /\ state'[p].latest = m
                      /\ state'[p].version = v /\ state'[p].risk = risk
                      /\ state'[p].connectivity = "ONLINE"
                      /\ risk # "UNKNOWN" => announced'[p].to = risk
    OBVIOUS
  <2>1. state'[p] = NextState(p, m, v, request[r].counts, risk)
    BY <1>0, <1>2, <1>7 DEF TypeOK
  <2>2. CASE state[p].risk = risk
    <3>1. announced' = announced
      BY <2>2, <1>7 DEF Announce
    <3>2. risk # "UNKNOWN" => announced[p].to = risk
      BY <2>2, <1>0, <1>2 DEF KnownLevelIsAnnounced
    <3>3. QED
      BY <2>1, <3>1, <3>2 DEF NextState, d
  <2>3. CASE state[p].risk # risk
    <3>1. announced' = [announced EXCEPT ![p] = [from |-> state[p].risk, to |-> risk]]
      BY <2>3, <1>7 DEF Announce
    <3>2. announced'[p].to = risk
      BY <3>1, <1>0, <1>2 DEF TypeOK
    <3>3. QED
      BY <2>1, <3>2 DEF NextState, d
  <2>4. QED
    BY <2>2, <2>3
<1>10. \A q \in Points : q # p \/ ~IsLatest(m) =>
         state'[q] = state[q] /\ announced'[q] = announced[q]
  BY <1>0, <1>7 DEF Announce, TypeOK
<1>11. \A q \in Points : state[q].latest # NoMessage =>
         /\ state[q].latest \in Messages /\ state[q].latest # m
         /\ Stored(state[q].latest) /\ state[q].latest.device = state[q].device
  BY <1>0, <1>2 DEF TypeOK, StateRow, StateRefersToRows
<1>12. NothingNewer'
  <2>1. ASSUME NEW n \in Messages, telemetry'[n].receivedAt # Never
        PROVE  n.at <= device'[n.device].lastAt
    <3>1. n.device \in Devices /\ n.at \in Nat \ {Never}
      BY ConstantsAssumption DEF ConstantsAssumption
    <3>2. device[d].lastAt \in Nat
      BY <1>2 DEF RegisteredRow
    <3>3. CASE n = m
      BY <3>1, <3>2, <3>3, <1>4 DEF IsLatest, d
    <3>4. CASE n # m
      <4>1. n.at <= device[n.device].lastAt
        BY <2>1, <3>4, <1>0, <1>4 DEF NothingNewer, Stored
      <4>2. CASE n.device = d
        BY <4>1, <4>2, <3>1, <3>2, <1>2, <1>4 DEF IsLatest, Never, d
      <4>3. CASE n.device # d
        BY <4>1, <4>3, <3>1, <1>4
      <4>4. QED
        BY <4>2, <4>3
    <3>5. QED
      BY <3>3, <3>4
  <2>2. QED
    BY <2>1 DEF NothingNewer, Stored
<1>13. StoredOnce'
  <2>1. \A n \in Messages : telemetry'[n].receivedAt # Never => n = m \/ Stored(n)
    BY <1>4 DEF Stored
  <2>2. \A n \in Messages : SameMessageId(n, m) <=> SameMessageId(m, n)
    BY DEF SameMessageId
  <2>3. \A n \in Messages : SameSequence(n, m) <=> SameSequence(m, n)
    BY DEF SameSequence
  <2>4. QED
    BY <1>0, <1>2, <2>1, <2>2, <2>3 DEF StoredOnce, Stored, AlreadyUsed
<1>14. StateRefersToRows'
  <2>1. ASSUME NEW q \in Points, state'[q].latest # NoMessage
        PROVE  /\ telemetry'[state'[q].latest].receivedAt # Never
               /\ state'[q].latest.device = state'[q].device
    <3>1. CASE q = p /\ IsLatest(m)
      BY <3>1, <1>4, <1>9 DEF d
    <3>2. CASE q # p \/ ~IsLatest(m)
      BY <2>1, <3>2, <1>4, <1>10, <1>11 DEF Stored
    <3>3. QED
      BY <3>1, <3>2
  <2>2. ASSUME NEW q \in Points PROVE state'[q].version <= active'[SiteOf[q]]
    BY <1>0, <1>3, <1>5, <1>9, <1>10 DEF StateRefersToRows
  <2>3. QED
    BY <2>1, <2>2 DEF StateRefersToRows, Stored
<1>15. KnownLevelInv' /\ LevelMatchesAssessment' /\ KnownLevelIsAnnounced'
  <2> SUFFICES ASSUME NEW q \in Points, state'[q].risk # "UNKNOWN"
               PROVE  LET e == state'[q].device
                          n == state'[q].latest
                          a == assessment'[state'[q].latest]
                      IN  /\ e \in Devices /\ n \in Messages
                          /\ device'[e].status = "ENABLED" /\ device'[e].point = q
                          /\ state'[q].connectivity = "ONLINE"
                          /\ n.device = e
                          /\ n.at = device'[e].lastAt
                          /\ a.current /\ a.risk = state'[q].risk
                          /\ a.version = state'[q].version /\ a.point = q
                          /\ announced'[q].to = state'[q].risk
    BY DEF KnownLevelInv, LevelMatchesAssessment, KnownLevelIsAnnounced, Enabled
  <2>1. CASE q = p /\ IsLatest(m)
    BY <2>1, <1>2, <1>4, <1>8, <1>9 DEF Enabled, d, p
  <2>2. CASE q # p \/ ~IsLatest(m)
    <3>1. state'[q] = state[q] /\ announced'[q] = announced[q] /\ state[q].risk # "UNKNOWN"
      BY <2>2, <1>10
    <3>2. /\ state[q].device \in Devices /\ state[q].latest \in Messages
          /\ Enabled(state[q].device) /\ device[state[q].device].point = q
          /\ state[q].connectivity = "ONLINE"
          /\ state[q].latest.device = state[q].device
          /\ state[q].latest.at = device[state[q].device].lastAt
      BY <3>1, <1>0 DEF KnownLevelInv
    <3>3. assessment'[state[q].latest] = assessment[state[q].latest]
      BY <3>2, <1>6, <1>11, ConstantsAssumption DEF ConstantsAssumption
    <3>4. device'[state[q].device].lastAt = device[state[q].device].lastAt
      BY <2>2, <3>2, <1>4 DEF p
    <3>5. /\ device'[state[q].device].status = "ENABLED"
          /\ device'[state[q].device].point = q
      BY <3>2, <1>4 DEF Enabled
    <3>6. /\ assessment[state[q].latest].current
          /\ assessment[state[q].latest].risk = state[q].risk
          /\ assessment[state[q].latest].version = state[q].version
          /\ assessment[state[q].latest].point = q
          /\ announced[q].to = state[q].risk
      BY <3>1, <1>0 DEF LevelMatchesAssessment, KnownLevelIsAnnounced
    <3>7. QED
      BY <3>1, <3>2, <3>3, <3>4, <3>5, <3>6
  <2>3. QED
    BY <2>1, <2>2
<1>16. QED
  BY <1>12, <1>13, <1>14, <1>15

(* What protects an open transaction: its locks outlive every other step.  *)
LEMMA StepOpenIsProtected == IInv /\ [Next]_vars => OpenIsProtected'
<1> SUFFICES ASSUME IInv, [Next]_vars PROVE OpenIsProtected'
  OBVIOUS
<1> USE DEF adminVars, limitVars, rowVars, procVars
<1>0. /\ TypeOK /\ OpenIsProtected /\ SingleOccupant /\ StateRefersToRows
  BY DEF IInv
\* What "open" means of a request that stays as it is.
<1>1. ASSUME NEW r \in Requests, request[r].stage = "open", request'[r] = request[r],
             device'[request[r].msg.device] = device[request[r].msg.device],
             \A n \in Messages : n.device = request[r].msg.device =>
               telemetry'[n].receivedAt = telemetry[n].receivedAt,
             LET q == device[request[r].msg.device].point
             IN  state'[q].version = state[q].version,
             \A s \in Sites : active'[s] \in Nat /\ active'[s] >= active[s]
      PROVE  LET m == request'[r].msg
                 q == device'[m.device].point
             IN  /\ PrincipalIsCurrent(r)'
                 /\ ~ \E n \in Messages : telemetry'[n].receivedAt # Never
                                          /\ (SameMessageId(m, n) \/ SameSequence(m, n))
                 /\ request'[r].version \in state'[q].version..active'[SiteOf[q]]
  <2> DEFINE m == request[r].msg
             q == device[m.device].point
  <2>1. /\ m.device \in Devices /\ q \in Points /\ request[r].version \in Nat
    BY <1>0, <1>1, OpenRequest
  <2>2. PrincipalIsCurrent(r)'
    BY <1>0, <1>1 DEF OpenIsProtected, PrincipalIsCurrent, Enabled
  <2>3. ~ \E n \in Messages : telemetry'[n].receivedAt # Never
                              /\ (SameMessageId(m, n) \/ SameSequence(m, n))
    BY <1>0, <1>1 DEF OpenIsProtected, AlreadyUsed, Stored, SameMessageId, SameSequence
  <2>4. SiteOf[q] \in Sites /\ state[q].version \in Nat /\ active[SiteOf[q]] \in Nat
    BY <1>0, <2>1, ConstantsAssumption DEF ConstantsAssumption, TypeOK, StateRow
  <2>5. request[r].version \in state[q].version..active[SiteOf[q]]
    BY <1>0, <1>1 DEF OpenIsProtected
  <2>6. /\ active'[SiteOf[q]] \in Nat /\ active'[SiteOf[q]] >= active[SiteOf[q]]
        /\ state'[q].version = state[q].version
    BY <1>1, <2>4
  <2>7. request[r].version \in state'[q].version..active'[SiteOf[q]]
    <3> HIDE DEF q
    <3>1. QED
      BY <2>1, <2>4, <2>5, <2>6
  <2>8. QED
    BY <1>1, <2>2, <2>3, <2>7
<1>2. ASSUME NEW r \in Requests, NEW w \in HistoryDays, Commit(r, w) PROVE OpenIsProtected'
  <2> DEFINE m == request[r].msg
             p == device[m.device].point
  <2>1. /\ request[r].stage = "open" /\ m \in Messages /\ m.device \in Devices
        /\ Enabled(m.device) /\ p \in Points
    <3>1. request[r].stage = "open"
      BY <1>2 DEF Commit
    <3>2. QED
      BY <3>1, <1>0, OpenRequest
  <2>2. /\ request'[r] = Idle /\ \A q \in Requests : q # r => request'[q] = request[q]
        /\ UNCHANGED active
        /\ \A q \in Points : q # p => state'[q] = state[q]
    BY <1>2, <1>0 DEF Commit, TypeOK
  <2>3. /\ \A x \in Devices : x # m.device => device'[x] = device[x]
        /\ \A n \in Messages : n # m => telemetry'[n] = telemetry[n]
    BY <1>2, <1>0, CommitEffect
  <2>4. \A q \in Requests : q # r /\ request[q].stage = "open" =>
          /\ request[q].msg.device \in Devices /\ Enabled(request[q].msg.device)
          /\ request[q].msg.device # m.device
    BY <2>1, <1>0, OpenRequest DEF OpenIsProtected
  <2>5. \A q \in Requests : q # r /\ request[q].stage = "open" =>
          device[request[q].msg.device].point # p
    BY <2>1, <2>4, <1>0 DEF SingleOccupant
  <2>6. \A q \in Requests : request'[q].stage = "open" =>
          /\ q # r /\ request'[q] = request[q] /\ request[q].stage = "open"
    BY <2>2 DEF Idle
  <2>7. \A s \in Sites : active'[s] \in Nat /\ active'[s] >= active[s]
    BY <2>2, <1>0 DEF TypeOK
  <2> HIDE DEF p
  <2>8. ASSUME NEW q \in Requests, request'[q].stage = "open"
        PROVE  /\ PrincipalIsCurrent(q)'
               /\ ~ \E n \in Messages : telemetry'[n].receivedAt # Never
                      /\ (SameMessageId(request'[q].msg, n) \/ SameSequence(request'[q].msg, n))
               /\ LET x == device'[request'[q].msg.device].point
                  IN  request'[q].version \in state'[x].version..active'[SiteOf[x]]
    <3>1. /\ q # r /\ request'[q] = request[q] /\ request[q].stage = "open"
      BY <2>6, <2>8
    <3>2. device[request[q].msg.device].point \in Points
      BY <3>1, <1>0, OpenRequest
    <3>3. device'[request[q].msg.device] = device[request[q].msg.device]
      BY <3>1, <2>3, <2>4
    <3>4. \A n \in Messages : n.device = request[q].msg.device =>
            telemetry'[n].receivedAt = telemetry[n].receivedAt
      BY <3>1, <2>3, <2>4
    <3>5. state'[device[request[q].msg.device].point].version
            = state[device[request[q].msg.device].point].version
      BY <3>1, <3>2, <2>2, <2>5
    <3>6. QED
      BY <3>1, <3>3, <3>4, <3>5, <2>7, <1>1
  <2>9. QED
    BY <2>6, <2>8, <1>0 DEF OpenIsProtected, AlreadyUsed, Stored
<1>3. ASSUME NEW r \in Requests, Begin(r) PROVE OpenIsProtected'
  <2> DEFINE m == request[r].msg
             p == device[m.device].point
  <2>1. /\ UNCHANGED <<device, active, telemetry, state>>
        /\ request[r].stage = "received" /\ ~Locked(m.device)
        /\ PrincipalIsCurrent(r) /\ ~AlreadyUsed(m)
    BY <1>3 DEF Begin
  <2>2. request[r] \in [stage : {"received", "open"}, msg : Messages, credential : Nat,
                        receivedAt : Nat \ {Never}, version : Nat, counts : CountsRow]
    BY <2>1, <1>0 DEF TypeOK, RequestRow, Idle
  <2>3. m.device \in Devices /\ Enabled(m.device)
    BY <2>1, <2>2, ConstantsAssumption DEF ConstantsAssumption, PrincipalIsCurrent
  <2>4. p \in Points
    BY <2>3, <1>0, EnabledIsRegistered
  <2>5. /\ request'[r].msg = m /\ request'[r].credential = request[r].credential
        /\ request'[r].version = active[SiteOf[p]]
        /\ \A q \in Requests : q # r => request'[q] = request[q]
    BY <1>3, <2>2, <1>0 DEF Begin, TypeOK
  <2>6. active[SiteOf[p]] \in state[p].version..active[SiteOf[p]]
    <3>1. SiteOf[p] \in Sites /\ state[p].version \in Nat /\ active[SiteOf[p]] \in Nat
      BY <1>0, <2>4, ConstantsAssumption DEF ConstantsAssumption, TypeOK, StateRow
    <3>2. state[p].version <= active[SiteOf[p]]
      BY <1>0, <2>4 DEF StateRefersToRows
    <3> HIDE DEF p
    <3>3. QED
      BY <3>1, <3>2
  <2>7. \A q \in Requests : q # r /\ request[q].stage = "open" =>
          request[q].msg.device # m.device
    BY <2>1 DEF Locked
  <2>8. PrincipalIsCurrent(r)'
    BY <2>1, <2>3, <2>5 DEF PrincipalIsCurrent, Enabled
  <2>9. \A s \in Sites : active'[s] \in Nat /\ active'[s] >= active[s]
    BY <2>1, <1>0 DEF TypeOK
  <2> HIDE DEF p
  <2>10. ASSUME NEW q \in Requests, request'[q].stage = "open"
         PROVE  /\ PrincipalIsCurrent(q)'
                /\ ~ \E n \in Messages : telemetry'[n].receivedAt # Never
                      /\ (SameMessageId(request'[q].msg, n) \/ SameSequence(request'[q].msg, n))
                /\ LET x == device'[request'[q].msg.device].point
                   IN  request'[q].version \in state'[x].version..active'[SiteOf[x]]
    <3>1. CASE q = r
      <4>1. /\ device'[request'[r].msg.device].point = p
            /\ state' = state /\ active' = active
        BY <2>1, <2>5 DEF p
      <4>2. request'[r].version \in state'[p].version..active'[SiteOf[p]]
        BY <4>1, <2>5, <2>6
      <4>3. ~ \E n \in Messages : telemetry'[n].receivedAt # Never
                      /\ (SameMessageId(request'[r].msg, n) \/ SameSequence(request'[r].msg, n))
        BY <2>1, <2>5 DEF AlreadyUsed, Stored
      <4>4. QED
        BY <3>1, <2>8, <4>1, <4>2, <4>3
    <3>2. CASE q # r
      <4>1. request'[q] = request[q] /\ request[q].stage = "open"
        BY <2>5, <2>10, <3>2
      <4>2. QED
        BY <4>1, <2>1, <2>9, <1>1
    <3>3. QED
      BY <3>1, <3>2
  <2>11. ASSUME NEW q \in Requests, NEW x \in Requests, request'[q].stage = "open",
                request'[x].stage = "open", request'[x].msg.device = request'[q].msg.device
         PROVE  x = q
    BY <2>5, <2>7, <2>11, <1>0 DEF OpenIsProtected
  <2>12. QED
    BY <2>10, <2>11 DEF OpenIsProtected, AlreadyUsed, Stored
<1>4. ASSUME ~ \E r \in Requests, w \in HistoryDays : Commit(r, w),
             \A r \in Requests : request'[r].stage = "open" => request'[r] = request[r]
      PROVE  OpenIsProtected'
  <2>1. LevelsOnlyGo /\ TypeOK'
    BY <1>4, <1>0, OtherSteps, StepTypeOK
  <2>2. \A s \in Sites : active'[s] \in Nat /\ active'[s] >= active[s]
    BY <2>1 DEF LevelsOnlyGo, TypeOK
  <2>3. ASSUME NEW r \in Requests, request'[r].stage = "open"
        PROVE  /\ PrincipalIsCurrent(r)'
               /\ ~ \E n \in Messages : telemetry'[n].receivedAt # Never
                      /\ (SameMessageId(request'[r].msg, n) \/ SameSequence(request'[r].msg, n))
               /\ LET x == device'[request'[r].msg.device].point
                  IN  request'[r].version \in state'[x].version..active'[SiteOf[x]]
    <3>1. request'[r] = request[r] /\ request[r].stage = "open"
      BY <1>4, <2>3
    <3>2. request[r].msg.device \in Devices /\ device[request[r].msg.device].point \in Points
      BY <3>1, <1>0, OpenRequest
    <3>3. Locked(request[r].msg.device)
      BY <3>1 DEF Locked
    <3>4. /\ device'[request[r].msg.device] = device[request[r].msg.device]
          /\ \A n \in Messages : telemetry'[n].receivedAt = telemetry[n].receivedAt
          /\ state'[device[request[r].msg.device].point].version
               = state[device[request[r].msg.device].point].version
      BY <3>2, <3>3, <2>1 DEF LevelsOnlyGo
    <3>5. QED
      BY <3>1, <3>4, <2>2, <1>1
  <2>4. QED
    BY <1>4, <2>3, <1>0 DEF OpenIsProtected, AlreadyUsed, Stored
<1>5. CASE \E r \in Requests, w \in HistoryDays : Commit(r, w)
  BY <1>5, <1>2
<1>6. CASE ~ \E r \in Requests, w \in HistoryDays : Commit(r, w)
  <2>1. CASE Ingestion
    <3>1. ASSUME NEW r \in Requests, NEW m \in Messages, Receive(r, m) PROVE OpenIsProtected'
      BY <3>1, <1>4, <1>6, <1>0 DEF Receive, TypeOK
    <3>2. ASSUME NEW r \in Requests, Reject(r) PROVE OpenIsProtected'
      BY <3>2, <1>4, <1>6, <1>0 DEF Reject, TypeOK, Idle
    <3>3. QED
      BY <2>1, <1>3, <1>6, <3>1, <3>2 DEF Ingestion
  <2>2. CASE UNCHANGED request
    BY <2>2, <1>4, <1>6
  <2>3. CASE Restart
    BY <2>3, <1>4, <1>6 DEF Restart, Idle
  <2>4. CASE Administration
    BY <2>4, <2>2
       DEF Administration, RegisterDevice, MoveDevice, RotateCredential, DisableDevice,
           DeactivatePoint, ReactivatePoint, UpdateProfile, ReplaceProfile
  <2>5. QED
    BY <2>1, <2>2, <2>3, <2>4
       DEF Next, Evaluation, StartEvaluation, EvaluateCandidate, FinishEvaluation,
           FailEvaluation, ExpireLock, Tick, vars
<1>7. QED
  BY <1>5, <1>6

LEMMA StepIInv == IInv /\ [Next]_vars => IInv'
<1> SUFFICES ASSUME IInv, [Next]_vars PROVE IInv'
  OBVIOUS
<1>1. TypeOK'
  BY StepTypeOK DEF IInv
<1>2. SingleOccupant' /\ OpenIsProtected'
  BY StepSingleOccupant, StepOpenIsProtected
<1>3. /\ NothingNewer' /\ StateRefersToRows' /\ KnownLevelInv'
      /\ LevelMatchesAssessment' /\ KnownLevelIsAnnounced' /\ StoredOnce'
  <2>1. CASE \E r \in Requests, w \in HistoryDays : Commit(r, w)
    BY <2>1, CommitPreserves
  <2>2. CASE ~ \E r \in Requests, w \in HistoryDays : Commit(r, w)
    BY <2>2, <1>1, OtherSteps, LevelsOnlyGoPreserves
  <2>3. QED
    BY <2>1, <2>2
<1>4. QED
  BY <1>1, <1>2, <1>3 DEF IInv

-----------------------------------------------------------------------------
(* The theorems.                                                           *)

(* IInv is an invariant of the specification.                              *)
THEOREM Invariance == Spec => []IInv
<1>1. QED
  BY InitIInv, StepIInv, PTL DEF Spec

(* Every variable keeps its type.                                          *)
THEOREM TypeCorrectness == Spec => []TypeOK
<1>1. IInv => TypeOK
  BY DEF IInv
<1>2. QED
  BY <1>1, Invariance, PTL

(* However devices are registered, moved and disabled and points switched  *)
(* on and off, a point has one enabled device at most.                     *)
THEOREM OneDevicePerPoint == Spec => []SingleOccupant
<1>1. IInv => SingleOccupant
  BY DEF IInv
<1>2. QED
  BY <1>1, Invariance, PTL

(* A level is only shown for an enabled, present and ONLINE device and     *)
(* from its newest sample.                                                 *)
THEOREM LevelsAreLive == Spec => []KnownLevelIsLive
<1>1. IInv => KnownLevelIsLive
  <2> SUFFICES ASSUME IInv, NEW p \in Points, state[p].risk # "UNKNOWN"
               PROVE  LET d == state[p].device
                          m == state[p].latest
                      IN  /\ d \in Devices /\ m \in Messages
                          /\ Enabled(d) /\ device[d].point = p
                          /\ state[p].connectivity = "ONLINE"
                          /\ m.device = d /\ Stored(m)
                          /\ \A n \in Messages : Stored(n) /\ n.device = d => n.at <= m.at
    BY DEF KnownLevelIsLive
  <2>1. /\ state[p].device \in Devices /\ state[p].latest \in Messages
        /\ Enabled(state[p].device) /\ device[state[p].device].point = p
        /\ state[p].connectivity = "ONLINE"
        /\ state[p].latest.device = state[p].device
        /\ state[p].latest.at = device[state[p].device].lastAt
    BY DEF IInv, KnownLevelInv
  <2>2. Stored(state[p].latest)
    BY <2>1, ConstantsAssumption DEF IInv, StateRefersToRows, ConstantsAssumption
  <2>3. \A n \in Messages : Stored(n) => n.at <= device[n.device].lastAt
    BY DEF IInv, NothingNewer
  <2>4. QED
    BY <2>1, <2>2, <2>3
<1>2. QED
  BY <1>1, Invariance, PTL

(* A shown level is the one assessed for the sample and version it names.  *)
THEOREM LevelsAreAssessed == Spec => []LevelMatchesAssessment
<1>1. IInv => LevelMatchesAssessment
  BY DEF IInv
<1>2. QED
  BY <1>1, Invariance, PTL

(* A shown level was announced.                                            *)
THEOREM LevelsAreAnnounced == Spec => []KnownLevelIsAnnounced
<1>1. IInv => KnownLevelIsAnnounced
  BY DEF IInv
<1>2. QED
  BY <1>1, Invariance, PTL

(* No two rows of a device share a messageId or a sequence.                *)
THEOREM SamplesAreStoredOnce == Spec => []StoredOnce
<1>1. IInv => StoredOnce
  BY DEF IInv
<1>2. QED
  BY <1>1, Invariance, PTL

(* A point keeps its device and moves forward in device time, or its       *)
(* projection is another device's or none.                                 *)
THEOREM ProjectionIsMonotone == Spec => ProjectionNeverGoesBack
<1> DEFINE Forward == \A p \in Points :
             /\ state[p].latest # NoMessage /\ state'[p].latest # NoMessage
             /\ state'[p].device = state[p].device
             => state'[p].latest.at >= state[p].latest.at
<1>1. IInv /\ [Next]_vars => [Forward]_state
  <2> SUFFICES ASSUME IInv, [Next]_vars, NEW p \in Points,
                      state[p].latest # NoMessage, state'[p].latest # NoMessage,
                      state'[p].device = state[p].device
               PROVE  state'[p].latest.at >= state[p].latest.at
    OBVIOUS
  <2>0. TypeOK /\ OpenIsProtected /\ NothingNewer /\ StateRefersToRows
    BY DEF IInv
  <2>1. /\ state[p].latest \in Messages /\ Stored(state[p].latest)
        /\ state[p].latest.device = state[p].device
        /\ state[p].latest.at \in Nat
    BY <2>0, ConstantsAssumption
       DEF ConstantsAssumption, TypeOK, StateRow, StateRefersToRows
  <2>2. CASE ~ \E r \in Requests, w \in HistoryDays : Commit(r, w)
    <3>1. state'[p].latest = state[p].latest
      BY <2>2, OtherSteps DEF LevelsOnlyGo
    <3>2. QED
      BY <2>1, <3>1
  <2>3. ASSUME NEW r \in Requests, NEW w \in HistoryDays, Commit(r, w)
        PROVE  state'[p].latest.at >= state[p].latest.at
    <3> DEFINE m == request[r].msg
    <3>1. request[r].stage = "open"
      BY <2>3 DEF Commit
    <3>2. /\ m \in Messages /\ m.device \in Devices /\ m.at \in Nat \ {Never}
          /\ device[m.device].lastAt \in Nat
      BY <3>1, <2>0, OpenRequest DEF RegisteredRow
    <3>3. CASE state'[p] = state[p]
      BY <3>3, <2>1
    <3>4. CASE state'[p] # state[p]
      <4>1. /\ IsLatest(m) /\ state'[p].latest = m /\ state'[p].device = m.device
        BY <3>4, <2>3, <2>0 DEF Commit, NextState, TypeOK
      <4>2. state[p].latest.at <= device[m.device].lastAt
        BY <4>1, <2>0, <2>1 DEF NothingNewer
      <4>3. m.at >= state[p].latest.at
        BY <4>1, <4>2, <3>2, <2>1 DEF IsLatest, Never
      <4>4. QED
        BY <4>1, <4>3
    <3>5. QED
      BY <3>3, <3>4
  <2>4. QED
    BY <2>2, <2>3
<1>2. QED
  BY <1>1, Invariance, PTL DEF Spec, ProjectionNeverGoesBack

(* A sample is stored only for a device that is enabled and still has the  *)
(* credential that authenticated the sample.                               *)
THEOREM StoredByCurrentPrincipal == Spec => OnlyCurrentPrincipalStores
<1> DEFINE ByPrincipal == \A m \in Messages : ~Stored(m) /\ Stored(m)' =>
             \E r \in Requests :
               /\ request[r].msg = m
               /\ Enabled(m.device)
               /\ request[r].credential = device[m.device].credential
<1>1. IInv /\ [Next]_vars => [ByPrincipal]_telemetry
  <2> SUFFICES ASSUME IInv, [Next]_vars, NEW m \in Messages, ~Stored(m),
                      telemetry'[m].receivedAt # Never
               PROVE  \E r \in Requests :
                        /\ request[r].msg = m
                        /\ Enabled(m.device)
                        /\ request[r].credential = device[m.device].credential
    BY DEF Stored
  <2>0. TypeOK /\ OpenIsProtected
    BY DEF IInv
  <2>1. CASE ~ \E r \in Requests, w \in HistoryDays : Commit(r, w)
    BY <2>1, OtherSteps DEF LevelsOnlyGo, Stored
  <2>2. ASSUME NEW r \in Requests, NEW w \in HistoryDays, Commit(r, w)
        PROVE  \E q \in Requests : /\ request[q].msg = m
                                   /\ Enabled(m.device)
                                   /\ request[q].credential = device[m.device].credential
    <3>1. request[r].msg = m
      BY <2>2, <2>0, CommitEffect DEF Stored
    <3>2. PrincipalIsCurrent(r)
      BY <2>2, <2>0 DEF Commit, OpenIsProtected
    <3>3. QED
      BY <3>1, <3>2 DEF PrincipalIsCurrent
  <2>3. QED
    BY <2>1, <2>2
<1>2. QED
  BY <1>1, Invariance, PTL DEF Spec, OnlyCurrentPrincipalStores

(* A point's profile version only grows.                                   *)
THEOREM VersionIsMonotone == Spec => ProfileVersionNeverGoesBack
<1> DEFINE Forward == \A p \in Points : state'[p].version >= state[p].version
<1>1. IInv /\ [Next]_vars => [Forward]_state
  <2> SUFFICES ASSUME IInv, [Next]_vars, NEW p \in Points
               PROVE  state'[p].version >= state[p].version
    OBVIOUS
  <2>0. TypeOK /\ OpenIsProtected
    BY DEF IInv
  <2>1. state[p].version \in Nat
    BY <2>0 DEF TypeOK, StateRow
  <2>2. CASE ~ \E r \in Requests, w \in HistoryDays : Commit(r, w)
    <3>1. state'[p].version = state[p].version
      BY <2>2, OtherSteps DEF LevelsOnlyGo
    <3>2. QED
      BY <2>1, <3>1
  <2>3. ASSUME NEW r \in Requests, NEW w \in HistoryDays, Commit(r, w)
        PROVE  state'[p].version >= state[p].version
    <3> DEFINE q == device[request[r].msg.device].point
    <3>1. request[r].stage = "open"
      BY <2>3 DEF Commit
    <3>2. request[r].version \in Nat /\ q \in Points
      BY <3>1, <2>0, OpenRequest
    <3>3. request[r].version \in state[q].version..active[SiteOf[q]]
      BY <3>1, <2>0 DEF OpenIsProtected
    <3>4. state[q].version \in Nat /\ active[SiteOf[q]] \in Nat
      BY <3>2, <2>0, ConstantsAssumption DEF ConstantsAssumption, TypeOK, StateRow
    <3>5. request[r].version >= state[q].version
      <4> HIDE DEF q
      <4>1. QED
        BY <3>2, <3>3, <3>4
    <3>6. state'[p] = state[p] \/ (p = q /\ state'[p].version = request[r].version)
      BY <2>3, <2>0 DEF Commit, NextState, TypeOK
    <3>7. QED
      BY <2>1, <3>5, <3>6
  <2>4. QED
    BY <2>2, <2>3
<1>2. QED
  BY <1>1, Invariance, PTL DEF Spec, ProfileVersionNeverGoesBack
=============================================================================
