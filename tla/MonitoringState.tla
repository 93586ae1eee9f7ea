--------------------------- MODULE MonitoringState ---------------------------
(***************************************************************************)
(* The core of the backend: devices, the telemetry they deliver, and the   *)
(* current state of every monitoring point, which three kinds of           *)
(* transactions write: an accepted sample (telemetry.service.ts and        *)
(* risk-evaluation.service.ts), the periodic connectivity evaluator and    *)
(* the administration of devices, points and profiles.                     *)
(*                                                                         *)
(* Every transaction that writes a device or a point's state first takes   *)
(* the Device row FOR UPDATE, and every check it makes on that row and on  *)
(* the rows it owns comes after.  A transaction is therefore one action,   *)
(* but for the ingestion of a sample, which reads the active profile and   *)
(* the point's counters under no lock that protects them from a profile    *)
(* update: it is split at these reads.                                     *)
(***************************************************************************)
EXTENDS RiskEngine, FiniteSets

CONSTANTS
  Devices, Points, Sites,
  SiteOf,          \* the site of each point
  Messages,        \* the samples: [device, id, seq, at, reading, firmware]
  Requests,        \* concurrent POST /telemetry handlers
  Evaluators,      \* concurrent runs of the connectivity evaluator
  Profiles,        \* the thresholds of each profile version
  HistoryDays,     \* what the rainfall history of a device may amount to
  Limits,          \* what a profile may say of freshness: [online, offline]
  MaxFutureSkew,   \* how far a device clock may run ahead
  LockTtl,         \* the evaluator's lock is released after this long
  NoDevice, NoPoint, NoMessage, NoEvaluator,
  \* Bounds of the instances only:
  MaxTime, MaxVersion, MaxCredential, MaxFaults

Never == 0            \* the null timestamp; real times start at 1
Time == 1..MaxTime
Versions == 0..MaxVersion   \* 0: no profile
Credentials == 1..MaxCredential

ASSUME ConstantsAssumption ==
  /\ {MaxTime, MaxVersion, MaxCredential, MaxFaults, MaxFutureSkew, LockTtl} \subseteq Nat
  /\ MaxTime >= 1 /\ MaxCredential >= 1
  /\ Limits \subseteq [online : Nat, offline : Nat]
  /\ \A l \in Limits : l.online < l.offline   \* validateConfiguration
  /\ SiteOf \in [Points -> Sites]
  /\ NoDevice \notin Devices /\ NoPoint \notin Points
  /\ NoMessage \notin Messages /\ NoEvaluator \notin Evaluators
  /\ \A m \in Messages : m.device \in Devices /\ m.at \in Nat \ {Never}
  /\ HistoryDays \subseteq Nat

VARIABLES
  clock,        \* the server's time
  device,       \* the Device rows
  activePoints, \* the points whose isActive flag is set
  active,       \* the version of each site's active profile
  limits,       \* its onlineWithinMinutes and offlineAfterMinutes
  widened,      \* history: the marked points whose limits were widened since a run saw them
  telemetry,    \* the Telemetry rows, by sample
  assessment,   \* the RiskAssessment rows, by sample
  state,        \* the CurrentMonitoringPointState rows, by point
  announced,    \* the last RISK_STATUS_CHANGED audit row and outbox event of a point
  request,      \* the ingestion handlers in progress
  evaluator,    \* the evaluator runs in progress
  lock,         \* the run that owns the evaluator's lock
  faults        \* restarts and database failures so far

vars == <<clock, device, activePoints, active, limits, widened, telemetry, assessment,
          state, announced, request, evaluator, lock, faults>>

limitVars == <<limits, widened>>
adminVars == <<activePoints, active, limitVars>>
procVars == <<request, evaluator, lock, faults>>
rowVars == <<telemetry, assessment, state, announced>>

-----------------------------------------------------------------------------
(* Rows.                                                                   *)

Unregistered == [status |-> "ABSENT", point |-> NoPoint, credential |-> 0,
                 lastAt |-> Never, lastSeen |-> Never]
NoTelemetry == [point |-> NoPoint, receivedAt |-> Never]
NoLimits == [online |-> 0, offline |-> 0]   \* of a site without a profile
NoAssessment == [version |-> 0, point |-> NoPoint, risk |-> "UNKNOWN", current |-> FALSE]
\* A point without a row reads as UNKNOWN everywhere (previous?.serverRisk ?? 'UNKNOWN').
NoState == [device |-> NoDevice, risk |-> "UNKNOWN", connectivity |-> "UNKNOWN",
            latest |-> NoMessage, version |-> 0, counts |-> NoCounts]
NotAnnounced == [from |-> "UNKNOWN", to |-> "UNKNOWN"]
Idle == [stage |-> "idle", msg |-> NoMessage, credential |-> 0,
         receivedAt |-> Never, version |-> 0, counts |-> NoCounts]
NotRunning == [running |-> FALSE, time |-> Never, todo |-> {}]

Enabled(d) == device[d].status = "ENABLED"
\* Mutation: a device that has not reported yet does not count.
OccupiedByReporting(p) ==
  \E d \in Devices : Enabled(d) /\ device[d].point = p /\ device[d].lastSeen # Never
Occupied(p) == \E d \in Devices : Enabled(d) /\ device[d].point = p
Marked(p) == state[p].connectivity \in {"DELAYED", "OFFLINE"}
Stored(m) == telemetry[m].receivedAt # Never
ProfileOf(v) == IF v = 0 THEN Missing ELSE Profiles[v]

\* Mutation: SELECT without FOR UPDATE.
RowNotLocked(d) == FALSE
\* The Device row is held by a transaction that has not committed yet.
Locked(d) == \E r \in Requests : request[r].stage = "open" /\ request[r].msg.device = d

\* Mutation: the return to SAFE is not announced.
AnnounceAlarms(p, from, to) ==
  announced' = IF from = to \/ to = "SAFE" THEN announced
               ELSE [announced EXCEPT ![p] = [from |-> from, to |-> to]]
\* enqueueRiskTransition and its audit row: written only for a change of level.
Announce(p, from, to) ==
  announced' = IF from = to THEN announced
               ELSE [announced EXCEPT ![p] = [from |-> from, to |-> to]]

\* Mutation: a point that loses its device or its connection keeps its level.
WithdrawConnectivity(row, connectivity) == [row EXCEPT !.connectivity = connectivity]
\* A point's row when its level is withdrawn.
Withdrawn(row, connectivity) ==
  [row EXCEPT !.risk = "UNKNOWN", !.connectivity = connectivity, !.counts = NoCounts]

-----------------------------------------------------------------------------
(* Ingestion: DeviceAuthGuard, TelemetryService.ingest,                    *)
(* RiskEvaluationService.evaluateAcceptedTelemetry.                        *)

\* The guard verifies the secret and keeps the hash it saw; ingest() checks
\* the sample's timestamp and stamps serverReceivedAt, before any lock.  A
\* sample may come any number of times, late and out of order: the device
\* retries what was not acknowledged.
Receive(r, m) ==
  /\ request[r] = Idle
  /\ Enabled(m.device)
  /\ m.at <= clock + MaxFutureSkew
  /\ request' = [request EXCEPT ![r] =
                   [stage |-> "received", msg |-> m,
                    credential |-> device[m.device].credential,
                    receivedAt |-> clock, version |-> 0, counts |-> NoCounts]]
  /\ UNCHANGED <<clock, device, adminVars, rowVars, evaluator, lock, faults>>

\* Mutation: the credential is not compared again.
PrincipalIsEnabled(r) == Enabled(request[r].msg.device)
\* validateCurrentDevice, on the locked row.
PrincipalIsCurrent(r) ==
  LET d == request[r].msg.device
  IN  Enabled(d) /\ device[d].credential = request[r].credential

SameMessageId(m, n) == m.device = n.device /\ m.id = n.id
SameSequence(m, n) == m.device = n.device /\ m.seq = n.seq

\* Mutation: the sequence is not looked up.
AlreadyUsedById(m) == \E n \in Messages : Stored(n) /\ SameMessageId(m, n)
AlreadyUsed(m) ==
  \E n \in Messages : Stored(n) /\ (SameMessageId(m, n) \/ SameSequence(m, n))

\* 401, 403, 409 IDEMPOTENCY_CONFLICT or SEQUENCE_CONFLICT, or the answer to
\* an exact duplicate: the transaction leaves every row as it was.
Reject(r) ==
  /\ request[r].stage = "received"
  /\ ~Locked(request[r].msg.device)
  /\ ~PrincipalIsCurrent(r) \/ AlreadyUsed(request[r].msg)
  /\ request' = [request EXCEPT ![r] = Idle]
  /\ UNCHANGED <<clock, device, adminVars, rowVars, evaluator, lock, faults>>

\* The transaction holds the Device row, its checks have passed and it has
\* read the active profile of the device's site and the point's state.
Begin(r) ==
  LET m == request[r].msg
      p == device[m.device].point
  IN  /\ request[r].stage = "received"
      /\ ~Locked(m.device)
      /\ PrincipalIsCurrent(r)
      /\ ~AlreadyUsed(m)
      /\ request' = [request EXCEPT ![r] =
           [@ EXCEPT !.stage = "open", !.version = active[SiteOf[p]],
                     !.counts = state[p].counts]]
      /\ UNCHANGED <<clock, device, adminVars, rowVars, evaluator, lock, faults>>

\* Mutation: the order of arrival decides.
EverySampleIsLatest(m) == TRUE
IsLatest(m) == device[m.device].lastAt = Never \/ m.at >= device[m.device].lastAt

\* Mutation: the last transaction to commit wins.
LastToCommit(s, t) == s
LaterOf(s, t) == IF s > t THEN s ELSE t

\* Mutation: the active version is read again for the row.
NextStateRereadsVersion(p, m, version, counts, risk) ==
  [device |-> m.device, risk |-> risk, connectivity |-> "ONLINE", latest |-> m,
   version |-> active[SiteOf[p]],
   counts |-> NextCounts(FALSE, counts, risk, m.firmware)]
\* evaluateRisk() for a sample that becomes the point's latest one.
NextState(p, m, version, counts, risk) ==
  LET sameContext == state[p].device = m.device /\ state[p].version = version
  IN  [device |-> m.device, risk |-> risk, connectivity |-> "ONLINE",
       latest |-> m, version |-> version,
       counts |-> NextCounts(sameContext, counts, risk, m.firmware)]

Commit(r, wetDays) ==
  LET m == request[r].msg
      p == device[m.device].point
      version == request[r].version
      risk == Classify(Enabled(m.device), ProfileOf(version), m.reading, wetDays)
      latest == IsLatest(m)
      receivedAt == request[r].receivedAt
  IN  /\ request[r].stage = "open"
      /\ telemetry' = [telemetry EXCEPT ![m] = [point |-> p, receivedAt |-> receivedAt]]
      /\ device' = [device EXCEPT ![m.device] =
           [@ EXCEPT !.lastSeen = LaterOf(receivedAt, device[m.device].lastSeen),
                     !.lastAt = IF latest THEN m.at ELSE device[m.device].lastAt]]
      /\ assessment' = IF version = 0 THEN assessment
           ELSE [assessment EXCEPT ![m] = [version |-> version, point |-> p,
                                           risk |-> risk, current |-> latest]]
      /\ IF latest
         THEN /\ state' = [state EXCEPT ![p] = NextState(p, m, version, request[r].counts, risk)]
              /\ Announce(p, state[p].risk, risk)
         ELSE UNCHANGED <<state, announced>>
      /\ request' = [request EXCEPT ![r] = Idle]
      /\ UNCHANGED <<clock, adminVars, evaluator, lock, faults>>

-----------------------------------------------------------------------------
(* The connectivity evaluator and its lock.                                *)

\* runOnce(new Date()): the states of enabled devices, read outside any
\* transaction, are worked through with the time at which the run started.
Candidates ==
  {c \in Points \X Devices : state[c[1]].device = c[2] /\ Enabled(c[2])}

StartEvaluation(e) ==
  /\ ~evaluator[e].running
  /\ lock = NoEvaluator
  /\ lock' = e
  /\ evaluator' = [evaluator EXCEPT ![e] =
                     [running |-> TRUE, time |-> clock, todo |-> Candidates]]
  /\ UNCHANGED <<clock, device, adminVars, rowVars, request, faults>>

\* Mutation: only points that are ONLINE are looked at.
StillOnline(p, d) ==
  /\ Enabled(d) /\ device[d].point = p /\ state[p].device = d
  /\ state[p].latest # NoMessage /\ active[SiteOf[p]] # 0
  /\ state[p].connectivity = "ONLINE"
\* The candidate is still what it was when it was listed, its site has a
\* profile, and its connectivity is not what its latest sample says.
StillCandidate(p, d) ==
  /\ Enabled(d)
  /\ device[d].point = p
  /\ state[p].device = d
  /\ state[p].latest # NoMessage
  /\ active[SiteOf[p]] # 0

\* Mutations: the age is taken from the device's clock, or from lastSeenAt.
TargetFromDeviceTime(e, p) ==
  EvaluateConnectivity(state[p].latest.at, evaluator[e].time,
                       limits[SiteOf[p]].online, limits[SiteOf[p]].offline)
TargetFromLastSeen(e, p) ==
  EvaluateConnectivity(device[state[p].device].lastSeen, evaluator[e].time,
                       limits[SiteOf[p]].online, limits[SiteOf[p]].offline)
TargetConnectivity(e, p) ==
  EvaluateConnectivity(telemetry[state[p].latest].receivedAt, evaluator[e].time,
                       limits[SiteOf[p]].online, limits[SiteOf[p]].offline)

\* Back ONLINE, the level is left as it is; DELAYED or OFFLINE makes it UNKNOWN.
EvaluateCandidate(e, p, d) ==
  LET target == TargetConnectivity(e, p)
      changed == StillCandidate(p, d) /\ state[p].connectivity # target
  IN  /\ evaluator[e].running
      /\ <<p, d>> \in evaluator[e].todo
      /\ ~Locked(d)
      /\ evaluator' = [evaluator EXCEPT ![e] = [@ EXCEPT !.todo = evaluator[e].todo \ {<<p, d>>}]]
      /\ \/ /\ ~changed
            /\ UNCHANGED <<state, announced>>
         \/ /\ changed /\ target = "ONLINE"
            /\ state' = [state EXCEPT ![p] = [@ EXCEPT !.connectivity = target]]
            /\ UNCHANGED announced
         \/ /\ changed /\ target # "ONLINE"
            /\ state' = [state EXCEPT ![p] = Withdrawn(state[p], target)]
            /\ Announce(p, state[p].risk, "UNKNOWN")
      /\ widened' = IF StillCandidate(p, d) THEN widened \ {p} ELSE widened
      /\ UNCHANGED <<clock, device, activePoints, active, limits, telemetry, assessment,
                     request, lock, faults>>

\* release(key, token): only the owner's token releases the lock.
Release(e) == lock' = IF lock = e THEN NoEvaluator ELSE lock

FinishEvaluation(e) ==
  /\ evaluator[e].running
  /\ evaluator[e].todo = {}
  /\ evaluator' = [evaluator EXCEPT ![e] = NotRunning]
  /\ Release(e)
  /\ UNCHANGED <<clock, device, adminVars, rowVars, request, faults>>

\* A transaction of the run fails: the scheduler logs it, the rest is skipped.
FailEvaluation(e) ==
  /\ evaluator[e].running
  /\ faults < MaxFaults
  /\ faults' = faults + 1
  /\ evaluator' = [evaluator EXCEPT ![e] = NotRunning]
  /\ Release(e)
  /\ UNCHANGED <<clock, device, adminVars, rowVars, request>>

\* setTimeout(release, ttl): the run goes on without its lock.
ExpireLock ==
  /\ lock # NoEvaluator
  /\ clock >= evaluator[lock].time + LockTtl
  /\ lock' = NoEvaluator
  /\ UNCHANGED <<clock, device, adminVars, rowVars, request, evaluator, faults>>

-----------------------------------------------------------------------------
(* Administration.                                                         *)

RegisterDevice(d, p) ==
  /\ device[d] = Unregistered
  /\ p \in activePoints
  /\ ~Occupied(p)
  /\ device' = [device EXCEPT ![d] =
                  [status |-> "ENABLED", point |-> p, credential |-> 1,
                   lastAt |-> Never, lastSeen |-> Never]]
  /\ UNCHANGED <<clock, adminVars, rowVars, procVars>>

\* DevicesService.update with another point.  The point it leaves forgets it
\* and the foreign key Telemetry(deviceId, monitoringPointId) carries its
\* rows along (ON UPDATE CASCADE).
MoveDevice(d, p) ==
  LET old == device[d].point
  IN  /\ device[d] # Unregistered
      /\ ~Locked(d)
      /\ p # old
      /\ p \in activePoints
      /\ \A o \in Devices \ {d} : ~(Enabled(o) /\ device[o].point = p)
      /\ device' = [device EXCEPT ![d] = [@ EXCEPT !.point = p]]
      /\ telemetry' = [m \in Messages |->
           IF m.device = d /\ Stored(m) THEN [telemetry[m] EXCEPT !.point = p]
           ELSE telemetry[m]]
      /\ state' = IF state[old].device = d
                  THEN [state EXCEPT ![old] =
                          [Withdrawn(state[old], "UNKNOWN") EXCEPT !.device = NoDevice,
                                                                   !.latest = NoMessage]]
                  ELSE state
      /\ UNCHANGED <<clock, adminVars, assessment, announced, procVars>>

RotateCredential(d) ==
  /\ Enabled(d)
  /\ ~Locked(d)
  /\ device[d].credential < MaxCredential
  /\ device' = [device EXCEPT ![d] = [@ EXCEPT !.credential = device[d].credential + 1]]
  /\ UNCHANGED <<clock, adminVars, rowVars, procVars>>

DisableDevice(d) ==
  LET p == device[d].point
  IN  /\ Enabled(d)
      /\ ~Locked(d)
      /\ device' = [device EXCEPT ![d] = [@ EXCEPT !.status = "DISABLED"]]
      /\ state' = IF state[p].device = d
                  THEN [state EXCEPT ![p] = Withdrawn(state[p], "UNKNOWN")]
                  ELSE state
      /\ UNCHANGED <<clock, adminVars, telemetry, assessment, announced, procVars>>

\* MonitoringPointsService.update of isActive.
DeactivatePoint(p) ==
  /\ p \in activePoints
  /\ ~Occupied(p)
  /\ activePoints' = activePoints \ {p}
  /\ UNCHANGED <<clock, device, active, limitVars, rowVars, procVars>>

ReactivatePoint(p) ==
  /\ p \notin activePoints
  /\ activePoints' = activePoints \cup {p}
  /\ UNCHANGED <<clock, device, active, limitVars, rowVars, procVars>>

\* SingleDeviceService.updateProfile, under the Site's lock: a new version
\* replaces the active one and keeps its limits; a site without a profile is
\* refused.
UpdateProfile(s) ==
  /\ active[s] \in 1..(MaxVersion - 1)
  /\ active' = [active EXCEPT ![s] = @ + 1]
  /\ UNCHANGED <<clock, device, activePoints, limitVars, rowVars, procVars>>

\* The marks of these points were made by narrower limits than l.
MarkedByNarrower(s, l) ==
  {p \in Points : /\ SiteOf[p] = s /\ Marked(p)
                  /\ l.online > limits[s].online \/ l.offline > limits[s].offline}

\* RiskProfileService.replace, under the same lock: it may also create the
\* first version, it sets limits of its own, and it starts the counters of the
\* site's points anew.  What the evaluator has marked stays marked.
ReplaceProfile(s, l) ==
  /\ active[s] < MaxVersion
  /\ active' = [active EXCEPT ![s] = @ + 1]
  /\ limits' = [limits EXCEPT ![s] = l]
  /\ widened' = widened \cup MarkedByNarrower(s, l)
  /\ state' = [p \in Points |->
       IF SiteOf[p] = s THEN [state[p] EXCEPT !.counts = NoCounts] ELSE state[p]]
  /\ UNCHANGED <<clock, device, activePoints, telemetry, assessment, announced, procVars>>

-----------------------------------------------------------------------------
(* Time, and the loss of the process.                                      *)

Tick ==
  /\ clock < MaxTime
  /\ clock' = clock + 1
  /\ UNCHANGED <<device, adminVars, rowVars, procVars>>

\* The API process stops: open transactions roll back, requests are lost
\* and the in-process lock goes with the runs.
Restart ==
  /\ faults < MaxFaults
  /\ faults' = faults + 1
  /\ request' = [r \in Requests |-> Idle]
  /\ evaluator' = [e \in Evaluators |-> NotRunning]
  /\ lock' = NoEvaluator
  /\ UNCHANGED <<clock, device, adminVars, rowVars>>

Init ==
  /\ clock = 1
  /\ device = [d \in Devices |-> Unregistered]
  /\ activePoints = Points
  /\ active \in [Sites -> Versions \cap {0, 1}]
  /\ limits \in [Sites -> Limits \cup {NoLimits}]
  /\ \A s \in Sites : limits[s] = NoLimits <=> active[s] = 0
  /\ widened = {}
  /\ telemetry = [m \in Messages |-> NoTelemetry]
  /\ assessment = [m \in Messages |-> NoAssessment]
  /\ state = [p \in Points |-> NoState]
  /\ announced = [p \in Points |-> NotAnnounced]
  /\ request = [r \in Requests |-> Idle]
  /\ evaluator = [e \in Evaluators |-> NotRunning]
  /\ lock = NoEvaluator
  /\ faults = 0

Ingestion ==
  \E r \in Requests :
    \/ \E m \in Messages : Receive(r, m)
    \/ Reject(r)
    \/ Begin(r)
    \/ \E wetDays \in HistoryDays : Commit(r, wetDays)

Evaluation ==
  \/ \E e \in Evaluators :
       \/ StartEvaluation(e)
       \/ \E p \in Points, d \in Devices : EvaluateCandidate(e, p, d)
       \/ FinishEvaluation(e)
       \/ FailEvaluation(e)
  \/ ExpireLock

Administration ==
  \/ \E d \in Devices :
       \/ \E p \in Points : RegisterDevice(d, p) \/ MoveDevice(d, p)
       \/ RotateCredential(d)
       \/ DisableDevice(d)
  \/ \E p \in Points : DeactivatePoint(p) \/ ReactivatePoint(p)
  \/ \E s \in Sites : UpdateProfile(s) \/ \E l \in Limits : ReplaceProfile(s, l)

Next == Ingestion \/ Evaluation \/ Administration \/ Tick \/ Restart

Spec == Init /\ [][Next]_vars
\* The scheduler's timer keeps firing, a transaction ends, and time passes.
Fairness ==
  /\ WF_vars(Tick)
  /\ \A r \in Requests :
       WF_vars(Reject(r) \/ Begin(r) \/ \E wetDays \in HistoryDays : Commit(r, wetDays))
  /\ WF_vars(\E e \in Evaluators : StartEvaluation(e))
  /\ \A e \in Evaluators :
       /\ WF_vars(\E p \in Points, d \in Devices : EvaluateCandidate(e, p, d))
       /\ WF_vars(FinishEvaluation(e))
  /\ WF_vars(ExpireLock)

FairSpec == Spec /\ Fairness

-----------------------------------------------------------------------------
(* What each row may be.                                                   *)

DeviceRow == {Unregistered} \cup
  [status : {"ENABLED", "DISABLED"}, point : Points, credential : Nat,
   lastAt : Nat, lastSeen : Nat]
TelemetryRow == [point : Points \cup {NoPoint}, receivedAt : Nat]
AssessmentRow == [version : Nat, point : Points \cup {NoPoint}, risk : Levels, current : BOOLEAN]
CountsRow == [watch : Nat, danger : Nat, mismatch : Nat]
StateRow == [device : Devices \cup {NoDevice}, risk : Levels, connectivity : Connectivity,
             latest : Messages \cup {NoMessage}, version : Nat, counts : CountsRow]
RequestRow == {Idle} \cup
  [stage : {"received", "open"}, msg : Messages, credential : Nat,
   receivedAt : Nat \ {Never}, version : Nat, counts : CountsRow]
EvaluatorRow == [running : BOOLEAN, time : Nat, todo : SUBSET (Points \X Devices)]

\* Every variable has the type of the rows it stands for.
TypeOK ==
  /\ clock \in Nat \ {0}
  /\ device \in [Devices -> DeviceRow]
  /\ activePoints \in SUBSET Points
  /\ active \in [Sites -> Nat]
  /\ limits \in [Sites -> Limits \cup {NoLimits}]
  /\ \A s \in Sites : limits[s] = NoLimits <=> active[s] = 0
  /\ widened \in SUBSET Points
  /\ telemetry \in [Messages -> TelemetryRow]
  /\ assessment \in [Messages -> AssessmentRow]
  /\ state \in [Points -> StateRow]
  /\ announced \in [Points -> [from : Levels, to : Levels]]
  /\ request \in [Requests -> RequestRow]
  /\ evaluator \in [Evaluators -> EvaluatorRow]
  /\ lock \in Evaluators \cup {NoEvaluator}
  /\ faults \in Nat

-----------------------------------------------------------------------------
(* Invariants.                                                             *)

\* At most one device is ENABLED at a point, and only at an active one.
SingleOccupant ==
  \A d \in Devices : Enabled(d) =>
    /\ device[d].point \in activePoints
    /\ \A o \in Devices : Enabled(o) /\ device[o].point = device[d].point => o = d

\* A level other than UNKNOWN is only ever shown for an enabled device that
\* is still at the point and ONLINE, and comes from its newest sample by
\* device time: whatever moves, disables, late samples and evaluator runs
\* came in between.
KnownLevelIsLive ==
  \A p \in Points : state[p].risk # "UNKNOWN" =>
    LET d == state[p].device
        m == state[p].latest
    IN  /\ d \in Devices /\ m \in Messages
        /\ Enabled(d) /\ device[d].point = p
        /\ state[p].connectivity = "ONLINE"
        /\ m.device = d /\ Stored(m)
        /\ \A n \in Messages : Stored(n) /\ n.device = d => n.at <= m.at

\* A shown level is the one that was assessed for the sample it names, with
\* the profile version it names, and that assessment was of the current state.
LevelMatchesAssessment ==
  \A p \in Points : state[p].risk # "UNKNOWN" =>
    LET a == assessment[state[p].latest]
    IN  /\ a.current
        /\ a.risk = state[p].risk
        /\ a.version = state[p].version
        /\ a.point = p

\* A shown level has been audited and put in the outbox: the last transition
\* announced for the point led to it.
KnownLevelIsAnnounced ==
  \A p \in Points : state[p].risk # "UNKNOWN" => announced[p].to = state[p].risk

\* lastTelemetryAt and lastSeenAt are the maxima over the device's rows,
\* although samples commit in any order of both clocks.
DeviceTimesAreMaxima ==
  \A d \in Devices :
    LET rows == {m \in Messages : Stored(m) /\ m.device = d}
    IN  /\ rows = {} => device[d].lastAt = Never /\ device[d].lastSeen = Never
        /\ rows # {} => /\ \E m \in rows : device[d].lastAt = m.at
                        /\ \E m \in rows : device[d].lastSeen = telemetry[m].receivedAt
        /\ \A m \in rows : /\ m.at <= device[d].lastAt
                           /\ telemetry[m].receivedAt <= device[d].lastSeen

\* However often a sample is sent, and by how many handlers at once, it is
\* stored once: no two rows of a device share a messageId or a sequence.
StoredOnce ==
  \A m, n \in Messages :
    Stored(m) /\ Stored(n) /\ (SameMessageId(m, n) \/ SameSequence(m, n)) => m = n

\* A point is not marked DELAYED or OFFLINE while the sample it shows is
\* fresher than that by the server's clock and the limits in force, whichever
\* profile was active when it was marked: but for a replacement that widened
\* the limits and that no run has seen yet.
NotMarkedEarly ==
  \A p \in Points \ widened :
    LET age == clock - telemetry[state[p].latest].receivedAt
    IN  /\ state[p].connectivity = "DELAYED" => age > limits[SiteOf[p]].online
        /\ state[p].connectivity = "OFFLINE" => age > limits[SiteOf[p]].offline

\* A counter that is not zero is the one of the level shown, although levels
\* are set and counters reset and continued by different transactions.
CountsFollowLevel ==
  \A p \in Points :
    /\ state[p].counts.watch > 0 => state[p].risk = "WATCH"
    /\ state[p].counts.danger > 0 => state[p].risk = "DANGER"

-----------------------------------------------------------------------------
(* Action properties.                                                      *)

\* A late sample never moves a point's projection back in device time.
ProjectionNeverGoesBack ==
  [][\A p \in Points :
       /\ state[p].latest # NoMessage /\ state'[p].latest # NoMessage
       /\ state'[p].device = state[p].device
       => state'[p].latest.at >= state[p].latest.at]_state

\* A sample authenticated before its device was disabled or its credential
\* rotated is not stored afterwards.
OnlyCurrentPrincipalStores ==
  [][\A m \in Messages : ~Stored(m) /\ Stored(m)' =>
       \E r \in Requests :
         /\ request[r].msg = m
         /\ Enabled(m.device)
         /\ request[r].credential = device[m.device].credential]_telemetry

\* A point never falls back to an older profile version, though the version
\* is read before it is written and new versions become active in between.
ProfileVersionNeverGoesBack ==
  [][\A p \in Points : state'[p].version >= state[p].version]_state

\* The evaluator run that owns the lock only makes a point's connectivity
\* worse (ONLINE, DELAYED, OFFLINE), whatever the run before it saw: not so a
\* run that has outlived its lock, nor the first one after a replacement of
\* the profile widened the limits.
Freshness(c) == CASE c = "ONLINE" -> 2 [] c = "DELAYED" -> 1 [] OTHER -> 0
ConnectivityOnlyDecays ==
  [][\A e \in Evaluators, p \in Points :
       lock = e /\ p \notin widened /\ evaluator'[e].todo # evaluator[e].todo
       => Freshness(state'[p].connectivity) <= Freshness(state[p].connectivity)]_vars

-----------------------------------------------------------------------------
(* Liveness.                                                               *)

\* A device that falls silent is noticed: once its point's latest sample has
\* outlived offlineAfterMinutes the point becomes OFFLINE, unless a newer
\* sample, a move or a disable comes first, or a replacement of the profile
\* puts the limit out of reach (of the instance's horizon).
OutlivesLimit(p, m) == active[SiteOf[p]] # 0 /\ telemetry[m].receivedAt + limits[SiteOf[p]].offline < MaxTime
SilentDeviceIsNoticed ==
  \A p \in Points, m \in Messages :
    (/\ state[p].latest = m
     /\ state[p].connectivity \in {"ONLINE", "DELAYED"}
     /\ OutlivesLimit(p, m))
    ~> \/ state[p].latest # m
       \/ state[p].connectivity \in {"OFFLINE", "UNKNOWN"}
       \/ ~OutlivesLimit(p, m)

-----------------------------------------------------------------------------
(* What the documentation says and the code does not do.                   *)

\* The migration's comment on Telemetry_deviceId_monitoringPointId_fkey:
\* "Telemetry retains the monitoring point assignment used at ingestion time."
TelemetryRetainsPoint ==
  [][\A m \in Messages : Stored(m) => telemetry'[m].point = telemetry[m].point]_telemetry

\* docs/30: one notification "when current server risk changes", "any known
\* state -> UNKNOWN" among the changes.
EveryChangeAnnounced == \A p \in Points : announced[p].to = state[p].risk

\* docs/05 section 10: with the lock only one evaluator is effective.
OneEvaluator ==
  \A e, f \in Evaluators : evaluator[e].running /\ evaluator[f].running => e = f

-----------------------------------------------------------------------------
(* The inductive invariant behind the safety properties.                   *)

\* What a handler carries from one of its steps to the next stays true of
\* the rows it has locked.
OpenIsProtected ==
  \A r \in Requests :
    request[r].stage = "open" =>
      LET m == request[r].msg
          p == device[m.device].point
      IN  /\ PrincipalIsCurrent(r)
          /\ ~AlreadyUsed(m)
          /\ request[r].version \in state[p].version..active[SiteOf[p]]
          /\ \A q \in Requests :
               request[q].stage = "open" /\ request[q].msg.device = m.device => q = r

\* No stored sample of a device is newer than its lastTelemetryAt.
NothingNewer ==
  \A m \in Messages : Stored(m) => m.at <= device[m.device].lastAt

\* What a point's state refers to exists.
StateRefersToRows ==
  \A p \in Points :
    /\ state[p].latest # NoMessage => /\ Stored(state[p].latest)
                                      /\ state[p].latest.device = state[p].device
    /\ state[p].version <= active[SiteOf[p]]

\* KnownLevelIsLive in the form that a step preserves.
KnownLevelInv ==
  \A p \in Points : state[p].risk # "UNKNOWN" =>
    LET d == state[p].device
        m == state[p].latest
    IN  /\ d \in Devices /\ m \in Messages
        /\ Enabled(d) /\ device[d].point = p
        /\ state[p].connectivity = "ONLINE"
        /\ m.device = d
        /\ m.at = device[d].lastAt

IInv ==
  /\ TypeOK
  /\ SingleOccupant
  /\ OpenIsProtected
  /\ NothingNewer
  /\ StateRefersToRows
  /\ KnownLevelInv
  /\ LevelMatchesAssessment
  /\ KnownLevelIsAnnounced
  /\ StoredOnce
=============================================================================
