----------------------- MODULE NotificationWorkerProofs -----------------------
(* The outbox worker keeps its invariant and implements Delivery, for any   *)
(* number of workers and events, any lease and any limit of attempts.       *)
EXTENDS NotificationWorker, FiniteSetTheorems, TLAPS

(* What a worker holds at each of its stages.                               *)
LEMMA HandType ==
  ASSUME TypeOK, NEW w \in Workers
  PROVE  /\ worker[w].stage \in {"stopped", "ready", "claimed", "answered"}
         /\ worker[w].stage = "ready" => worker[w].left \in Nat \ {0}
         /\ worker[w].stage \in {"claimed", "answered"} =>
              /\ worker[w].item \in Events /\ worker[w].attempt \in Nat
              /\ worker[w].age \in Nat /\ worker[w].left \in Nat
         /\ worker[w].stage = "answered" => worker[w].code \in Codes /\ worker[w].pause \in Nat
  BY DEF TypeOK, WorkerType, Stopped

(* A row's status and its number of attempts.                               *)
LEMMA RowFields ==
  ASSUME TypeOK, NEW e \in Events
  PROVE  /\ row[e].status \in {"ABSENT", "PENDING", "PROCESSING", "SENT", "FAILED"}
         /\ row[e].attempts \in Nat /\ row[e].age \in Nat
         /\ row[e].error \in Codes \cup {"none"} /\ copies[e] \in Nat
  BY DEF TypeOK, RowType

(* The codes of a result; only a message that was sent is delivered.        *)
LEMMA CodesAre ==
  /\ Codes = {"payload", "delivered", "unreadable", "network", "busy", "refused"}
  /\ \A reaction \in Reactions : /\ reaction.sent \in {0, 1} /\ reaction.code \in Codes
                                 /\ reaction.code = "delivered" => reaction.sent = 1
<1>1. \A c : c \in Codes <=>
          c \in {"payload", "delivered", "unreadable", "network", "busy", "refused"}
  BY DEF Codes, Reactions
<1>2. QED
  BY <1>1 DEF Reactions

(* Every step keeps the types.                                              *)
LEMMA TypeStep == TypeOK /\ Next => TypeOK'
<1> SUFFICES ASSUME TypeOK, Next PROVE TypeOK'
  OBVIOUS
<1>1. ASSUME NEW e \in Events, Enqueue(e) PROVE TypeOK'
  BY <1>1, RowFields DEF Enqueue, TypeOK, RowType
<1>2. ASSUME NEW w \in Workers, StartDrain(w) PROVE TypeOK'
  BY <1>2, WorkerAssumption DEF StartDrain, TypeOK, WorkerType, Ready
<1>3. ASSUME NEW w \in Workers, NEW e \in Events, Claim(w, e) PROVE TypeOK'
  <2>1. worker[w].left \in Nat \ {0} /\ row[e].attempts \in Nat
    BY <1>3, HandType, RowFields DEF Claim
  <2>2. row' \in [Events -> RowType]
    <3>1. [row[e] EXCEPT !.status = "PROCESSING", !.attempts = AttemptOf(e), !.age = 0] \in RowType
      <4>1. AttemptOf(e) \in Nat /\ row[e] \in RowType
        BY <2>1 DEF TypeOK, AttemptOf
      <4>2. QED
        BY <4>1 DEF RowType
    <3>2. QED
      BY <1>3, <3>1 DEF Claim, TypeOK
  <2>3. [stage |-> "claimed", item |-> e, attempt |-> AttemptOf(e), age |-> 0,
         left |-> worker[w].left - 1]
          \in [stage : {"claimed"}, item : Events, attempt : Nat, age : Nat, left : Nat]
    <3>1. worker[w].left - 1 \in Nat /\ AttemptOf(e) \in Nat
      BY <2>1 DEF AttemptOf
    <3>2. QED
      BY <3>1
  <2>4. QED
    BY <1>3, <2>2, <2>3 DEF Claim, TypeOK, WorkerType
<1>4. ASSUME NEW w \in Workers, ClaimNothing(w) PROVE TypeOK'
  <2>1. /\ worker' = [worker EXCEPT ![w] = Stopped]
        /\ UNCHANGED <<row, due, copies, faults>>
    BY <1>4 DEF ClaimNothing
  <2>2. QED
    BY <2>1 DEF TypeOK, WorkerType
<1>5. ASSUME NEW w \in Workers, NEW reaction \in Reactions, NEW pause \in RetryAfter \cup {0},
             SendMessage(w, reaction, pause)
      PROVE  TypeOK'
  <2>1. pause \in Nat /\ reaction.code \in Codes /\ reaction.sent \in Nat
    <3>1. pause \in Nat
      BY WorkerAssumption
    <3>2. reaction.code \in Codes /\ reaction.sent \in {0, 1}
      BY CodesAre
    <3>3. QED
      BY <3>1, <3>2
  <2>2. copies' \in [Events -> Nat]
    <3>1. worker[w].item \in Events /\ copies[worker[w].item] + reaction.sent \in Nat
      BY <1>5, <2>1, HandType, RowFields DEF SendMessage
    <3>2. QED
      BY <1>5, <3>1 DEF SendMessage, TypeOK
  <2>3. [stage |-> "answered", item |-> worker[w].item, attempt |-> worker[w].attempt,
         age |-> worker[w].age, left |-> worker[w].left, code |-> reaction.code,
         pause |-> pause]
          \in [stage : {"answered"}, item : Events, attempt : Nat, age : Nat, left : Nat,
               code : Codes, pause : Nat]
    BY <1>5, <2>1, HandType DEF SendMessage
  <2>4. worker' \in [Workers -> WorkerType] /\ row' = row /\ faults' = faults
    <3>1. /\ worker' = [worker EXCEPT ![w] =
               [stage |-> "answered", item |-> worker[w].item, attempt |-> worker[w].attempt,
                age |-> worker[w].age, left |-> worker[w].left, code |-> reaction.code,
                pause |-> pause]]
          /\ row' = row /\ faults' = faults
      BY <1>5 DEF SendMessage, Answered
    <3>2. worker \in [Workers -> WorkerType]
      BY DEF TypeOK
    <3>3. QED
      BY <2>3, <3>1, <3>2 DEF WorkerType
  <2>5. QED
    BY <2>2, <2>4 DEF TypeOK
<1>6. ASSUME NEW w \in Workers, RejectPayload(w) PROVE TypeOK'
  BY <1>6, HandType, CodesAre DEF RejectPayload, Answered, TypeOK, WorkerType
<1>7. ASSUME NEW w \in Workers, RecordResult(w) PROVE TypeOK'
  <2>1. /\ worker[w].code \in Codes /\ worker[w].item \in Events
        /\ AfterItem(worker[w].left) \in WorkerType
    BY <1>7, HandType DEF RecordResult, AfterItem, Ready, WorkerType
  <2>2. worker' \in [Workers -> WorkerType] /\ copies' = copies /\ faults' = faults
    BY <1>7, <2>1 DEF RecordResult, TypeOK
  <2>3. row' \in [Events -> RowType]
    <3>1. CASE StillProcessing(worker[w].item)
      <4>1. PICK status \in {"SENT", "PENDING", "FAILED"}, error \in Codes \cup {"none"} :
              row' = [row EXCEPT ![worker[w].item] =
                        [@ EXCEPT !.status = status, !.age = 0, !.error = error]]
        BY <1>7, <2>1, <3>1, Zenon DEF RecordResult
      <4>2. [row[worker[w].item] EXCEPT !.status = status, !.age = 0, !.error = error] \in RowType
        BY <2>1 DEF TypeOK, RowType
      <4>3. QED
        BY <2>1, <4>1, <4>2 DEF TypeOK
    <3>2. CASE ~StillProcessing(worker[w].item)
      BY <1>7, <3>2 DEF RecordResult, TypeOK
    <3>3. QED
      BY <3>1, <3>2
  <2>4. QED
    BY <2>2, <2>3 DEF TypeOK
<1>8. ASSUME NEW w \in Workers, Abort(w) PROVE TypeOK'
  BY <1>8 DEF Abort, TypeOK, WorkerType
<1>9. ASSUME Tick PROVE TypeOK'
  <2>1. ASSUME NEW e \in Events
        PROVE  row'[e] \in RowType
    BY <1>9, WorkerAssumption, RowFields DEF Tick, TypeOK, RowType, AtMost
  <2>2. ASSUME NEW w \in Workers
        PROVE  worker'[w] \in WorkerType
    <3>1. CASE worker[w].stage = "claimed"
      BY <1>9, <3>1, HandType, WorkerAssumption DEF Tick, TypeOK, WorkerType, AtMost, Stopped
    <3>2. CASE worker[w].stage = "answered"
      BY <1>9, <3>2, HandType, WorkerAssumption DEF Tick, TypeOK, WorkerType, AtMost, Stopped
    <3>3. CASE worker[w].stage \notin {"claimed", "answered"}
      BY <1>9, <3>3 DEF Tick, TypeOK
    <3>4. QED
      BY <3>1, <3>2, <3>3
  <2>3. QED
    BY <1>9, <2>1, <2>2 DEF Tick, TypeOK
<1>10. QED
  BY <1>1, <1>2, <1>3, <1>4, <1>5, <1>6, <1>7, <1>8, <1>9 DEF Next, Drain

(* The messages of an event that are out count as attempts of its row.      *)
LEMMA InFlightIsFinite ==
  ASSUME NEW e PROVE IsFiniteSet(InFlight(e)) /\ Cardinality(InFlight(e)) \in Nat
<1>1. InFlight(e) \in SUBSET Workers
  BY DEF InFlight
<1>2. IsFiniteSet(InFlight(e))
  BY <1>1, FS_Subset, WorkerAssumption
<1>3. QED
  BY <1>2, FS_CardinalityType

(* What RecordResult makes of the rows: nothing but status and error of the *)
(* item's row, and that only while the row is still PROCESSING.             *)
LEMMA RecordedRow ==
  ASSUME TypeOK, NEW w \in Workers, RecordResult(w), NEW e \in Events
  PROVE  /\ row'[e].attempts = row[e].attempts
         /\ ~(worker[w].item = e /\ StillProcessing(e)) => row'[e] = row[e]
         /\ worker[w].item = e /\ StillProcessing(e) =>
              /\ row'[e].status \in {"SENT", "PENDING", "FAILED"}
              /\ row'[e].status = "SENT" <=> Delivered(w)
              /\ ~Delivered(w) => row'[e].error = worker[w].code
              /\ row'[e].status = "FAILED" => ~(worker[w].code \in Retryable /\ ~LastAttempt(w))
<1>1. CASE ~StillProcessing(worker[w].item)
  BY <1>1 DEF RecordResult
<1>2. CASE StillProcessing(worker[w].item)
  <2> DEFINE retry == ~Delivered(w) /\ worker[w].code \in Retryable /\ ~LastAttempt(w)
             status == IF Delivered(w) THEN "SENT" ELSE IF retry THEN "PENDING" ELSE "FAILED"
             error == IF Delivered(w) THEN "none" ELSE worker[w].code
  <2>1. row' = [row EXCEPT ![worker[w].item] =
                  [@ EXCEPT !.status = status, !.age = 0, !.error = error]]
    BY <1>2, Zenon DEF RecordResult
  <2>2. /\ status \in {"SENT", "PENDING", "FAILED"} /\ (status = "SENT" <=> Delivered(w))
        /\ ~Delivered(w) => error = worker[w].code
        /\ status = "FAILED" => ~(worker[w].code \in Retryable /\ ~LastAttempt(w))
    OBVIOUS
  <2> HIDE DEF status, error
  <2>3. QED
    BY <1>2, <2>1, <2>2 DEF TypeOK, RowType
<1>3. QED
  BY <1>1, <1>2

(* A hand keeps telling the truth about its row, an attempt its worth.      *)
LEMMA HandStep == IInv /\ Next => HandIsTrue'
<1> SUFFICES ASSUME IInv, Next PROVE HandIsTrue'
  OBVIOUS
<1> USE DEF IInv
<1>0. TypeOK'
  BY TypeStep
<1>1. ASSUME NEW e \in Events, Enqueue(e) PROVE HandIsTrue'
  <2>1. \A f \in Events : /\ row[f].status # "ABSENT" => row'[f] = row[f]
                          /\ copies'[f] = copies[f]
    BY <1>1 DEF Enqueue, TypeOK, NoRow
  <2>2. QED
    BY <1>1, <2>1, HandType DEF Enqueue, HandIsTrue
<1>2. ASSUME NEW w \in Workers, StartDrain(w) PROVE HandIsTrue'
  BY <1>2 DEF StartDrain, HandIsTrue, TypeOK, Ready
<1>3. ASSUME NEW w \in Workers, NEW e \in Events, Claim(w, e) PROVE HandIsTrue'
  <2>1. \A f \in Events : /\ row'[f].attempts >= row[f].attempts
                          /\ row[f].status # "ABSENT" => row'[f].status # "ABSENT"
    BY <1>3, RowFields DEF Claim, TypeOK, RowType, AttemptOf
  <2>2. /\ row'[e].status # "ABSENT" /\ row'[e].attempts = AttemptOf(e)
        /\ AttemptOf(e) \in Nat /\ copies' = copies
    BY <1>3, RowFields DEF Claim, TypeOK, RowType, AttemptOf
  <2>3. ASSUME NEW v \in Workers, v # w
        PROVE  worker'[v] = worker[v]
    BY <1>3, <2>3 DEF Claim, TypeOK
  <2>4. worker'[w].stage = "claimed" /\ worker'[w].item = e /\ worker'[w].attempt = AttemptOf(e)
    BY <1>3 DEF Claim, TypeOK
  <2>5. ASSUME NEW v \in Workers, v # w, worker[v].stage \in {"claimed", "answered"}
        PROVE  worker[v].attempt <= row'[worker[v].item].attempts
    <3>1. /\ worker[v].item \in Events /\ worker[v].attempt \in Nat
          /\ worker[v].attempt <= row[worker[v].item].attempts
      BY <2>5, HandType DEF HandIsTrue
    <3>2. \A f \in Events : row[f].attempts \in Nat /\ row'[f].attempts \in Nat
      BY <1>0, RowFields DEF TypeOK, RowType
    <3>3. QED
      BY <2>1, <3>1, <3>2
  <2>6. QED
    BY <2>1, <2>2, <2>3, <2>4, <2>5, HandType DEF HandIsTrue
<1>4. ASSUME NEW w \in Workers, ClaimNothing(w) PROVE HandIsTrue'
  BY <1>4 DEF ClaimNothing, HandIsTrue, TypeOK, Stopped
<1>5. ASSUME NEW w \in Workers, NEW reaction \in Reactions, NEW pause \in RetryAfter \cup {0},
             SendMessage(w, reaction, pause)
      PROVE  HandIsTrue'
  <2>1. /\ worker[w].item \in Events /\ reaction.sent \in {0, 1}
        /\ reaction.code = "delivered" => reaction.sent = 1
    BY <1>5, HandType, CodesAre DEF SendMessage
  <2>2. \A f \in Events : copies[f] > 0 => copies'[f] > 0
    BY <1>5, <2>1, RowFields DEF SendMessage, TypeOK
  <2>3. reaction.code = "delivered" => copies'[worker[w].item] > 0
    BY <1>5, <2>1, RowFields DEF SendMessage, TypeOK
  <2>4. \A v \in Workers : v # w => worker'[v] = worker[v]
    BY <1>5 DEF SendMessage, Answered, TypeOK
  <2>5. /\ worker'[w].item = worker[w].item /\ worker'[w].attempt = worker[w].attempt
        /\ worker'[w].code = reaction.code /\ row' = row
    BY <1>5 DEF SendMessage, Answered, TypeOK
  <2>6. worker[w].stage = "claimed"
    BY <1>5 DEF SendMessage
  <2>7. QED
    BY <2>2, <2>3, <2>4, <2>5, <2>6, HandType DEF HandIsTrue
<1>6. ASSUME NEW w \in Workers, RejectPayload(w) PROVE HandIsTrue'
  BY <1>6 DEF RejectPayload, Answered, HandIsTrue, TypeOK
<1>7. ASSUME NEW w \in Workers, RecordResult(w) PROVE HandIsTrue'
  <2>1. \A f \in Events : /\ row'[f].attempts = row[f].attempts
                          /\ row[f].status # "ABSENT" => row'[f].status # "ABSENT"
    BY <1>7, RecordedRow, Zenon DEF IInv
  <2>2. \A v \in Workers : v # w => worker'[v] = worker[v]
    <3>1. worker' = [worker EXCEPT ![w] = AfterItem(worker[w].left)]
      BY <1>7 DEF RecordResult
    <3>2. QED
      BY <3>1 DEF TypeOK
  <2>3. worker'[w].stage \in {"stopped", "ready"} /\ copies' = copies
    <3>1. worker' = [worker EXCEPT ![w] = AfterItem(worker[w].left)] /\ copies' = copies
      BY <1>7 DEF RecordResult
    <3>2. QED
      BY <3>1 DEF TypeOK, AfterItem, Stopped, Ready
  <2>4. ASSUME NEW v \in Workers, worker'[v].stage \in {"claimed", "answered"}
        PROVE  v # w /\ worker'[v] = worker[v]
    BY <2>2, <2>3, <2>4
  <2>5. QED
    BY <2>1, <2>3, <2>4, HandType DEF HandIsTrue
<1>8. ASSUME NEW w \in Workers, Abort(w) PROVE HandIsTrue'
  BY <1>8 DEF Abort, HandIsTrue, TypeOK, Stopped
<1>9. ASSUME Tick PROVE HandIsTrue'
  <2>1. \A f \in Events : /\ row'[f].attempts = row[f].attempts
                          /\ row'[f].status = row[f].status
    BY <1>9 DEF Tick, TypeOK, RowType
  <2>2. \A v \in Workers : /\ worker'[v].stage = worker[v].stage
                           /\ worker'[v].item = worker[v].item
                           /\ worker'[v].attempt = worker[v].attempt
                           /\ worker'[v].code = worker[v].code
    BY <1>9 DEF Tick, TypeOK, WorkerType
  <2>3. copies' = copies
    BY <1>9 DEF Tick
  <2>4. QED
    BY <2>1, <2>2, <2>3, HandType DEF HandIsTrue
<1>10. QED
  BY <1>1, <1>2, <1>3, <1>4, <1>5, <1>6, <1>7, <1>8, <1>9 DEF Next, Drain

(* Claiming counts an attempt before the message goes out, and only a       *)
(* claimed message does.                                                    *)
LEMMA CountStep ==
  IInv /\ Next => (\A e \in Events : copies[e] + Cardinality(InFlight(e)) <= row[e].attempts)'
<1> SUFFICES ASSUME IInv, Next, NEW e \in Events
             PROVE  copies'[e] + Cardinality(InFlight(e)') <= row'[e].attempts
  OBVIOUS
<1> USE DEF IInv
<1>0. /\ row[e].attempts \in Nat /\ copies[e] \in Nat
      /\ IsFiniteSet(InFlight(e)) /\ Cardinality(InFlight(e)) \in Nat
      /\ copies[e] + Cardinality(InFlight(e)) <= row[e].attempts
  BY RowFields, InFlightIsFinite
(* Nothing more is out, no copy more and no attempt less. *)
<1>a. ASSUME InFlight(e)' \subseteq InFlight(e), copies'[e] = copies[e],
             row'[e].attempts = row[e].attempts
      PROVE  copies'[e] + Cardinality(InFlight(e)') <= row'[e].attempts
  <2>1. InFlight(e)' \in SUBSET InFlight(e)
    BY <1>a
  <2>2. IsFiniteSet(InFlight(e)') /\ Cardinality(InFlight(e)') <= Cardinality(InFlight(e))
    BY <1>0, <2>1, FS_Subset
  <2>3. Cardinality(InFlight(e)') \in Nat
    BY <2>2, FS_CardinalityType
  <2>4. QED
    BY <1>0, <1>a, <2>2, <2>3
<1>1. ASSUME NEW f \in Events, Enqueue(f)
      PROVE  copies'[e] + Cardinality(InFlight(e)') <= row'[e].attempts
  BY <1>1, <1>a DEF Enqueue, InFlight, TypeOK, NoRow
<1>2. ASSUME NEW w \in Workers, StartDrain(w)
      PROVE  copies'[e] + Cardinality(InFlight(e)') <= row'[e].attempts
  BY <1>2, <1>a DEF StartDrain, InFlight, TypeOK, Ready
<1>3. ASSUME NEW w \in Workers, NEW f \in Events, Claim(w, f)
      PROVE  copies'[e] + Cardinality(InFlight(e)') <= row'[e].attempts
  <2>1. CASE f = e
    <3>1. InFlight(e)' = InFlight(e) \cup {w} /\ w \notin InFlight(e)
      BY <1>3, <2>1 DEF Claim, InFlight, TypeOK
    <3>2. Cardinality(InFlight(e) \cup {w}) = Cardinality(InFlight(e)) + 1
      BY <1>0, <3>1, FS_AddElement
    <3>3. row'[e].attempts = row[e].attempts + 1 /\ copies' = copies
      BY <1>3, <2>1 DEF Claim, AttemptOf, TypeOK, RowType
    <3>4. QED
      BY <1>0, <3>1, <3>2, <3>3
  <2>2. CASE f # e
    BY <1>3, <1>a, <2>2 DEF Claim, InFlight, TypeOK
  <2>3. QED
    BY <2>1, <2>2
<1>4. ASSUME NEW w \in Workers, ClaimNothing(w)
      PROVE  copies'[e] + Cardinality(InFlight(e)') <= row'[e].attempts
  BY <1>4, <1>a DEF ClaimNothing, InFlight, TypeOK, Stopped
<1>5. ASSUME NEW w \in Workers, NEW reaction \in Reactions, NEW pause \in RetryAfter \cup {0},
             SendMessage(w, reaction, pause)
      PROVE  copies'[e] + Cardinality(InFlight(e)') <= row'[e].attempts
  <2>1. reaction.sent \in {0, 1} /\ row' = row
    BY <1>5, CodesAre DEF SendMessage
  <2>2. CASE worker[w].item = e
    <3>1. InFlight(e)' = InFlight(e) \ {w} /\ w \in InFlight(e)
      BY <1>5, <2>2 DEF SendMessage, Answered, InFlight, TypeOK
    <3>2. Cardinality(InFlight(e) \ {w}) = Cardinality(InFlight(e)) - 1
      BY <1>0, <3>1, FS_RemoveElement
    <3>3. copies'[e] = copies[e] + reaction.sent
      BY <1>5, <2>2 DEF SendMessage, TypeOK
    <3>4. QED
      BY <1>0, <2>1, <3>1, <3>2, <3>3
  <2>3. CASE worker[w].item # e
    BY <1>5, <1>a, <2>1, <2>3 DEF SendMessage, Answered, InFlight, TypeOK
  <2>4. QED
    BY <2>2, <2>3
<1>6. ASSUME NEW w \in Workers, RejectPayload(w)
      PROVE  copies'[e] + Cardinality(InFlight(e)') <= row'[e].attempts
  BY <1>6, <1>a DEF RejectPayload, Answered, InFlight, TypeOK
<1>7. ASSUME NEW w \in Workers, RecordResult(w)
      PROVE  copies'[e] + Cardinality(InFlight(e)') <= row'[e].attempts
  <2>1. /\ worker' = [worker EXCEPT ![w] = AfterItem(worker[w].left)]
        /\ copies' = copies
    BY <1>7 DEF RecordResult
  <2>2. InFlight(e)' \subseteq InFlight(e)
    BY <2>1 DEF InFlight, TypeOK, AfterItem, Stopped, Ready
  <2>3. QED
    BY <1>7, <1>a, <2>1, <2>2, RecordedRow DEF RecordResult
<1>8. ASSUME NEW w \in Workers, Abort(w)
      PROVE  copies'[e] + Cardinality(InFlight(e)') <= row'[e].attempts
  BY <1>8, <1>a DEF Abort, InFlight, TypeOK, Stopped
<1>9. ASSUME Tick
      PROVE  copies'[e] + Cardinality(InFlight(e)') <= row'[e].attempts
  <2>1. InFlight(e)' \subseteq InFlight(e)
    BY <1>9 DEF Tick, InFlight, TypeOK, WorkerType
  <2>2. row'[e].attempts = row[e].attempts /\ copies' = copies
    BY <1>9 DEF Tick, TypeOK, RowType
  <2>3. QED
    BY <1>a, <2>1, <2>2
<1>10. QED
  BY <1>1, <1>2, <1>3, <1>4, <1>5, <1>6, <1>7, <1>8, <1>9 DEF Next, Drain

(* Only a worker on its last attempt gives up what it could retry.          *)
LEMMA GiveUpStep == IInv /\ Next => GivesUpOnlyAtLimit'
<1> SUFFICES ASSUME IInv, Next, NEW e \in Events,
                    row'[e].status = "FAILED", row'[e].error \in Retryable
             PROVE  row'[e].attempts >= MaxAttempts
  BY DEF GivesUpOnlyAtLimit
<1> USE DEF IInv
<1>1. ASSUME row'[e] = row[e] PROVE row'[e].attempts >= MaxAttempts
  BY <1>1 DEF GivesUpOnlyAtLimit
<1>2. ASSUME NEW w \in Workers, RecordResult(w), worker[w].item = e, StillProcessing(e)
      PROVE  row'[e].attempts >= MaxAttempts
  <2>1. worker[w].stage = "answered" /\ worker[w].attempt <= row[e].attempts
    BY <1>2 DEF RecordResult, HandIsTrue
  <2>2. /\ row'[e].status = "FAILED" /\ row'[e].attempts = row[e].attempts
        /\ worker[w].code # "delivered" => row'[e].error = worker[w].code
    BY <1>2, RecordedRow
  <2>3. LastAttempt(w)
    BY <1>2, <2>2, RecordedRow DEF Delivered
  <2>4. row[e].attempts \in Nat /\ worker[w].attempt \in Nat /\ MaxAttempts \in Nat
    BY <1>2, <2>1, HandType, RowFields, WorkerAssumption
  <2>5. QED
    BY <2>1, <2>2, <2>3, <2>4 DEF LastAttempt
<1>3. CASE \E w \in Workers : RecordResult(w)
  <2>1. PICK w \in Workers : RecordResult(w)
    BY <1>3
  <2>2. CASE worker[w].item = e /\ StillProcessing(e)
    BY <1>2, <2>1, <2>2
  <2>3. CASE ~(worker[w].item = e /\ StillProcessing(e))
    BY <1>1, <2>1, <2>3, RecordedRow
  <2>4. QED
    BY <2>2, <2>3
<1>4. CASE Tick
  BY <1>4 DEF Tick, TypeOK, RowType, GivesUpOnlyAtLimit
<1>5. CASE \E f \in Events : Enqueue(f)
  BY <1>1, <1>5 DEF Enqueue, TypeOK, RowType
<1>6. CASE \E w \in Workers : StartDrain(w) \/ ClaimNothing(w) \/ RejectPayload(w) \/ Abort(w)
  BY <1>1, <1>6 DEF StartDrain, ClaimNothing, RejectPayload, Abort
<1>7. CASE \E w \in Workers, reaction \in Reactions, pause \in RetryAfter \cup {0} :
             SendMessage(w, reaction, pause)
  BY <1>1, <1>7 DEF SendMessage
<1>8. CASE \E w \in Workers, f \in Events : Claim(w, f)
  BY <1>1, <1>8 DEF Claim, TypeOK, RowType
<1>9. QED
  BY <1>3, <1>4, <1>5, <1>6, <1>7, <1>8 DEF Next, Drain

-----------------------------------------------------------------------------

(* The invariant holds whatever Telegram answers, however slow a worker is  *)
(* and wherever a process dies.                                             *)
THEOREM Invariance == Spec => []IInv
<1>1. Init => IInv
  <2> SUFFICES ASSUME Init PROVE IInv
    OBVIOUS
  <2>1. TypeOK
    BY DEF Init, TypeOK, RowType, NoRow, WorkerType
  <2>2. HandIsTrue /\ GivesUpOnlyAtLimit
    BY DEF Init, HandIsTrue, GivesUpOnlyAtLimit, NoRow, Stopped
  <2>3. ASSUME NEW e \in Events PROVE copies[e] + Cardinality(InFlight(e)) <= row[e].attempts
    <3>1. InFlight(e) = {}
      BY DEF Init, InFlight, Stopped
    <3>2. QED
      BY <3>1, FS_EmptySet DEF Init, NoRow
  <2>4. QED
    BY <2>1, <2>2, <2>3 DEF IInv
<1>2. IInv /\ [Next]_vars => IInv'
  <2>1. IInv /\ Next => IInv'
    BY TypeStep, HandStep, CountStep, GiveUpStep DEF IInv
  <2>2. IInv /\ UNCHANGED vars => IInv'
    BY DEF vars, IInv, TypeOK, HandIsTrue, InFlight, GivesUpOnlyAtLimit
  <2>3. QED
    BY <2>1, <2>2
<1>3. QED
  BY <1>1, <1>2, PTL DEF Spec

(* The chat never has more copies of an event than the row has attempts.    *)
THEOREM CopiesAreCounted == Spec => []CopiesWithinAttempts
<1>1. IInv => CopiesWithinAttempts
  <2> SUFFICES ASSUME IInv, NEW e \in Events PROVE copies[e] <= row[e].attempts
    BY DEF CopiesWithinAttempts
  <2>1. /\ copies[e] \in Nat /\ row[e].attempts \in Nat /\ Cardinality(InFlight(e)) \in Nat
        /\ copies[e] + Cardinality(InFlight(e)) <= row[e].attempts
    BY RowFields, InFlightIsFinite DEF IInv
  <2>2. QED
    BY <2>1
<1>2. QED
  BY Invariance, <1>1, PTL

(* What can be retried is retried as long as attempts are left.             *)
THEOREM RetriesAreUsed == Spec => []GivesUpOnlyAtLimit
<1>1. IInv => GivesUpOnlyAtLimit
  BY DEF IInv
<1>2. QED
  BY Invariance, <1>1, PTL

-----------------------------------------------------------------------------
(* Every step of the worker is a step of Delivery or leaves the outcome and *)
(* the chat alone.                                                          *)
PhaseOf == [e \in Events |-> Phase(e)]

(* Between PENDING and PROCESSING an event is queued.                       *)
LEMMA PhaseKept ==
  ASSUME \A e \in Events : row'[e].status = row[e].status
                          \/ {row[e].status, row'[e].status} \subseteq {"PENDING", "PROCESSING"}
  PROVE  PhaseOf' = PhaseOf
  BY DEF PhaseOf, Phase

(* A step of the worker is one of Delivery or stutters.                     *)
LEMMA StepMaps == IInv /\ [Next]_vars => [D!Next]_(D!vars)
<1> SUFFICES ASSUME IInv, [Next]_vars PROVE [D!Next]_(D!vars)
  OBVIOUS
<1> USE DEF IInv
<1>a. D!vars = <<PhaseOf, copies>>
  BY DEF D!vars, PhaseOf
<1>b. ASSUME PhaseOf' = PhaseOf, copies' = copies PROVE [D!Next]_(D!vars)
  BY <1>a, <1>b DEF PhaseOf, D!vars
<1>1. ASSUME NEW e \in Events, Enqueue(e) PROVE [D!Next]_(D!vars)
  <2>1. PhaseOf' = [PhaseOf EXCEPT ![e] = "queued"] /\ PhaseOf[e] = "absent"
    <3>1. row[e].status = "ABSENT" /\ row'[e].status = "PENDING"
      BY <1>1 DEF Enqueue, TypeOK, RowType, NoRow
    <3>2. \A f \in Events : f # e => row'[f] = row[f]
      BY <1>1 DEF Enqueue, TypeOK
    <3>3. QED
      BY <3>1, <3>2 DEF PhaseOf, Phase
  <2>2. D!Enqueue(e)
    BY <1>1, <2>1 DEF Enqueue, D!Enqueue, PhaseOf
  <2>3. QED
    BY <2>2 DEF D!Next
<1>2. ASSUME NEW w \in Workers, NEW reaction \in Reactions, NEW pause \in RetryAfter \cup {0},
             SendMessage(w, reaction, pause)
      PROVE  [D!Next]_(D!vars)
  <2>1. /\ worker[w].item \in Events /\ row[worker[w].item].status # "ABSENT"
        /\ row' = row /\ reaction.sent \in {0, 1}
        /\ copies' = [copies EXCEPT ![worker[w].item] = @ + reaction.sent]
    <3>1. worker[w].stage = "claimed"
      BY <1>2 DEF SendMessage
    <3>2. worker[w].item \in Events /\ row[worker[w].item].status # "ABSENT"
      BY <3>1, HandType DEF HandIsTrue
    <3>3. QED
      BY <1>2, <3>2, CodesAre DEF SendMessage
  <2>2. PhaseOf' = PhaseOf /\ PhaseOf[worker[w].item] # "absent"
    BY <2>1, RowFields DEF PhaseOf, Phase
  <2>3. CASE reaction.sent = 0
    <3>1. copies' = copies
      BY <2>1, <2>3, RowFields DEF TypeOK
    <3>2. QED
      BY <1>b, <2>2, <3>1
  <2>4. CASE reaction.sent = 1
    <3>1. D!Deliver(worker[w].item)
      BY <2>1, <2>2, <2>4 DEF D!Deliver, PhaseOf
    <3>2. QED
      BY <2>1, <3>1 DEF D!Next
  <2>5. QED
    BY <2>1, <2>3, <2>4
<1>3. ASSUME NEW w \in Workers, RecordResult(w) PROVE [D!Next]_(D!vars)
  <2> DEFINE e == worker[w].item
  <2>1. e \in Events /\ copies' = copies /\ worker[w].stage = "answered"
    BY <1>3, HandType DEF RecordResult
  <2>2. ASSUME NEW f \in Events, f # e \/ ~StillProcessing(f) PROVE row'[f] = row[f]
    BY <1>3, <2>2, RecordedRow
  <2>3. CASE StillProcessing(e) /\ row'[e].status # "PENDING"
    <3>1. /\ row'[e].status \in {"SENT", "FAILED"}
          /\ row'[e].status = "SENT" => copies[e] > 0
      BY <1>3, <2>1, <2>3, RecordedRow DEF HandIsTrue, Delivered
    <3>2. PhaseOf[e] = "queued"
      BY <2>1, <2>3 DEF StillProcessing, PhaseOf, Phase
    <3>3. PhaseOf' = [PhaseOf EXCEPT ![e] = IF row'[e].status = "SENT" THEN "sent" ELSE "failed"]
      BY <2>1, <2>2, <3>1 DEF PhaseOf, Phase
    <3>4. D!Settle(e)
      BY <2>1, <3>1, <3>2, <3>3 DEF D!Settle, PhaseOf
    <3>5. QED
      BY <2>1, <3>4 DEF D!Next
  <2>4. CASE ~(StillProcessing(e) /\ row'[e].status # "PENDING")
    <3>1. \A f \in Events : row'[f].status = row[f].status
                            \/ {row[f].status, row'[f].status} \subseteq {"PENDING", "PROCESSING"}
      BY <2>2, <2>4 DEF StillProcessing
    <3>2. QED
      BY <1>b, <2>1, <3>1, PhaseKept
  <2>5. QED
    BY <2>3, <2>4
<1>4. ASSUME NEW w \in Workers, NEW e \in Events, Claim(w, e) PROVE [D!Next]_(D!vars)
  <2>1. \A f \in Events : row'[f].status = row[f].status
                          \/ {row[f].status, row'[f].status} \subseteq {"PENDING", "PROCESSING"}
    BY <1>4 DEF Claim, EarliestDue, Claimable, TypeOK, RowType
  <2>2. QED
    BY <1>4, <1>b, <2>1, PhaseKept DEF Claim
<1>5. ASSUME Tick PROVE [D!Next]_(D!vars)
  <2>1. \A f \in Events : row'[f].status = row[f].status
    BY <1>5 DEF Tick, TypeOK, RowType
  <2>2. QED
    BY <1>5, <1>b, <2>1, PhaseKept DEF Tick
<1>6. ASSUME row' = row, copies' = copies PROVE [D!Next]_(D!vars)
  BY <1>6, <1>b, PhaseKept
<1>7. CASE UNCHANGED vars
  BY <1>6, <1>7 DEF vars
<1>8. CASE \E w \in Workers : StartDrain(w) \/ ClaimNothing(w) \/ RejectPayload(w) \/ Abort(w)
  BY <1>6, <1>8 DEF StartDrain, ClaimNothing, RejectPayload, Abort
<1>9. QED
  BY <1>1, <1>2, <1>3, <1>4, <1>5, <1>7, <1>8 DEF Next, Drain

(* The worker is an implementation of what the outbox promises.             *)
THEOREM Implementation == Spec => ImplementsDelivery
<1>1. Init => D!Init
  BY DEF Init, D!Init, Phase, NoRow
<1>2. Spec => [][D!Next]_(D!vars)
  BY Invariance, StepMaps, PTL DEF Spec
<1>3. QED
  BY <1>1, <1>2, PTL DEF Spec, ImplementsDelivery, D!Spec
=============================================================================
