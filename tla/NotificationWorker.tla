-------------------------- MODULE NotificationWorker --------------------------
(***************************************************************************)
(* The Telegram outbox: the NotificationOutbox rows that risk transitions  *)
(* leave behind, and the worker that drains them                           *)
(* (notification-worker.service.ts, telegram-client.service.ts).  Each     *)
(* API process has one worker; two overlap while one process replaces      *)
(* another, and the claim is written for that.                             *)
(*                                                                         *)
(* Times are kept as distances: due is the time left until nextAttemptAt   *)
(* (negative once it has passed), age the time since processingStartedAt.  *)
(* Time itself is unbounded; distances are told apart up to Horizon.       *)
(***************************************************************************)
EXTENDS Integers, FiniteSets

CONSTANTS
  Events, Workers,
  Malformed,          \* events whose payload does not validate
  MaxAttempts, Lease, BatchSize, MaxDelay,   \* as in the code
  RetryAfter,         \* what Telegram may ask for; 0: it asks for nothing
  \* Bounds of the instances only:
  Horizon, MaxAge, MaxFaults

ASSUME WorkerAssumption ==
  /\ {MaxAttempts, BatchSize, Lease, MaxDelay} \subseteq Nat \ {0}
  /\ {Horizon, MaxAge, MaxFaults} \subseteq Nat /\ RetryAfter \subseteq Nat
  /\ \A pause \in RetryAfter \cup {MaxDelay} : MaxAge >= pause + Horizon
  /\ Malformed \subseteq Events /\ IsFiniteSet(Workers)

VARIABLES
  row,      \* the outbox rows
  due,      \* their nextAttemptAt
  copies,   \* messages that reached the chat, by event
  worker,   \* the drain in progress in each process
  faults    \* processes lost and database failures so far

vars == <<row, due, copies, worker, faults>>

NoRow == [status |-> "ABSENT", attempts |-> 0, age |-> 0, error |-> "none"]
Stopped == [stage |-> "stopped"]
Ready(left) == [stage |-> "ready", left |-> left]

AtLeast(low, x) == IF x < low THEN low ELSE x
AtMost(high, x) == IF x > high THEN high ELSE x

Retryable == {"busy", "network"}   \* 408, 429 and 5xx; fetch() threw

-----------------------------------------------------------------------------
(* enqueueRiskTransition, in the transaction that changes the level.       *)

\* nextAttemptAt = occurredAt, the time of the evaluation: at once.
Enqueue(e) ==
  /\ row[e] = NoRow
  /\ row' = [row EXCEPT ![e] = [@ EXCEPT !.status = "PENDING"]]
  /\ due' = [due EXCEPT ![e] = 0]
  /\ UNCHANGED <<copies, worker, faults>>

-----------------------------------------------------------------------------
(* drain() and runOnce().                                                  *)

\* The interval fires; running keeps a second drain out.
StartDrain(w) ==
  /\ worker[w] = Stopped
  /\ worker' = [worker EXCEPT ![w] = Ready(BatchSize)]
  /\ UNCHANGED <<row, due, copies, faults>>

\* Mutation: a worker that died keeps its row.
PendingOnly(e) == row[e].status = "PENDING" /\ due[e] <= 0
Claimable(e) ==
  \/ row[e].status = "PENDING" /\ due[e] <= 0
  \/ row[e].status = "PROCESSING" /\ row[e].age >= Lease

EarliestDue(e) == Claimable(e) /\ \A f \in Events : Claimable(f) => due[e] <= due[f]

\* Mutation: taking over a row is not an attempt of its own.
FirstAttemptCounts(e) == IF row[e].status = "PENDING" THEN row[e].attempts + 1 ELSE row[e].attempts
AttemptOf(e) == row[e].attempts + 1

\* claim(): ordered by nextAttemptAt; ties are broken by createdAt and id.
Claim(w, e) ==
  /\ worker[w].stage = "ready"
  /\ EarliestDue(e)
  /\ row' = [row EXCEPT ![e] =
               [@ EXCEPT !.status = "PROCESSING", !.attempts = AttemptOf(e), !.age = 0]]
  /\ worker' = [worker EXCEPT ![w] =
                  [stage |-> "claimed", item |-> e, attempt |-> AttemptOf(e),
                   age |-> 0, left |-> worker[w].left - 1]]
  /\ UNCHANGED <<due, copies, faults>>

\* There is nothing to claim, or another process claims it first.
ClaimNothing(w) ==
  /\ worker[w].stage = "ready"
  /\ \/ \A e \in Events : ~Claimable(e)
     \/ \E v \in Workers \ {w} : worker[v].stage = "claimed" /\ worker[v].age = 0
  /\ worker' = [worker EXCEPT ![w] = Stopped]
  /\ UNCHANGED <<row, due, copies, faults>>

Answered(w, code, pause) ==
  worker' = [worker EXCEPT ![w] =
               [stage |-> "answered", item |-> worker[w].item, attempt |-> worker[w].attempt,
                age |-> worker[w].age, left |-> worker[w].left, code |-> code, pause |-> pause]]

\* What Telegram did with a message and what sendMessage makes of it:
\* nothing but the code distinguishes an answer that was lost with the
\* connection from a request that was.  A 200 whose body cannot be read
\* (readResponse swallows the error) has a code that is not retried.
Reactions ==
  {[sent |-> 1, code |-> "delivered"], [sent |-> 1, code |-> "unreadable"],
   [sent |-> 1, code |-> "network"], [sent |-> 0, code |-> "network"],
   [sent |-> 0, code |-> "busy"], [sent |-> 0, code |-> "refused"]}

SendMessage(w, reaction, pause) ==
  LET e == worker[w].item
  IN  /\ worker[w].stage = "claimed"
      /\ e \notin Malformed
      /\ pause # 0 => reaction.code = "busy"
      /\ copies' = [copies EXCEPT ![e] = @ + reaction.sent]
      /\ Answered(w, reaction.code, pause)
      /\ UNCHANGED <<row, due, faults>>

RejectPayload(w) ==
  /\ worker[w].stage = "claimed"
  /\ worker[w].item \in Malformed
  /\ Answered(w, "payload", 0)
  /\ UNCHANGED <<row, due, copies, faults>>

RetryDelay(attempt) == AtMost(MaxDelay, 2 ^ (attempt - 1))

\* Mutation: the row is written whatever has become of it.
AnyRow(e) == TRUE
\* WHERE id = item.id AND status = 'PROCESSING'
StillProcessing(e) == row[e].status = "PROCESSING"

\* Mutation: gives up one attempt early.
LastButOne(w) == worker[w].attempt >= MaxAttempts - 1
LastAttempt(w) == worker[w].attempt >= MaxAttempts

Delivered(w) == worker[w].code = "delivered"

AfterItem(left) == IF left = 0 THEN Stopped ELSE Ready(left)

\* The row becomes SENT, FAILED or PENDING again; the retry is due a delay
\* after the claim, not after the answer.
RecordResult(w) ==
  LET e == worker[w].item
      code == worker[w].code
      delay == IF worker[w].pause = 0 THEN RetryDelay(worker[w].attempt) ELSE worker[w].pause
      retry == ~Delivered(w) /\ code \in Retryable /\ ~LastAttempt(w)
      status == IF Delivered(w) THEN "SENT" ELSE IF retry THEN "PENDING" ELSE "FAILED"
  IN  /\ worker[w].stage = "answered"
      /\ worker' = [worker EXCEPT ![w] = AfterItem(worker[w].left)]
      /\ IF StillProcessing(e)
         THEN /\ row' = [row EXCEPT ![e] =
                   [@ EXCEPT !.status = status, !.age = 0,
                             !.error = IF Delivered(w) THEN "none" ELSE code]]
              /\ due' = IF retry
                        THEN [due EXCEPT ![e] = AtLeast(-Horizon, delay - worker[w].age)]
                        ELSE due
         ELSE UNCHANGED <<row, due>>
      /\ UNCHANGED <<copies, faults>>

\* A statement of the drain fails, or the process is lost: the row it may
\* have claimed stays PROCESSING.
Abort(w) ==
  /\ worker[w] # Stopped
  /\ faults < MaxFaults
  /\ faults' = faults + 1
  /\ worker' = [worker EXCEPT ![w] = Stopped]
  /\ UNCHANGED <<row, due, copies>>

\* Distances grow with time, up to where they make no difference any more.
Tick ==
  /\ due' = [e \in Events |-> AtLeast(-Horizon, due[e] - 1)]
  /\ row' = [e \in Events |->
       IF row[e].status = "PROCESSING" THEN [row[e] EXCEPT !.age = AtMost(Lease, row[e].age + 1)]
       ELSE row[e]]
  /\ worker' = [w \in Workers |->
       IF worker[w].stage \in {"claimed", "answered"}
       THEN [worker[w] EXCEPT !.age = AtMost(MaxAge, worker[w].age + 1)]
       ELSE worker[w]]
  /\ UNCHANGED <<copies, faults>>

Init ==
  /\ row = [e \in Events |-> NoRow]
  /\ due = [e \in Events |-> 0]
  /\ copies = [e \in Events |-> 0]
  /\ worker = [w \in Workers |-> Stopped]
  /\ faults = 0

Drain(w) ==
  \/ StartDrain(w)
  \/ \E e \in Events : Claim(w, e)
  \/ ClaimNothing(w)
  \/ \E reaction \in Reactions, pause \in RetryAfter \cup {0} : SendMessage(w, reaction, pause)
  \/ RejectPayload(w)
  \/ RecordResult(w)

Next ==
  \/ \E e \in Events : Enqueue(e)
  \/ \E w \in Workers : Drain(w) \/ Abort(w)
  \/ Tick

Spec == Init /\ [][Next]_vars

\* The interval keeps firing, a drain goes on (fetch has a timeout) and time passes.
Fairness == WF_vars(Tick) /\ \A w \in Workers : WF_vars(Drain(w))
FairSpec == Spec /\ Fairness

-----------------------------------------------------------------------------
(* Properties.                                                             *)

Codes == {"payload"} \cup {reaction.code : reaction \in Reactions}

RowType ==
  [status : {"ABSENT", "PENDING", "PROCESSING", "SENT", "FAILED"}, attempts : Nat,
   age : Nat, error : Codes \cup {"none"}]
WorkerType ==
  {Stopped} \cup [stage : {"ready"}, left : Nat \ {0}]
  \cup [stage : {"claimed"}, item : Events, attempt : Nat, age : Nat, left : Nat]
  \cup [stage : {"answered"}, item : Events, attempt : Nat, age : Nat, left : Nat,
        code : Codes, pause : Nat]

\* Rows, drains and counters have the types of what they stand for.
TypeOK ==
  /\ row \in [Events -> RowType]
  /\ copies \in [Events -> Nat]
  /\ worker \in [Workers -> WorkerType]
  /\ faults \in Nat

\* Mapping to the promise of the outbox.
Phase(e) ==
  CASE row[e].status = "ABSENT" -> "absent" [] row[e].status = "SENT" -> "sent"
    [] row[e].status = "FAILED" -> "failed" [] OTHER -> "queued"
D == INSTANCE Delivery WITH phase <- [e \in Events |-> Phase(e)]

\* The worker implements Delivery: no event is SENT without a message in
\* the chat, and SENT and FAILED are final, whichever of two workers, slow
\* or taken over from, writes last.
ImplementsDelivery == D!Spec

\* Every message was paid for with an attempt: with lost answers, takeovers
\* and crashes the chat never has more copies of an event than its
\* attemptCount says.
CopiesWithinAttempts == \A e \in Events : copies[e] <= row[e].attempts

\* A row whose last error is one that is retried is only given up once the
\* attempts are used up.
GivesUpOnlyAtLimit ==
  \A e \in Events :
    row[e].status = "FAILED" /\ row[e].error \in Retryable => row[e].attempts >= MaxAttempts

\* Every event ends SENT or FAILED, though workers die with rows in their
\* hands (a finite number of times).
EveryEventIsSettled ==
  \A e \in Events : row[e].status = "PENDING" ~> row[e].status \in {"SENT", "FAILED"}

\* docs/30 section 7: "The worker retries network errors": an answer lost
\* after its header is one.
UnreadableIsRetried ==
  \A e \in Events :
    row[e].status = "FAILED" /\ row[e].error = "unreadable" => row[e].attempts >= MaxAttempts

-----------------------------------------------------------------------------
(* The inductive invariant behind them.                                    *)

InFlight(e) == {w \in Workers : worker[w].stage = "claimed" /\ worker[w].item = e}

\* What a worker holds in its hand is true of the row.
HandIsTrue ==
  \A w \in Workers : worker[w].stage \in {"claimed", "answered"} =>
    LET e == worker[w].item
    IN  /\ row[e].status # "ABSENT"
        /\ worker[w].attempt <= row[e].attempts
        /\ worker[w].stage = "answered" /\ worker[w].code = "delivered" => copies[e] > 0

IInv ==
  /\ TypeOK
  /\ HandIsTrue
  /\ \A e \in Events : copies[e] + Cardinality(InFlight(e)) <= row[e].attempts
  /\ GivesUpOnlyAtLimit
=============================================================================
