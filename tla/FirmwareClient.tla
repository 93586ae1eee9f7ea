---------------------------- MODULE FirmwareClient ----------------------------
(***************************************************************************)
(* The device: the loop that samples its sensors and enqueues readings     *)
(* (main.cpp, device_identity.cpp), and the task on the other core that    *)
(* sends the front of the queue (telemetry_client.cpp).                    *)
(*                                                                         *)
(* The task takes the spin lock; enqueue() does not, and looks at size_    *)
(* anew in each statement.  Its statements, and the two halves of ++size_  *)
(* and --size_, are therefore steps of their own.  The delay of a retry is *)
(* any time.                                                               *)
(***************************************************************************)
EXTENDS TelemetryEndpoint

CONSTANTS
  Capacity, MaxRetries,   \* TELEMETRY_QUEUE_CAPACITY, MAX_RETRIES
  AttemptValues,          \* values of the uint8_t that counts attempts
  MaxReadings             \* bound of the instance

Readings == 1..MaxReadings
Slots == 0..Capacity - 1

ASSUME FirmwareAssumption ==
  /\ Capacity \in Nat \ {0} /\ MaxReadings \in Nat
  /\ MaxRetries \in Nat /\ AttemptValues \in Nat /\ MaxRetries < AttemptValues

VARIABLES
  queue, size,   \* queue_ and size_
  loop,          \* where the loop is in enqueue()
  task,          \* where the task is
  boot, taken,   \* boots, and readings taken, so far
  sequence,      \* next sequence of this boot
  online,        \* networkAvailable()
  certified,     \* not (an https URL and no API_CA_CERT)
  begins,        \* http.begin() succeeds
  fate,          \* what became of each reading
  overlapped     \* readings enqueued while the task took another one out

life == <<boot, taken, sequence>>
network == <<online, certified, begins>>
firmware == <<queue, size, loop, task, life, network, fate, overlapped>>

NoBody == [id |-> 0, boot |-> 0, seq |-> 0, reading |-> 0]
EmptySlot == [sample |-> NoBody, body |-> NoBody, attempts |-> 0]

LoopIdle == [at |-> "idle", item |-> NoBody, read |-> 0]
TaskIdle == [at |-> "idle", item |-> EmptySlot, read |-> 0]

LoopAt(at) == loop.at = at
TaskAt(at) == task.at = at
LoopTo(at) == loop' = [loop EXCEPT !.at = at]
TaskTo(at) == task' = [task EXCEPT !.at = at]

-----------------------------------------------------------------------------
(* The loop                                                                *)

\* Mutation: one more.
FullLate == size > Capacity
Full == size >= Capacity

\* The clock is synchronized and the interval over: a sample of its own id
\* and the next sequence; enqueue() refuses it if the queue is full.
Sample ==
  LET id == taken + 1
      item == [id |-> id, boot |-> boot, seq |-> sequence, reading |-> id]
  IN  /\ LoopAt("idle") /\ id \in Readings
      /\ taken' = id
      /\ sequence' = sequence + 1
      /\ IF Full
         THEN fate' = [fate EXCEPT ![id] = "dropped"] /\ UNCHANGED loop
         ELSE /\ fate' = [fate EXCEPT ![id] = "queued"]
              /\ loop' = [at |-> "sample", item |-> item, read |-> 0]
      /\ overlapped' = IF TaskAt("read") \/ TaskAt("write") THEN overlapped \cup {id} ELSE overlapped
      /\ UNCHANGED <<queue, size, task, boot, network, endpoint>>

\* queue_[size_].sample = sample
WriteSample ==
  /\ LoopAt("sample") /\ LoopTo("body")
  /\ queue' = [queue EXCEPT ![size].sample = loop.item]
  /\ UNCHANGED <<size, task, life, network, fate, overlapped, endpoint>>

\* queue_[size_].body = telemetryJson(sample)
WriteBody ==
  /\ LoopAt("body") /\ LoopTo("attempts")
  /\ queue' = [queue EXCEPT ![size].body = loop.item]
  /\ UNCHANGED <<size, task, life, network, fate, overlapped, endpoint>>

\* queue_[size_].attempts = 0
WriteAttempts ==
  /\ LoopAt("attempts") /\ LoopTo("read")
  /\ queue' = [queue EXCEPT ![size].attempts = 0]
  /\ UNCHANGED <<size, task, life, network, fate, overlapped, endpoint>>

\* ++size_
ReadSize ==
  /\ LoopAt("read")
  /\ loop' = [loop EXCEPT !.at = "write", !.read = size]
  /\ UNCHANGED <<queue, size, task, life, network, fate, overlapped, endpoint>>

WriteSize ==
  /\ LoopAt("write") /\ loop' = LoopIdle
  /\ size' = loop.read + 1
  /\ UNCHANGED <<queue, task, life, network, fate, overlapped, endpoint>>

-----------------------------------------------------------------------------
(* The task                                                                *)

\* scheduleRetry() and removeIfMessage() do nothing if the front is another one.
IsFront(item) == size > 0 /\ queue[0].sample.id = item.sample.id

\* scheduleRetry() with one attempt more.
Retried ==
  IF IsFront(task.item)
  THEN [queue EXCEPT ![0].attempts = (task.item.attempts + 1) % AttemptValues]
  ELSE queue

\* Mutation: the last one is left.
Several == size > 1 /\ online
Sendable == size > 0 /\ online

\* runTask() finds the front due; sendFront() copies it under the lock.
Pick ==
  /\ TaskAt("idle") /\ Sendable
  /\ task' = [at |-> "send", item |-> queue[0], read |-> 0]
  /\ UNCHANGED <<queue, size, loop, life, network, fate, overlapped, endpoint>>

\* Without a certificate the front is deferred, and not counted as an attempt.
Defer ==
  /\ TaskAt("send") /\ ~certified
  /\ task' = TaskIdle
  /\ UNCHANGED <<queue, size, loop, life, network, fate, overlapped, endpoint>>

\* http.begin() fails: one attempt more whatever their number, and no request.
BeginFails ==
  /\ TaskAt("send") /\ certified /\ ~begins
  /\ task' = TaskIdle /\ queue' = Retried
  /\ UNCHANGED <<size, loop, life, network, fate, overlapped, endpoint>>

Send ==
  /\ TaskAt("send") /\ certified /\ begins
  /\ Post(task.item.sample.id, task.item.body)
  /\ TaskTo("wait")
  /\ UNCHANGED <<queue, size, loop, life, network, fate, overlapped,
                 windows, passed, rows, trusted, incidents>>

\* Status 0 is no answer: no connection, or HTTP_TIMEOUT_MS.
Retryable(status) == status \in {0, 429} \/ status >= 500

\* What the task makes of a status.
Conclude(status) ==
  IF \/ status \in {200, 201}
     \/ ~Retryable(status) \/ task.item.attempts >= MaxRetries
  THEN /\ TaskTo("shift")
       /\ fate' = [fate EXCEPT ![task.item.sample.id] =
            IF @ # "queued" THEN @
            ELSE IF status \in {200, 201} THEN "acknowledged"
            ELSE IF Retryable(status) THEN "exhausted" ELSE "refused"]
       /\ UNCHANGED queue
  ELSE /\ task' = TaskIdle
       /\ queue' = Retried
       /\ UNCHANGED fate

TakeAnswer(r) ==
  /\ TaskAt("wait") /\ r.awaited /\ r.at = "answered"
  /\ Conclude(r.status)
  /\ requests' = requests \ {r}
  /\ UNCHANGED <<size, loop, life, network, overlapped,
                 windows, passed, rows, trusted, incidents>>

\* No answer, or none in time; the request may still be on its way.
NoAnswer ==
  /\ TaskAt("wait")
  /\ Conclude(0)
  /\ requests' = GivenUp
  /\ \/ Incident
     \/ (Awaited = {} \/ ~online) /\ UNCHANGED incidents
  /\ UNCHANGED <<size, loop, life, network, overlapped,
                 windows, passed, rows, trusted>>

Enqueuing == IF LoopAt("idle") THEN {} ELSE {loop.item.id}

\* Mutation: --size_ comes first.
ShiftedLate == [i \in Slots |-> IF i + 1 < size - 1 THEN queue[i + 1] ELSE queue[i]]
Shifted == [i \in Slots |-> IF i + 1 < size THEN queue[i + 1] ELSE queue[i]]

\* removeIfMessage(): the items behind the front move up, and --size_.
Shift ==
  /\ TaskAt("shift")
  /\ IF IsFront(task.item) THEN queue' = Shifted /\ TaskTo("read")
                           ELSE task' = TaskIdle /\ UNCHANGED queue
  /\ overlapped' = overlapped \cup Enqueuing
  /\ UNCHANGED <<size, loop, life, network, fate, endpoint>>

ReadFromSize ==
  /\ TaskAt("read")
  /\ task' = [task EXCEPT !.at = "write", !.read = size]
  /\ overlapped' = overlapped \cup Enqueuing
  /\ UNCHANGED <<queue, size, loop, life, network, fate, endpoint>>

WriteBack ==
  /\ TaskAt("write") /\ task' = TaskIdle
  /\ size' = task.read - 1
  /\ overlapped' = overlapped \cup Enqueuing
  /\ UNCHANGED <<queue, loop, life, network, fate, endpoint>>

-----------------------------------------------------------------------------
(* The surroundings                                                        *)

\* Power is lost: the queue is in RAM, the boot id is new, the sequence starts again.
Reboot ==
  /\ Incident
  /\ queue' = [i \in Slots |-> EmptySlot] /\ size' = 0
  /\ loop' = LoopIdle /\ task' = TaskIdle
  /\ boot' = boot + 1 /\ sequence' = 0
  /\ fate' = [i \in Readings |-> IF fate[i] = "queued" THEN "wiped" ELSE fate[i]]
  /\ requests' = GivenUp
  /\ UNCHANGED <<taken, network, overlapped, windows, passed, rows, trusted>>

LoseNetwork ==
  /\ Incident
  /\ online /\ online' = FALSE
  /\ UNCHANGED <<queue, size, loop, task, life, certified, begins, fate, overlapped,
                 windows, passed, requests, rows, trusted>>

\* WifiManager connects again.
Reconnect ==
  /\ ~online /\ online' = TRUE
  /\ UNCHANGED <<queue, size, loop, task, life, certified, begins, fate, overlapped, endpoint>>

\* The HTTP client of the platform begins to fail, and works again.
LoseClient ==
  /\ Incident
  /\ begins /\ begins' = FALSE
  /\ UNCHANGED <<queue, size, loop, task, life, online, certified, fate, overlapped,
                 windows, passed, requests, rows, trusted>>

RegainClient ==
  /\ ~begins /\ begins' = TRUE
  /\ UNCHANGED <<queue, size, loop, task, life, online, certified, fate, overlapped, endpoint>>

FirmwareInit ==
  /\ queue = [i \in Slots |-> EmptySlot] /\ size = 0
  /\ loop = LoopIdle /\ task = TaskIdle
  /\ boot = 1 /\ taken = 0 /\ sequence = 0
  /\ online = TRUE /\ certified \in BOOLEAN /\ begins = TRUE
  /\ fate = [i \in Readings |-> "untaken"]
  /\ overlapped = {}

Loop == Sample \/ WriteSample \/ WriteBody \/ WriteAttempts \/ ReadSize \/ WriteSize

Task ==
  \/ Pick \/ Defer \/ BeginFails \/ Send \/ NoAnswer \/ Shift \/ ReadFromSize \/ WriteBack
  \/ \E r \in requests : TakeAnswer(r)
=============================================================================
