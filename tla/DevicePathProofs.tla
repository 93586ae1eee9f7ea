--------------------------- MODULE DevicePathProofs ---------------------------
(***************************************************************************)
(* What holds on the way of a reading for any size of the queue, any       *)
(* number of readings and retries and any limits: the limits of the        *)
(* endpoint, the queue between the two cores, what becomes of each         *)
(* reading, and the simulator's scenarios; and, on a presentation machine, *)
(* the files and the processes of the runner.                              *)
(***************************************************************************)
EXTENDS DevicePath, PresentationRunnerProofs, TLAPS

-----------------------------------------------------------------------------
(* The limits                                                              *)

Window == [count : Nat, over : BOOLEAN]

\* Nothing passes that is not counted in the window of its time.
LimitInv ==
  /\ windows \in [Subjects -> Window \cup {Null}]
  /\ passed \in [Subjects -> Nat]
  /\ \A k \in Subjects :
       IF windows[k] = Null \/ windows[k].over
       THEN passed[k] = 0
       ELSE passed[k] <= windows[k].count /\ passed[k] <= LimitOf(k)

\* Every subject of the rate limit has one.
LEMMA LimitIsNat == \A k \in Subjects : LimitOf(k) \in Nat
  BY EndpointAssumption DEF LimitOf

\* consume() counts one more for its own subject, and takes a window away
\* only when its time is over.
LEMMA ConsumedWindows ==
  ASSUME NEW w \in [Subjects -> Window \cup {Null}], NEW k \in Subjects
  PROVE  /\ Consumed(w, k) \in [Subjects -> Window \cup {Null}]
         /\ Consumed(w, k)[k] = Counted(w, k)[k]
         /\ Counted(w, k)[k] \in Window
         /\ ~Counted(w, k)[k].over
         /\ Counted(w, k)[k].count =
              IF w[k] = Null \/ w[k].over THEN 1
              ELSE IF w[k].count > LimitOf(k) THEN w[k].count ELSE w[k].count + 1
         /\ \A s \in Subjects \ {k} :
              Consumed(w, k)[s] = w[s] \/ (w[s] # Null /\ w[s].over /\ Consumed(w, k)[s] = Null)
<1> DEFINE before == IF w[k] = Null \/ w[k].over THEN 0 ELSE w[k].count
           one == [count |-> IF before > LimitOf(k) THEN before ELSE before + 1, over |-> FALSE]
<1>1. before \in Nat
  BY DEF Window
<1>2. one \in Window /\ one # Null
  <2>1. (IF before > LimitOf(k) THEN before ELSE before + 1) \in Nat
    BY <1>1
  <2> HIDE DEF before
  <2>2. one \in Window
    BY <2>1 DEF Window
  <2> QED
    BY <2>2, EndpointAssumption DEF Window
<1>3. Counted(w, k) = [w EXCEPT ![k] = one]
  BY DEF Counted
<1> HIDE DEF one
<1>4. Counted(w, k) \in [Subjects -> Window \cup {Null}] /\ Counted(w, k)[k] = one
  BY <1>2, <1>3
<1>5. one.over = FALSE
  BY DEF one
<1>6. Consumed(w, k) \in [Subjects -> Window \cup {Null}]
  BY <1>4 DEF Consumed, PruneExpired
<1>7. Consumed(w, k)[k] = Counted(w, k)[k]
  BY <1>4, <1>5 DEF Consumed, PruneExpired
<1>8. one.count = IF w[k] = Null \/ w[k].over THEN 1
                  ELSE IF w[k].count > LimitOf(k) THEN w[k].count ELSE w[k].count + 1
  BY LimitIsNat DEF one
<1>9. ASSUME NEW s \in Subjects \ {k}
      PROVE  Consumed(w, k)[s] = w[s] \/ (w[s] # Null /\ w[s].over /\ Consumed(w, k)[s] = Null)
  <2>1. Counted(w, k)[s] = w[s]
    BY <1>3
  <2>2. PruneExpired(Counted(w, k))[s] = IF w[s] # Null /\ w[s].over THEN Null ELSE w[s]
    BY <2>1 DEF PruneExpired
  <2> QED
    BY <2>1, <2>2 DEF Consumed
<1> QED
  BY <1>2, <1>4, <1>5, <1>6, <1>7, <1>8, <1>9

\* The two windows of one request, counted one after the other.
LEMMA LimitPreserves ==
  ASSUME LimitInv, NEW k \in Subjects \ {Address}, NEW status, Limit(k, status)
  PROVE  LimitInv'
<1> DEFINE w1 == Consumed(windows, Address)
           w2 == Consumed(w1, k)
<1>1. Address \in Subjects
  BY DEF Subjects
<1>2. windows \in [Subjects -> Window \cup {Null}]
  BY DEF LimitInv
<1>3. /\ w1 \in [Subjects -> Window \cup {Null}]
      /\ w1[Address] \in Window /\ ~w1[Address].over
      /\ w1[Address] = Counted(windows, Address)[Address]
      /\ w1[Address].count =
           IF windows[Address] = Null \/ windows[Address].over THEN 1
           ELSE IF windows[Address].count > LimitOf(Address) THEN windows[Address].count
           ELSE windows[Address].count + 1
      /\ \A s \in Subjects \ {Address} :
           w1[s] = windows[s] \/ (windows[s] # Null /\ windows[s].over /\ w1[s] = Null)
  <2> HIDE DEF w1
  <2>1. w1 = Consumed(windows, Address)
    BY DEF w1
  <2> QED
    BY <1>1, <1>2, <2>1, ConsumedWindows
<1>4. /\ w2 \in [Subjects -> Window \cup {Null}]
      /\ w2[k] \in Window /\ ~w2[k].over
      /\ w2[k] = Counted(w1, k)[k]
      /\ w2[k].count =
           IF w1[k] = Null \/ w1[k].over THEN 1
           ELSE IF w1[k].count > LimitOf(k) THEN w1[k].count ELSE w1[k].count + 1
      /\ \A s \in Subjects \ {k} :
           w2[s] = w1[s] \/ (w1[s] # Null /\ w1[s].over /\ w2[s] = Null)
  <2> HIDE DEF w1, w2
  <2>1. w2 = Consumed(w1, k)
    BY DEF w2
  <2> QED
    BY <1>3, <2>1, ConsumedWindows
<1>5. Null \notin Window
  BY EndpointAssumption DEF Window
<1>6. CASE Verdict(windows, Address) # 0
  <2>1. windows' = w1 /\ passed' = passed
    BY <1>6 DEF Limit
  <2> HIDE DEF w1, w2
  <2>2. ASSUME NEW s \in Subjects
        PROVE  IF w1[s] = Null \/ w1[s].over THEN passed[s] = 0
               ELSE passed[s] <= w1[s].count /\ passed[s] <= LimitOf(s)
    BY <1>2, <1>3, <1>5, LimitIsNat DEF LimitInv, Window
  <2> QED
    BY <1>3, <2>1, <2>2 DEF LimitInv, LimitOf
<1>7. CASE Verdict(windows, Address) = 0
  <2>1. /\ windows' = w2
        /\ status = Verdict(w1, k)
        /\ passed' = [s \in Subjects |->
             IF s = Address \/ (s = k /\ status = 0) THEN passed[s] + 1 ELSE passed[s]]
    BY <1>7 DEF Limit
  <2>2. w1[Address].count <= LimitOf(Address)
    <3>1. ~(Counted(windows, Address)[Address].count > LimitOf(Address))
      BY <1>7 DEF Verdict
    <3> QED
      BY <3>1, <1>1, <1>3, LimitIsNat DEF Window
  <2>3. status = 0 => w2[k].count <= LimitOf(k)
    <3>1. status = 0 => ~(Counted(w1, k)[k].count > LimitOf(k))
      BY <2>1 DEF Verdict
    <3> QED
      BY <3>1, <1>4, LimitIsNat DEF Window
  <2> HIDE DEF w1, w2
  <2>4. w2[Address] = w1[Address]
    BY <1>1, <1>3, <1>4
  <2>5. passed \in [Subjects -> Nat] /\ passed' \in [Subjects -> Nat]
    BY <2>1 DEF LimitInv
  <2>6. ASSUME NEW s \in Subjects
        PROVE  IF w2[s] = Null \/ w2[s].over THEN passed'[s] = 0
               ELSE passed'[s] <= w2[s].count /\ passed'[s] <= LimitOf(s)
    <3>1. CASE s = Address
      BY <3>1, <1>3, <1>5, <2>1, <2>2, <2>4, <2>5, LimitIsNat DEF LimitInv, Window
    <3>2. CASE s = k
      BY <3>2, <1>3, <1>4, <1>5, <2>1, <2>3, <2>5, LimitIsNat DEF LimitInv, Window
    <3>3. CASE s \notin {Address, k}
      BY <3>3, <1>3, <1>4, <1>5, <2>1, <2>5, LimitIsNat DEF LimitInv, Window
    <3> QED
      BY <3>1, <3>2, <3>3
  <2> QED
    BY <1>4, <2>1, <2>5, <2>6 DEF LimitInv, LimitOf
<1> QED
  BY <1>6, <1>7

LEMMA LimitInit == Init => LimitInv
  BY DEF Init, EndpointInit, LimitInv

LEMMA LimitStep == LimitInv /\ [Next]_vars => LimitInv'
<1> SUFFICES ASSUME LimitInv, [Next]_vars
             PROVE  LimitInv'
  OBVIOUS
<1>0. ASSUME UNCHANGED <<windows, passed>>
      PROVE  LimitInv'
  BY <1>0 DEF LimitInv, LimitOf
<1>1. CASE ByServer /\ \E k \in Subjects : WindowEnds(k)
  <2>1. PICK k \in Subjects : WindowEnds(k)
    BY <1>1
  <2>2. /\ windows' = [windows EXCEPT ![k] = IF @ = Null THEN Null ELSE [count |-> @.count, over |-> TRUE]]
        /\ passed' = [passed EXCEPT ![k] = 0]
    BY <2>1 DEF WindowEnds
  <2>3. windows[k] \in Window \cup {Null}
    BY DEF LimitInv
  <2> DEFINE closed == IF windows[k] = Null THEN Null ELSE [count |-> windows[k].count, over |-> TRUE]
  <2>5. windows' \in [Subjects -> Window \cup {Null}] /\ passed' \in [Subjects -> Nat]
    <3>1. closed \in Window \cup {Null}
      BY <2>3 DEF Window
    <3>2. windows' = [windows EXCEPT ![k] = closed]
      BY <2>2
    <3> HIDE DEF closed
    <3> QED
      BY <2>2, <3>1, <3>2 DEF LimitInv
  <2>6. windows'[k] = Null \/ windows'[k].over
    BY <2>2, <2>3 DEF LimitInv
  <2>7. passed'[k] = 0 /\ \A s \in Subjects \ {k} : windows'[s] = windows[s] /\ passed'[s] = passed[s]
    BY <2>2 DEF LimitInv
  <2> QED
    BY <2>5, <2>6, <2>7 DEF LimitInv, LimitOf
<1>2. CASE ByServer /\ \E k \in Neighbours : Neighbour(k)
  <2>1. PICK k \in Neighbours, status \in {0, 429, 500} : Limit(k, status)
    BY <1>2 DEF Neighbour
  <2>2. k \in Subjects \ {Address}
    BY EndpointAssumption DEF Subjects
  <2> QED
    BY <2>1, <2>2, LimitPreserves
<1>3. CASE ByServer /\ \E r \in requests : Guard(r)
  <2>1. PICK status \in {0, 429, 500} : Limit(Device, status)
    BY <1>3 DEF Guard
  <2>2. Device \in Subjects \ {Address}
    BY EndpointAssumption DEF Subjects
  <2> QED
    BY <2>1, <2>2, LimitPreserves
<1>4. CASE ByServer /\ \E r \in requests : Ingest(r) \/ Break(r) \/ Lose(r)
  BY <1>4, <1>0 DEF Ingest, Break, Lose
<1>5. CASE ByServer /\ Distrust
  BY <1>5, <1>0 DEF Distrust
<1>6. CASE ByFirmware /\ (Loop \/ Task \/ Reboot \/ LoseNetwork \/ Reconnect \/ LoseClient \/ RegainClient)
  BY <1>6, <1>0 DEF Loop, Task, Sample, WriteSample, WriteBody, WriteAttempts, ReadSize, WriteSize,
     Pick, Defer, BeginFails, Send, TakeAnswer, NoAnswer, Shift, ReadFromSize, WriteBack, Reboot,
     LoseNetwork, Reconnect, LoseClient, RegainClient, endpoint
<1>7. CASE BySimulator /\ (SendPayload \/ FetchFails \/ Cancel \/ \E r \in requests : Validate(r))
  BY <1>7, <1>0 DEF SendPayload, FetchFails, Cancel, Validate
<1>8. CASE ByRunner /\ RunnerNext
  BY <1>8, <1>0 DEF ByRunner, endpoint
<1>9. CASE UNCHANGED vars
  BY <1>9, <1>0 DEF vars, endpoint
<1> QED
  BY <1>1, <1>2, <1>3, <1>4, <1>5, <1>6, <1>7, <1>8, <1>9 DEF Next, Loop, Task

\* Whatever subjects there are and however few of them the map may hold, no
\* subject gets more requests through than its limit (consume, pruneExpired).
THEOREM LimitsHold == Spec => []WithinLimit
<1>1. LimitInv => WithinLimit
  <2> SUFFICES ASSUME LimitInv, NEW k \in Subjects
               PROVE  passed[k] <= LimitOf(k)
    BY DEF WithinLimit
  <2> QED
    BY LimitIsNat DEF LimitInv
<1> QED
  BY <1>1, LimitInit, LimitStep, PTL DEF Spec

-----------------------------------------------------------------------------
(* The queue                                                               *)

\* A core that is about to read size_ knows what the other one, which it
\* does not wait for, may have made of it.
QueueInv ==
  /\ QueueOK
  /\ boot \in Nat /\ taken \in Nat /\ sequence \in Nat
  /\ LoopAt("read") => size < Capacity
  /\ TaskAt("read") => size > 0
  /\ TaskAt("write") => task.read <= Capacity

LEMMA Empty == EmptySlot \in Items /\ NoBody \in Bodies
  BY FirmwareAssumption DEF EmptySlot, NoBody, Items, Bodies

\* The queue has a first slot.
LEMMA FirstSlot == Capacity \in Nat /\ Capacity > 0 /\ 0 \in Slots
  BY FirmwareAssumption DEF Slots

LEMMA QueueInit == Init => QueueInv
  BY Empty, FirstSlot DEF Init, FirmwareInit, QueueInv, QueueOK, LoopIdle, TaskIdle, LoopAt, TaskAt, EmptySlot

\* One more attempt is one of the values of the counter.
LEMMA AttemptCounted ==
  ASSUME NEW n \in 0..AttemptValues - 1
  PROVE  (n + 1) % AttemptValues \in 0..AttemptValues - 1
  BY FirmwareAssumption

\* scheduleRetry() leaves every message where it is.
LEMMA RetriedIsQueue ==
  ASSUME QueueOK
  PROVE  /\ Retried \in [Slots -> Items]
         /\ \A i \in Slots : Retried[i].sample = queue[i].sample /\ Retried[i].body = queue[i].body
<1>1. queue \in [Slots -> Items] /\ task.item.attempts \in 0..AttemptValues - 1
  BY DEF QueueOK, Items
<1> DEFINE n == (task.item.attempts + 1) % AttemptValues
           item == [queue[0] EXCEPT !.attempts = n]
<1>2. n \in 0..AttemptValues - 1
  BY <1>1, AttemptCounted
<1>3. Retried = IF IsFront(task.item) THEN [queue EXCEPT ![0] = item] ELSE queue
  BY DEF Retried
<1> HIDE DEF n
<1>4. item \in Items /\ item.sample = queue[0].sample /\ item.body = queue[0].body
  BY <1>1, <1>2, FirstSlot DEF Items
<1> HIDE DEF item
<1> QED
  BY <1>1, <1>3, <1>4

LEMMA LoopStep == QueueInv /\ ByFirmware /\ Loop => QueueInv'
<1> SUFFICES ASSUME QueueInv, ByFirmware, Loop
             PROVE  QueueInv'
  OBVIOUS
<1> USE FirstSlot
<1>0. /\ queue \in [Slots -> Items] /\ size \in 0..Capacity
      /\ loop \in [at : {"idle", "sample", "body", "attempts", "read", "write"}, item : Bodies, read : Nat]
      /\ size < Capacity => size \in Slots
  BY DEF QueueInv, QueueOK, Slots
<1>a. ASSUME UNCHANGED <<task, life>>, size' = size,
             loop' \in [at : {"idle", "sample", "body", "attempts", "read", "write"}, item : Bodies, read : Nat],
             loop'.at \in {"sample", "body", "attempts", "read"} => size < Capacity,
             loop'.at = "write" => loop'.read < Capacity,
             queue' \in [Slots -> Items]
      PROVE  QueueInv'
  BY <1>a DEF QueueInv, QueueOK, LoopAt, TaskAt, life
<1>b. ASSUME NEW at \in {"body", "attempts", "read"}, loop' = [loop EXCEPT !.at = at], size < Capacity,
             UNCHANGED <<task, life, size>>, NEW item \in Items,
             queue' = [queue EXCEPT ![size] = item]
      PROVE  QueueInv'
  <2>1. loop' \in [at : {"idle", "sample", "body", "attempts", "read", "write"}, item : Bodies, read : Nat]
        /\ loop'.at = at
    BY <1>0, <1>b
  <2>2. queue' \in [Slots -> Items]
    BY <1>0, <1>b
  <2> QED
    BY <1>a, <1>b, <2>1, <2>2
<1>c. ASSUME NEW i \in Slots PROVE queue[i] \in Items
  BY <1>0
<1>1. CASE Sample
  <2> DEFINE item == [id |-> taken + 1, boot |-> boot, seq |-> sequence, reading |-> taken + 1]
  <2>1. /\ taken' = taken + 1 /\ sequence' = sequence + 1 /\ boot' = boot
        /\ UNCHANGED <<queue, size, task>>
        /\ IF Full THEN loop' = loop ELSE loop' = [at |-> "sample", item |-> item, read |-> 0]
    BY <1>1 DEF Sample
  <2>2. item \in Bodies
    BY DEF Bodies, QueueInv
  <2> HIDE DEF item
  <2>3. Full \/ (size < Capacity /\ loop' \in [at : {"sample"}, item : Bodies, read : {0}] /\ loop'.at = "sample")
    BY <1>0, <2>1, <2>2 DEF Full
  <2>4. /\ loop' \in [at : {"idle", "sample", "body", "attempts", "read", "write"}, item : Bodies, read : Nat]
        /\ loop' = loop \/ (loop'.at = "sample" /\ size < Capacity)
    BY <1>0, <2>1, <2>2, <2>3
  <2> QED
    BY <2>1, <2>4 DEF QueueInv, QueueOK, LoopAt, TaskAt
<1>2. CASE WriteSample
  <2> DEFINE item == [queue[size] EXCEPT !.sample = loop.item]
  <2>1. /\ loop.at = "sample" /\ loop' = [loop EXCEPT !.at = "body"]
        /\ queue' = [queue EXCEPT ![size] = item]
        /\ UNCHANGED <<task, life, size>>
    BY <1>2 DEF WriteSample, LoopAt, LoopTo
  <2>2. size < Capacity /\ size \in Slots
    BY <1>0, <2>1 DEF QueueInv, QueueOK, LoopAt
  <2>3. item \in Items
    BY <1>0, <1>c, <2>2 DEF Items
  <2> QED
    BY <1>b, <2>1, <2>2, <2>3
<1>3. CASE WriteBody
  <2> DEFINE item == [queue[size] EXCEPT !.body = loop.item]
  <2>1. /\ loop.at = "body" /\ loop' = [loop EXCEPT !.at = "attempts"]
        /\ queue' = [queue EXCEPT ![size] = item]
        /\ UNCHANGED <<task, life, size>>
    BY <1>3 DEF WriteBody, LoopAt, LoopTo
  <2>2. size < Capacity /\ size \in Slots
    BY <1>0, <2>1 DEF QueueInv, QueueOK, LoopAt
  <2>3. item \in Items
    BY <1>0, <1>c, <2>2 DEF Items
  <2> QED
    BY <1>b, <2>1, <2>2, <2>3
<1>4. CASE WriteAttempts
  <2> DEFINE item == [queue[size] EXCEPT !.attempts = 0]
  <2>1. /\ loop.at = "attempts" /\ loop' = [loop EXCEPT !.at = "read"]
        /\ queue' = [queue EXCEPT ![size] = item]
        /\ UNCHANGED <<task, life, size>>
    BY <1>4 DEF WriteAttempts, LoopAt, LoopTo
  <2>2. size < Capacity /\ size \in Slots
    BY <1>0, <2>1 DEF QueueInv, QueueOK, LoopAt
  <2>3. item \in Items
    BY <1>0, <1>c, <2>2, FirmwareAssumption DEF Items
  <2> QED
    BY <1>b, <2>1, <2>2, <2>3
<1>5. CASE ReadSize
  <2>1. /\ loop.at = "read" /\ loop' = [loop EXCEPT !.at = "write", !.read = size]
        /\ UNCHANGED <<queue, task, life, size>>
    BY <1>5 DEF ReadSize, LoopAt
  <2>2. size < Capacity
    BY <2>1 DEF QueueInv, LoopAt
  <2>3. /\ loop' \in [at : {"idle", "sample", "body", "attempts", "read", "write"}, item : Bodies, read : Nat]
        /\ loop'.at = "write" /\ loop'.read = size
    <3>1. size \in Nat
      BY <1>0
    <3> QED
      BY <1>0, <2>1, <3>1
  <2> QED
    BY <1>a, <1>0, <1>c, <2>1, <2>2, <2>3
<1>6. CASE WriteSize
  <2>1. /\ loop.at = "write" /\ loop' = LoopIdle
        /\ size' = loop.read + 1
        /\ UNCHANGED <<queue, task, life>>
    BY <1>6 DEF WriteSize, LoopAt
  <2>2. loop.read < Capacity /\ loop.read \in Nat
    BY <1>0, <2>1 DEF QueueInv, QueueOK, LoopAt
  <2>3. size' \in 0..Capacity /\ size' > 0
    BY <2>1, <2>2
  <2>4. /\ loop' \in [at : {"idle", "sample", "body", "attempts", "read", "write"}, item : Bodies, read : Nat]
        /\ loop'.at = "idle"
    BY <2>1, Empty DEF LoopIdle
  <2> QED
    BY <2>1, <2>3, <2>4 DEF QueueInv, QueueOK, LoopAt, TaskAt, life
<1> QED
  BY <1>1, <1>2, <1>3, <1>4, <1>5, <1>6 DEF Loop

LEMMA TaskStep == QueueInv /\ ByFirmware /\ Task => QueueInv'
<1> SUFFICES ASSUME QueueInv, ByFirmware, Task
             PROVE  QueueInv'
  OBVIOUS
<1> USE FirstSlot
<1>0. /\ queue \in [Slots -> Items] /\ size \in 0..Capacity
      /\ task \in [at : {"idle", "send", "wait", "shift", "read", "write"}, item : Items, read : Nat]
  BY DEF QueueInv, QueueOK
<1>a. ASSUME UNCHANGED <<loop, life, size>>,
             task' \in [at : {"idle", "send", "wait", "shift", "read", "write"}, item : Items, read : Nat],
             task'.at = "read" => size > 0,
             task'.at = "write" => task'.read > 0 /\ task'.read <= Capacity,
             queue' \in [Slots -> Items]
      PROVE  QueueInv'
  BY <1>a DEF QueueInv, QueueOK, LoopAt, TaskAt, life
<1>b. TaskIdle \in [at : {"idle", "send", "wait", "shift", "read", "write"}, item : Items, read : Nat]
      /\ TaskIdle.at = "idle"
  BY Empty DEF TaskIdle
<1>c. ASSUME NEW at \in {"wait", "shift", "read"}, task' = [task EXCEPT !.at = at]
      PROVE  /\ task' \in [at : {"idle", "send", "wait", "shift", "read", "write"}, item : Items, read : Nat]
             /\ task'.item = task.item /\ task'.at = at
  BY <1>0, <1>c
<1>1. CASE Pick
  <2>1. /\ task' = [at |-> "send", item |-> queue[0], read |-> 0]
        /\ UNCHANGED <<queue, size, loop, life>>
    BY <1>1 DEF Pick
  <2>2. task' \in [at : {"idle", "send", "wait", "shift", "read", "write"}, item : Items, read : Nat]
        /\ task'.at = "send"
    BY <1>0, <2>1
  <2> QED
    BY <1>0, <1>a, <2>1, <2>2
<1>2. CASE Defer
  <2>1. task' = TaskIdle /\ UNCHANGED <<queue, size, loop, life>>
    BY <1>2 DEF Defer
  <2> QED
    BY <1>0, <1>a, <1>b, <2>1
<1>9. CASE BeginFails
  <2>1. task' = TaskIdle /\ queue' = Retried /\ UNCHANGED <<size, loop, life>>
    BY <1>9 DEF BeginFails
  <2>2. queue' \in [Slots -> Items]
    BY <2>1, RetriedIsQueue DEF QueueInv
  <2> QED
    BY <1>0, <1>a, <1>b, <2>1, <2>2
<1>3. CASE Send
  <2>1. task' = [task EXCEPT !.at = "wait"] /\ UNCHANGED <<queue, size, loop, life>>
    BY <1>3 DEF Send, TaskTo
  <2> QED
    BY <1>0, <1>a, <1>c, <2>1
<1>4. ASSUME NEW status, Conclude(status), UNCHANGED <<size, loop, life>>
      PROVE  QueueInv'
  <2>1. CASE task' = [task EXCEPT !.at = "shift"] /\ queue' = queue
    BY <1>0, <1>4, <1>a, <1>c, <2>1
  <2>2. CASE task' = TaskIdle /\ queue' = Retried
    <3>1. queue' \in [Slots -> Items]
      BY <2>2, RetriedIsQueue DEF QueueInv
    <3> QED
      BY <1>4, <1>a, <1>b, <2>2, <3>1
  <2> QED
    BY <1>4, <2>1, <2>2 DEF Conclude, TaskTo
<1>5. CASE NoAnswer \/ \E r \in requests : TakeAnswer(r)
  BY <1>4, <1>5 DEF NoAnswer, TakeAnswer
<1>6. CASE Shift
  <2>1. UNCHANGED <<size, loop, life>>
    BY <1>6 DEF Shift
  <2>2. CASE IsFront(task.item)
    <3>1. task' = [task EXCEPT !.at = "read"] /\ queue' = Shifted /\ size > 0
      BY <1>6, <2>2 DEF Shift, TaskTo, IsFront
    <3>2. \A i \in Slots : i + 1 < size => i + 1 \in Slots
      BY <1>0 DEF Slots
    <3>3. queue' \in [Slots -> Items]
      BY <1>0, <3>1, <3>2 DEF Shifted
    <3> QED
      BY <1>0, <1>a, <1>c, <2>1, <3>1, <3>3
  <2>3. CASE ~IsFront(task.item)
    <3>1. task' = TaskIdle /\ queue' = queue
      BY <1>6, <2>3 DEF Shift
    <3> QED
      BY <1>0, <1>a, <1>b, <2>1, <3>1
  <2> QED
    BY <2>2, <2>3
<1>7. CASE ReadFromSize
  <2>1. /\ task.at = "read" /\ task' = [task EXCEPT !.at = "write", !.read = size]
        /\ UNCHANGED <<queue, size, loop, life>>
    BY <1>7 DEF ReadFromSize, TaskAt
  <2>2. size > 0
    BY <2>1 DEF QueueInv, TaskAt
  <2>3. /\ task' \in [at : {"idle", "send", "wait", "shift", "read", "write"}, item : Items, read : Nat]
        /\ task'.item = task.item /\ task'.at = "write" /\ task'.read = size
    <3>1. size \in Nat
      BY <1>0
    <3> QED
      BY <1>0, <2>1, <3>1
  <2> QED
    BY <1>0, <1>a, <2>1, <2>2, <2>3
<1>8. CASE WriteBack
  <2>1. /\ task.at = "write" /\ task' = TaskIdle /\ size' = task.read - 1
        /\ UNCHANGED <<queue, loop, life>>
    BY <1>8 DEF WriteBack, TaskAt
  <2>2. task.read \in Nat /\ task.read > 0 /\ task.read <= Capacity
    BY <1>0, <2>1 DEF QueueInv, QueueOK, TaskAt
  <2>3. size' \in 0..Capacity /\ size' < Capacity
    BY <2>1, <2>2
  <2> QED
    BY <1>b, <2>1, <2>3 DEF QueueInv, QueueOK, LoopAt, TaskAt, life
<1> QED
  BY <1>1, <1>2, <1>3, <1>5, <1>6, <1>7, <1>8, <1>9 DEF Task

LEMMA QueueStep == QueueInv /\ [Next]_vars => QueueInv'
<1> SUFFICES ASSUME QueueInv, [Next]_vars
             PROVE  QueueInv'
  OBVIOUS
<1>1. ASSUME UNCHANGED <<queue, size, loop, task, life>>
      PROVE  QueueInv'
  BY <1>1 DEF QueueInv, QueueOK, LoopAt, TaskAt, life
<1>2. CASE ByFirmware /\ Reboot
  <2>1. /\ queue' = [i \in Slots |-> EmptySlot] /\ size' = 0
        /\ loop' = LoopIdle /\ task' = TaskIdle
        /\ boot' = boot + 1 /\ sequence' = 0 /\ taken' = taken
    BY <1>2 DEF Reboot
  <2> QED
    BY <2>1, Empty, FirstSlot DEF QueueInv, QueueOK, LoopIdle, TaskIdle, LoopAt, TaskAt
<1>3. CASE ByFirmware /\ (LoseNetwork \/ Reconnect \/ LoseClient \/ RegainClient)
  BY <1>1, <1>3 DEF LoseNetwork, Reconnect, LoseClient, RegainClient
<1>4. CASE BySimulator \/ ByServer \/ ByRunner \/ UNCHANGED vars
  BY <1>1, <1>4 DEF BySimulator, ByServer, ByRunner, vars, firmware
<1> QED
  BY <1>1, <1>2, <1>3, <1>4, LoopStep, TaskStep DEF Next, Loop, Task

\* Whatever the size of the queue, and however the loop and the task
\* interleave in ++size_ and --size_, while sending succeeds, fails or does
\* not even begin: size_ stays within the array, and so does every write of
\* enqueue() (enqueue, scheduleRetry, removeIfMessage).
THEOREM QueueIsSound == Spec => []QueueOK
<1>1. QueueInv => QueueOK
  BY DEF QueueInv
<1> QED
  BY <1>1, QueueInit, QueueStep, PTL DEF Spec

-----------------------------------------------------------------------------
(* The runner                                                              *)

RunnerInv == FilesInv /\ ProcessesInv

LEMMA RunnerInvInit == Init => RunnerInv
  BY FilesInit, ProcessesInit DEF Init, RunnerInv

\* The others do not touch the stack.
LEMMA RunnerInvStep == RunnerInv /\ [Next]_vars => RunnerInv'
<1>1. RunnerInv /\ RunnerNext => RunnerInv'
  BY FilesStep, ProcessesStep DEF RunnerInv
<1>2. RunnerInv /\ UNCHANGED stack => RunnerInv'
  BY DEF RunnerInv, FilesInv, ProcessesInv, ShapesOK, FilesTellTheTruth, At, stack, files, counters, ghosts,
     NotYet, Servers, ServerInv, Serves, SimulatorTold, PidOnRecord
<1>3. [Next]_vars => RunnerNext \/ UNCHANGED stack
  BY DEF Next, ByFirmware, BySimulator, ByServer, ByRunner, vars
<1> QED
  BY <1>1, <1>2, <1>3

\* Wherever a command of runner.mjs ends, what start finds in its files is
\* so, unless an accident has changed what they are about.
THEOREM FilesAreTrue == Spec => []FilesTellTheTruth
<1>1. RunnerInv => FilesTellTheTruth
  BY DEF RunnerInv, FilesInv
<1> QED
  BY <1>1, RunnerInvInit, RunnerInvStep, PTL DEF Spec

\* However starts, stops and interruptions of runner.mjs follow each
\* other, and however late a server takes its port, no component runs
\* twice, but after a start that ended between spawn() and the record of
\* the pid: a simulator, or a server that had no port yet when the next
\* start looked at it.
THEOREM NothingRunsTwice == Spec => []OneOfEach
<1>1. RunnerInv => OneOfEach
  BY ProcessesAreOne DEF RunnerInv
<1> QED
  BY <1>1, RunnerInvInit, RunnerInvStep, PTL DEF Spec

-----------------------------------------------------------------------------
(* No reading is lost between the loop, the task and the server - except   *)
(* one that is enqueued in the moment in which another one is taken out.   *)

Fates == {"untaken", "dropped", "queued", "acknowledged", "refused", "exhausted", "wiped"}
Requests ==
  [key : Nat, body : Bodies, at : {"sent", "admitted", "answered"}, status : Nat, awaited : BOOLEAN]

Shapes ==
  /\ fate \in [Readings -> Fates]
  /\ requests \subseteq Requests
  /\ rows \subseteq Bodies

\* The next reading is a new one.
IdsInv ==
  /\ loop.item.id <= taken
  /\ task.item.sample.id <= taken
  /\ \A i \in Slots : queue[i].sample.id <= taken

\* The answer that the task takes is to the message that it has sent.
RequestsInv ==
  /\ \A r \in requests :
       /\ r.awaited => TaskAt("wait") /\ r.key = task.item.sample.id
       /\ r.at = "answered" /\ r.status \in {200, 201} => IsStored(r.key)
  /\ \A r, q \in requests : r.awaited /\ q.awaited => r = q

\* The front is removed after its fate is known.
FatesInv ==
  /\ TaskAt("shift") /\ task.item.sample.id \in Readings => fate[task.item.sample.id] # "queued"
  /\ \A id \in Readings : fate[id] = "acknowledged" => IsStored(id)

\* A reading that is enqueued with no removal meanwhile goes to queue_[size_].
EnqueueInv ==
  ~LoopAt("idle") /\ loop.item.id \notin overlapped =>
    /\ ~TaskAt("read") /\ ~TaskAt("write")
    /\ ~LoopAt("sample") => queue[size].sample = loop.item
    /\ LoopAt("attempts") \/ LoopAt("read") \/ LoopAt("write") => queue[size].body = loop.item
    /\ LoopAt("write") => loop.read = size

\* It has a slot that neither ++size_ nor --size_ can put out of the queue.
Placed(id) ==
  \E i \in Slots :
    /\ queue[i].sample.id = id /\ queue[i].body.id = id
    /\ i < size
    /\ TaskAt("read") => i + 1 < size
    /\ TaskAt("write") => i + 1 < task.read
    /\ LoopAt("write") => i < loop.read

PlacedInv ==
  \A id \in Readings \ overlapped :
    fate[id] = "queued" => Placed(id) \/ (~LoopAt("idle") /\ loop.item.id = id)

FirmwareInv ==
  /\ Shapes /\ IdsInv /\ RequestsInv /\ FatesInv /\ EnqueueInv /\ PlacedInv

ReadingInv ==
  \/ client = "firmware" /\ FirmwareInv
  \/ client # "firmware" /\ \A id \in Readings : fate[id] = "untaken"

LEMMA ReadingInit == Init => ReadingInv
  BY Empty DEF Init, EndpointInit, FirmwareInit, ReadingInv, FirmwareInv, Shapes, Fates, IdsInv, RequestsInv,
     FatesInv, EnqueueInv, PlacedInv, LoopIdle, TaskIdle, EmptySlot, NoBody, LoopAt, TaskAt

\* The places that the types give.
LEMMA Typed ==
  ASSUME QueueInv
  PROVE  /\ Capacity \in Nat /\ size \in Nat /\ size <= Capacity /\ taken \in Nat
         /\ loop \in [at : {"idle", "sample", "body", "attempts", "read", "write"}, item : Bodies, read : Nat]
         /\ loop.read \in Nat /\ loop.item \in Bodies /\ loop.item.id \in Nat
         /\ task.read \in Nat /\ task.item \in Items /\ task.item.sample.id \in Nat
         /\ queue \in [Slots -> Items]
         /\ \A i \in Slots : queue[i] \in Items /\ queue[i].sample.id \in Nat /\ i \in Nat /\ i < Capacity
         /\ \A i \in Nat : i < Capacity => i \in Slots
<1>1. queue \in [Slots -> Items] /\ task.item \in Items
  BY DEF QueueInv, QueueOK
<1>2. \A item \in Items : item.sample.id \in Nat
  BY DEF Items, Bodies
<1>3. \A i \in Slots : queue[i] \in Items
  BY <1>1
<1> QED
  BY <1>1, <1>2, <1>3, FirstSlot DEF QueueInv, QueueOK, Bodies, Slots

\* The core that samples and enqueues.
LEMMA ReadingLoop ==
  ASSUME QueueInv, QueueInv', FirmwareInv, Loop
  PROVE  FirmwareInv'
<1> USE DEF FirmwareInv
<1>t. /\ Capacity \in Nat /\ size \in Nat /\ size <= Capacity /\ taken \in Nat
      /\ loop \in [at : {"idle", "sample", "body", "attempts", "read", "write"}, item : Bodies, read : Nat]
      /\ loop.read \in Nat /\ loop.item \in Bodies /\ loop.item.id \in Nat
      /\ task.item.sample.id \in Nat
      /\ queue \in [Slots -> Items]
      /\ \A i \in Slots : queue[i] \in Items /\ queue[i].sample.id \in Nat /\ i \in Nat /\ i < Capacity
      /\ \A i \in Nat : i < Capacity => i \in Slots
  BY Typed
<1>a. ASSUME UNCHANGED <<requests, rows, task, fate, overlapped, taken>>,
             loop'.item.id <= taken, \A i \in Slots : queue'[i].sample.id <= taken,
             EnqueueInv', PlacedInv'
      PROVE  FirmwareInv'
  BY <1>a DEF Shapes, IdsInv, RequestsInv, FatesInv, IsStored, TaskAt
\* What is written in a slot beyond those that readings have.
<1>b. ASSUME UNCHANGED <<requests, rows, task, fate, overlapped, taken, size>>,
             NEW at \in {"body", "attempts", "read"}, loop' = [loop EXCEPT !.at = at],
             loop.at \in {"sample", "body", "attempts"},
             NEW item \in Items, queue' = [queue EXCEPT ![size] = item], size < Capacity,
             item.sample.id <= taken,
             loop.item.id \notin overlapped =>
               item.sample = loop.item /\ (at \in {"attempts", "read"} => item.body = loop.item)
      PROVE  FirmwareInv'
  <2>1. size \in Slots /\ queue'[size] = item /\ \A i \in Slots \ {size} : queue'[i] = queue[i]
    BY <1>t, <1>b
  <2>2. loop'.at = at /\ loop'.item = loop.item
    BY <1>t, <1>b
  <2>3. \A i \in Slots : queue'[i].sample.id <= taken
    BY <1>b, <2>1 DEF IdsInv
  <2>4. EnqueueInv'
    BY <1>b, <2>1, <2>2 DEF EnqueueInv, LoopAt, TaskAt
  <2>5. ASSUME NEW id \in Readings \ overlapped, fate[id] = "queued", ~(loop.item.id = id)
        PROVE  Placed(id)'
    <3>1. Placed(id)
      BY <2>5 DEF PlacedInv
    <3>2. PICK i \in Slots :
            /\ queue[i].sample.id = id /\ queue[i].body.id = id
            /\ i < size
            /\ TaskAt("read") => i + 1 < size
            /\ TaskAt("write") => i + 1 < task.read
      BY <3>1 DEF Placed
    <3>3. i # size /\ queue'[i] = queue[i]
      BY <1>t, <2>1, <3>2
    <3> QED
      BY <1>b, <2>2, <3>2, <3>3 DEF Placed, TaskAt, LoopAt
  <2>6. PlacedInv'
    BY <1>b, <2>2, <2>5 DEF PlacedInv, LoopAt
  <2> QED
    BY <1>a, <1>b, <2>2, <2>3, <2>4, <2>6 DEF IdsInv
<1>1. CASE Sample
  <2> DEFINE item == [id |-> taken + 1, boot |-> boot, seq |-> sequence, reading |-> taken + 1]
  <2>1. /\ loop.at = "idle" /\ taken + 1 \in Readings /\ taken' = taken + 1
        /\ UNCHANGED <<queue, size, task, requests, rows>>
        /\ IF Full
           THEN fate' = [fate EXCEPT ![taken + 1] = "dropped"] /\ loop' = loop
           ELSE /\ fate' = [fate EXCEPT ![taken + 1] = "queued"]
                /\ loop' = [at |-> "sample", item |-> item, read |-> 0]
        /\ overlapped' = IF TaskAt("read") \/ TaskAt("write") THEN overlapped \cup {taken + 1} ELSE overlapped
    BY <1>1 DEF Sample, LoopAt, endpoint
  <2>2. item.id = taken + 1
    OBVIOUS
  <2> HIDE DEF item
  <2>3. /\ fate' \in [Readings -> Fates]
        /\ \A id \in Readings \ {taken + 1} : fate'[id] = fate[id]
        /\ fate'[taken + 1] # "acknowledged"
        /\ Full => fate'[taken + 1] = "dropped"
    BY <2>1 DEF Shapes, Fates
  <2>4. Shapes'
    BY <2>1, <2>3 DEF Shapes
  <2>5. loop'.item.id <= taken' /\ (~Full => loop'.at = "sample" /\ loop'.item.id = taken + 1)
    BY <1>t, <2>1, <2>2 DEF IdsInv
  <2>6. IdsInv'
    BY <1>t, <2>1, <2>5 DEF IdsInv
  <2>7. RequestsInv'
    BY <2>1 DEF RequestsInv, IsStored, TaskAt
  <2>8. FatesInv'
    BY <1>t, <2>1, <2>3 DEF FatesInv, IdsInv, IsStored, TaskAt
  <2>9. EnqueueInv'
    BY <2>1, <2>5 DEF EnqueueInv, LoopAt, TaskAt
  <2>10. ASSUME NEW id \in Readings \ overlapped', fate'[id] = "queued"
         PROVE  Placed(id)' \/ (~LoopAt("idle")' /\ loop'.item.id = id)
    <3>1. CASE id = taken + 1
      BY <2>1, <2>3, <2>5, <2>10, <3>1 DEF LoopAt
    <3>2. CASE id # taken + 1
      <4>1. Placed(id)
        BY <2>1, <2>3, <2>10, <3>2 DEF PlacedInv, LoopAt
      <4>2. ~LoopAt("write")'
        BY <2>1, <2>5 DEF LoopAt
      <4> QED
        BY <2>1, <4>1, <4>2 DEF Placed, TaskAt
    <3> QED
      BY <3>1, <3>2
  <2>11. PlacedInv'
    BY <2>10 DEF PlacedInv
  <2> QED
    BY <2>4, <2>6, <2>7, <2>8, <2>9, <2>11
<1>2. CASE WriteSample
  <2> DEFINE item == [queue[size] EXCEPT !.sample = loop.item]
  <2>1. /\ loop.at = "sample" /\ loop' = [loop EXCEPT !.at = "body"]
        /\ queue' = [queue EXCEPT ![size] = item]
        /\ UNCHANGED <<requests, rows, task, fate, overlapped, taken, size>>
    BY <1>2 DEF WriteSample, LoopAt, LoopTo, life, endpoint
  <2>2. size < Capacity /\ size \in Slots
    BY <1>t, <2>1 DEF QueueInv, QueueOK, LoopAt
  <2>3. item \in Items /\ item.sample = loop.item
    BY <1>t, <2>2 DEF Items
  <2> HIDE DEF item
  <2> QED
    BY <1>b, <2>1, <2>2, <2>3 DEF IdsInv
<1>3. CASE WriteBody
  <2> DEFINE item == [queue[size] EXCEPT !.body = loop.item]
  <2>1. /\ loop.at = "body" /\ loop' = [loop EXCEPT !.at = "attempts"]
        /\ queue' = [queue EXCEPT ![size] = item]
        /\ UNCHANGED <<requests, rows, task, fate, overlapped, taken, size>>
    BY <1>3 DEF WriteBody, LoopAt, LoopTo, life, endpoint
  <2>2. size < Capacity /\ size \in Slots
    BY <1>t, <2>1 DEF QueueInv, QueueOK, LoopAt
  <2>3. item \in Items /\ item.body = loop.item /\ item.sample = queue[size].sample
    BY <1>t, <2>2 DEF Items
  <2>4. item.sample.id <= taken /\ (loop.item.id \notin overlapped => item.sample = loop.item)
    BY <2>1, <2>2, <2>3 DEF IdsInv, EnqueueInv, LoopAt
  <2> HIDE DEF item
  <2> QED
    BY <1>b, <2>1, <2>2, <2>3, <2>4
<1>4. CASE WriteAttempts
  <2> DEFINE item == [queue[size] EXCEPT !.attempts = 0]
  <2>1. /\ loop.at = "attempts" /\ loop' = [loop EXCEPT !.at = "read"]
        /\ queue' = [queue EXCEPT ![size] = item]
        /\ UNCHANGED <<requests, rows, task, fate, overlapped, taken, size>>
    BY <1>4 DEF WriteAttempts, LoopAt, LoopTo, life, endpoint
  <2>2. size < Capacity /\ size \in Slots
    BY <1>t, <2>1 DEF QueueInv, QueueOK, LoopAt
  <2>3. item \in Items /\ item.body = queue[size].body /\ item.sample = queue[size].sample
    BY <1>t, <2>2, FirmwareAssumption DEF Items
  <2>4. /\ item.sample.id <= taken
        /\ loop.item.id \notin overlapped => item.sample = loop.item /\ item.body = loop.item
    BY <2>1, <2>2, <2>3 DEF IdsInv, EnqueueInv, LoopAt
  <2> HIDE DEF item
  <2> QED
    BY <1>b, <2>1, <2>2, <2>3, <2>4
<1>5. CASE ReadSize
  <2>1. /\ loop.at = "read" /\ loop' = [loop EXCEPT !.at = "write", !.read = size]
        /\ UNCHANGED <<queue, requests, rows, task, fate, overlapped, taken, size>>
    BY <1>5 DEF ReadSize, LoopAt, life, endpoint
  <2>2. loop'.at = "write" /\ loop'.read = size /\ loop'.item = loop.item
    BY <1>t, <2>1
  <2>3. EnqueueInv'
    BY <2>1, <2>2 DEF EnqueueInv, LoopAt, TaskAt
  <2>4. PlacedInv'
    BY <2>1, <2>2 DEF PlacedInv, Placed, LoopAt, TaskAt
  <2> QED
    BY <1>a, <2>1, <2>2, <2>3, <2>4 DEF IdsInv
<1>6. CASE WriteSize
  <2>1. /\ loop.at = "write" /\ loop' = LoopIdle /\ size' = loop.read + 1
        /\ UNCHANGED <<queue, requests, rows, task, fate, overlapped, taken>>
    BY <1>6 DEF WriteSize, LoopAt, life, endpoint
  <2>2. loop'.at = "idle" /\ loop'.item.id = 0
    BY <2>1 DEF LoopIdle, NoBody
  <2>3. ASSUME NEW id \in Readings \ overlapped, fate[id] = "queued"
        PROVE  Placed(id)'
    <3>1. CASE Placed(id)
      <4>1. PICK i \in Slots :
              /\ queue[i].sample.id = id /\ queue[i].body.id = id
              /\ i < size /\ i < loop.read
              /\ TaskAt("write") => i + 1 < task.read
        BY <2>1, <3>1 DEF Placed, LoopAt
      <4>2. i < size' /\ i + 1 < size'
        BY <1>t, <2>1, <4>1
      <4> QED
        BY <2>1, <2>2, <4>1, <4>2 DEF Placed, LoopAt, TaskAt
    <3>2. CASE loop.item.id = id
      <4>1. /\ queue[size].sample.id = id /\ queue[size].body.id = id /\ loop.read = size
            /\ ~TaskAt("read") /\ ~TaskAt("write")
        BY <2>1, <2>3, <3>2 DEF EnqueueInv, LoopAt
      <4>2. loop.read < Capacity
        BY <2>1 DEF QueueInv, QueueOK, LoopAt
      <4>3. size \in Slots /\ size < size'
        BY <1>t, <2>1, <4>1, <4>2
      <4> QED
        BY <2>1, <2>2, <4>1, <4>3 DEF Placed, LoopAt, TaskAt
    <3> QED
      BY <2>3, <3>1, <3>2 DEF PlacedInv
  <2>4. PlacedInv'
    BY <2>1, <2>3 DEF PlacedInv
  <2>5. EnqueueInv'
    BY <2>2 DEF EnqueueInv, LoopAt
  <2> QED
    BY <1>a, <1>t, <2>1, <2>2, <2>4, <2>5 DEF IdsInv
<1> QED
  BY <1>1, <1>2, <1>3, <1>4, <1>5, <1>6 DEF Loop

-----------------------------------------------------------------------------
(* The requests                                                            *)

\* A step that leaves the queue alone, and at most stores a reading.
LEMMA ReadingServer ==
  ASSUME FirmwareInv, UNCHANGED firmware,
         requests' \subseteq Requests, rows \subseteq rows', rows' \subseteq Bodies, RequestsInv'
  PROVE  FirmwareInv'
<1>1. \A id : IsStored(id) => IsStored(id)'
  BY DEF IsStored
<1>2. UNCHANGED <<queue, size, loop, task, boot, taken, sequence, fate, overlapped>>
  BY DEF firmware, life
<1>3. Shapes' /\ IdsInv'
  BY <1>2 DEF FirmwareInv, Shapes, IdsInv
<1>4. FatesInv'
  BY <1>1, <1>2 DEF FirmwareInv, FatesInv, TaskAt
<1>5. EnqueueInv' /\ PlacedInv'
  BY <1>2 DEF FirmwareInv, EnqueueInv, PlacedInv, Placed, LoopAt, TaskAt
<1> QED
  BY <1>3, <1>4, <1>5 DEF FirmwareInv

\* What becomes of the requests when one of them is answered or admitted.
LEMMA RequestReplaced ==
  ASSUME Shapes, RequestsInv, UNCHANGED <<task>>, rows \subseteq rows', NEW r \in requests, NEW q \in Requests,
         q.key = r.key, q.awaited = r.awaited,
         q.at = "answered" /\ q.status \in {200, 201} => IsStored(r.key)',
         requests' \in {requests \ {r}, (requests \ {r}) \cup {q}}
  PROVE  requests' \subseteq Requests /\ RequestsInv'
<1>1. \A id : IsStored(id) => IsStored(id)'
  BY DEF IsStored
<1>2. requests' \subseteq Requests
  BY DEF Shapes
<1>3. ASSUME NEW s \in requests'
      PROVE  /\ s.awaited => TaskAt("wait")' /\ s.key = task'.item.sample.id
             /\ s.at = "answered" /\ s.status \in {200, 201} => IsStored(s.key)'
  <2>1. CASE s = q
    BY <2>1 DEF RequestsInv, TaskAt
  <2>2. CASE s \in requests
    BY <1>1, <2>2 DEF RequestsInv, TaskAt
  <2> QED
    BY <1>3, <2>1, <2>2
<1>4. ASSUME NEW s \in requests', NEW u \in requests', s.awaited, u.awaited
      PROVE  s = u
  BY <1>4 DEF RequestsInv
<1> QED
  BY <1>2, <1>3, <1>4 DEF RequestsInv

\* The request as Admit and Answer leave it.
LEMMA RequestChanged ==
  ASSUME NEW r \in Requests
  PROVE  /\ LET q == [r EXCEPT !.at = "admitted"]
            IN  q \in Requests /\ q.key = r.key /\ q.awaited = r.awaited /\ q.at = "admitted"
         /\ \A status \in Nat :
              LET q == [r EXCEPT !.at = "answered", !.status = status]
              IN  q \in Requests /\ q.key = r.key /\ q.awaited = r.awaited /\ q.status = status
  BY DEF Requests

\* An answer that the endpoint gives; 2xx only to what is stored.
LEMMA ReadingAnswer ==
  ASSUME FirmwareInv, UNCHANGED firmware, rows \subseteq rows', rows' \subseteq Bodies,
         NEW r \in requests, NEW status \in Nat, Answer(r, status),
         status \in {200, 201} => IsStored(r.key)'
  PROVE  FirmwareInv'
<1>1. r \in Requests
  BY DEF FirmwareInv, Shapes
<1> DEFINE q == [r EXCEPT !.at = "answered", !.status = status]
<1>2. q \in Requests /\ q.key = r.key /\ q.awaited = r.awaited /\ q.status = status
  BY <1>1, RequestChanged
<1>3. requests' \in {requests \ {r}, (requests \ {r}) \cup {q}}
  BY DEF Answer
<1>4. UNCHANGED task
  BY DEF firmware
<1> HIDE DEF q
<1>5. requests' \subseteq Requests /\ RequestsInv'
  BY <1>2, <1>3, <1>4, RequestReplaced DEF FirmwareInv
<1> QED
  BY <1>5, ReadingServer

\* DeviceAuthGuard refuses or lets pass.
LEMMA ReadingGuard ==
  ASSUME FirmwareInv, UNCHANGED firmware, NEW r \in requests, Guard(r)
  PROVE  FirmwareInv'
<1>1. rows' = rows /\ rows' \subseteq Bodies
  BY DEF Guard, FirmwareInv, Shapes
<1>2. (\E status \in {401, 429, 500} : Answer(r, status)) \/ Admit(r)
  <2>1. PICK status \in {0, 429, 500} :
          /\ Limit(Device, status)
          /\ CASE status # 0 -> Answer(r, status)
               [] status = 0 /\ ~trusted -> Answer(r, 401)
               [] status = 0 /\ trusted -> Admit(r)
    BY Zenon DEF Guard
  <2>2. CASE status # 0
    <3>1. Answer(r, status)
      BY <2>1, <2>2
    <3> QED
      BY <2>2, <3>1
  <2>3. CASE status = 0 /\ ~trusted
    BY <2>1, <2>3
  <2>4. CASE status = 0 /\ trusted
    BY <2>1, <2>4
  <2> QED
    BY <2>2, <2>3, <2>4
<1>3. CASE \E status \in {401, 429, 500} : Answer(r, status)
  <2>1. PICK status \in {401, 429, 500} : Answer(r, status)
    BY <1>3
  <2> QED
    BY <1>1, <2>1, ReadingAnswer
<1>4. CASE Admit(r)
  <2> DEFINE q == [r EXCEPT !.at = "admitted"]
  <2>1. q \in Requests /\ q.key = r.key /\ q.awaited = r.awaited /\ q.at = "admitted"
    BY RequestChanged DEF FirmwareInv, Shapes
  <2>2. requests' = (requests \ {r}) \cup {q}
    BY <1>4 DEF Admit
  <2>3. UNCHANGED task
    BY DEF firmware
  <2> HIDE DEF q
  <2>4. requests' \subseteq Requests /\ RequestsInv'
    BY <1>1, <2>1, <2>2, <2>3, RequestReplaced DEF FirmwareInv
  <2> QED
    BY <1>1, <2>4, ReadingServer
<1> QED
  BY <1>2, <1>3, <1>4

\* ingest() stores, knows it already, or refuses.
LEMMA ReadingIngest ==
  ASSUME FirmwareInv, UNCHANGED firmware, NEW r \in requests, Ingest(r)
  PROVE  FirmwareInv'
<1>1. r.body \in Bodies /\ rows \subseteq Bodies
  BY DEF FirmwareInv, Shapes, Requests
<1>2. CASE trusted \/ r.key # r.body.id
  <2>1. /\ Answer(r, StatusOf(r))
        /\ rows' = IF StatusOf(r) = 201 THEN rows \cup {r.body} ELSE rows
    BY <1>2 DEF Ingest
  <2>2. /\ StatusOf(r) \in {200, 201, 400, 409}
        /\ StatusOf(r) \in {200, 201} => r.key = r.body.id
        /\ StatusOf(r) = 200 => r.body \in rows
    BY DEF StatusOf
  <2>3. StatusOf(r) \in {200, 201} => r.key = r.body.id /\ r.body \in rows'
    BY <2>1, <2>2
  <2>4. StatusOf(r) \in {200, 201} => IsStored(r.key)'
    BY <2>3 DEF IsStored
  <2>5. rows \subseteq rows' /\ rows' \subseteq Bodies
    BY <1>1, <2>1
  <2>6. StatusOf(r) \in Nat
    BY <2>2
  <2> QED
    BY <2>1, <2>4, <2>5, <2>6, ReadingAnswer
<1>3. CASE ~(trusted \/ r.key # r.body.id)
  <2>1. Answer(r, 401) /\ rows' = rows
    BY <1>3 DEF Ingest
  <2> QED
    BY <1>1, <2>1, ReadingAnswer
<1> QED
  BY <1>2, <1>3

\* A request or an answer that is lost, a server that fails.
LEMMA ReadingLost ==
  ASSUME FirmwareInv, UNCHANGED firmware, NEW r \in requests, Break(r) \/ Lose(r)
  PROVE  FirmwareInv'
<1>1. rows' = rows /\ rows' \subseteq Bodies
  BY DEF Break, Lose, FirmwareInv, Shapes
<1>2. CASE Break(r)
  <2>1. Answer(r, 500)
    BY <1>2 DEF Break
  <2> QED
    BY <1>1, <2>1, ReadingAnswer
<1>3. CASE Lose(r)
  <2>1. requests' = requests \ {r}
    BY <1>3 DEF Lose
  <2>2. requests' \subseteq Requests /\ RequestsInv'
    BY <1>1, <2>1 DEF FirmwareInv, Shapes, RequestsInv, IsStored, TaskAt, firmware
  <2> QED
    BY <1>1, <2>2, ReadingServer
<1> QED
  BY <1>2, <1>3

\* Nobody waits for those that are given up.
LEMMA NobodyWaits ==
  ASSUME Shapes, RequestsInv, UNCHANGED rows, requests' = GivenUp
  PROVE  requests' \subseteq Requests /\ RequestsInv' /\ \A r \in requests' : ~r.awaited
<1>1. ASSUME NEW r \in requests
      PROVE  LET q == [r EXCEPT !.awaited = FALSE]
             IN  q \in Requests /\ ~q.awaited /\ q.key = r.key /\ q.at = r.at /\ q.status = r.status
  BY DEF Shapes, Requests
<1>2. ASSUME NEW q \in requests'
      PROVE  /\ q \in Requests /\ ~q.awaited
             /\ q.at = "answered" /\ q.status \in {200, 201} => IsStored(q.key)'
  <2>1. PICK r \in requests : q = [r EXCEPT !.awaited = FALSE]
    BY DEF GivenUp
  <2>2. q \in Requests /\ ~q.awaited /\ q.key = r.key /\ q.at = r.at /\ q.status = r.status
    BY <1>1, <2>1
  <2> QED
    BY <2>2 DEF RequestsInv, IsStored
<1> QED
  BY <1>2 DEF RequestsInv

-----------------------------------------------------------------------------
(* The task                                                                *)

\* The core that sends and removes the front.
LEMMA ReadingTask ==
  ASSUME QueueInv, FirmwareInv, Task
  PROVE  FirmwareInv'
<1> USE DEF FirmwareInv
<1>t. /\ Capacity \in Nat /\ size \in Nat /\ size <= Capacity
      /\ task \in [at : {"idle", "send", "wait", "shift", "read", "write"}, item : Items, read : Nat]
      /\ task.read \in Nat /\ task.item \in Items /\ task.item.sample.id \in Nat
      /\ queue \in [Slots -> Items]
      /\ \A i \in Slots : queue[i] \in Items /\ queue[i].sample.id \in Nat /\ i \in Nat /\ i < Capacity
      /\ \A i \in Nat : i < Capacity => i \in Slots
  BY Typed DEF QueueInv, QueueOK
<1>i. TaskIdle.at = "idle" /\ TaskIdle.item.sample.id = 0 /\ 0 <= taken
  BY Typed DEF TaskIdle, EmptySlot, NoBody
\* It sends: the queue and the fates stay.
<1>a. ASSUME UNCHANGED <<queue, size, loop, taken, fate, overlapped, rows>>,
             task'.at \in {"idle", "send", "wait"}, task'.item.sample.id <= taken,
             requests' \subseteq Requests, RequestsInv'
      PROVE  FirmwareInv'
  <2>1. ~TaskAt("read")' /\ ~TaskAt("write")' /\ ~TaskAt("shift")'
    BY <1>a DEF TaskAt
  <2>2. Shapes' /\ IdsInv' /\ FatesInv'
    BY <1>a, <2>1 DEF Shapes, IdsInv, FatesInv, IsStored
  <2>3. EnqueueInv' /\ PlacedInv'
    BY <1>a, <2>1 DEF EnqueueInv, PlacedInv, Placed, LoopAt
  <2> QED
    BY <1>a, <2>2, <2>3
<1>1. CASE Pick
  <2>1. /\ task.at = "idle" /\ size > 0 /\ task' = [at |-> "send", item |-> queue[0], read |-> 0]
        /\ UNCHANGED <<queue, size, loop, taken, fate, overlapped, rows, requests>>
    BY <1>1 DEF Pick, Sendable, TaskAt, life, endpoint
  <2>2. task'.at = "send" /\ task'.item.sample.id <= taken
    BY <2>1, FirstSlot DEF IdsInv
  <2>3. requests' \subseteq Requests /\ RequestsInv'
    BY <2>1 DEF Shapes, RequestsInv, TaskAt, IsStored
  <2> QED
    BY <1>a, <2>1, <2>2, <2>3
<1>2. CASE Defer
  <2>1. /\ task.at = "send" /\ task' = TaskIdle
        /\ UNCHANGED <<queue, size, loop, taken, fate, overlapped, rows, requests>>
    BY <1>2 DEF Defer, TaskAt, life, endpoint
  <2>2. requests' \subseteq Requests /\ RequestsInv'
    BY <2>1 DEF Shapes, RequestsInv, TaskAt, IsStored
  <2> QED
    BY <1>a, <1>i, <2>1, <2>2
<1>3. CASE Send
  <2> DEFINE new == [key |-> task.item.sample.id, body |-> task.item.body, at |-> "sent", status |-> 0,
                     awaited |-> TRUE]
  <2>1. /\ task.at = "send" /\ task' = [task EXCEPT !.at = "wait"]
        /\ requests' = requests \cup {new}
        /\ UNCHANGED <<queue, size, loop, taken, fate, overlapped, rows>>
    BY <1>3 DEF Send, Post, TaskAt, TaskTo, life
  <2>2. task'.at = "wait" /\ task'.item = task.item
    BY <1>t, <2>1
  <2>3. new \in Requests /\ new.key = task.item.sample.id /\ new.awaited /\ new.at = "sent"
    BY <1>t DEF Requests, Items
  <2> HIDE DEF new
  <2>4. \A r \in requests : ~r.awaited
    BY <2>1 DEF RequestsInv, TaskAt
  <2>5. requests' \subseteq Requests /\ RequestsInv'
    BY <2>1, <2>2, <2>3, <2>4 DEF Shapes, RequestsInv, TaskAt, IsStored
  <2> QED
    BY <1>a, <2>1, <2>2, <2>5 DEF IdsInv
\* It returns, and one attempt is counted or none.
<1>r. ASSUME task' = TaskIdle, queue' = Retried,
             UNCHANGED <<size, loop, taken, fate, overlapped, rows>>,
             requests' \subseteq Requests, RequestsInv'
      PROVE  FirmwareInv'
  <2>1. /\ queue' \in [Slots -> Items]
        /\ \A i \in Slots : queue'[i].sample = queue[i].sample /\ queue'[i].body = queue[i].body
    BY <1>r, RetriedIsQueue DEF QueueInv
  <2>2. ~TaskAt("read")' /\ ~TaskAt("write")' /\ ~TaskAt("shift")'
    BY <1>i, <1>r DEF TaskAt
  <2>3. Shapes' /\ IdsInv' /\ FatesInv'
    BY <1>r, <1>i, <2>1, <2>2 DEF Shapes, IdsInv, FatesInv, IsStored
  <2>4. ~LoopAt("idle") /\ ~LoopAt("sample") /\ ~LoopAt("write") => size \in Slots
    <3>1. LoopAt("body") \/ LoopAt("attempts") \/ LoopAt("read") \/ LoopAt("idle") \/ LoopAt("sample") \/ LoopAt("write")
      BY DEF QueueInv, QueueOK, LoopAt
    <3> QED
      BY <1>t, <3>1 DEF QueueInv, QueueOK
  <2>5. LoopAt("write") /\ loop.read = size => size \in Slots
    BY <1>t DEF QueueInv, QueueOK
  <2>6. EnqueueInv'
    BY <1>r, <2>1, <2>2, <2>4, <2>5 DEF EnqueueInv, LoopAt
  <2>7. PlacedInv'
    BY <1>r, <2>1, <2>2 DEF PlacedInv, Placed, LoopAt
  <2> QED
    BY <1>r, <2>3, <2>6, <2>7
<1>9. CASE BeginFails
  <2>1. /\ task.at = "send" /\ task' = TaskIdle /\ queue' = Retried
        /\ UNCHANGED <<size, loop, taken, fate, overlapped, rows, requests>>
    BY <1>9 DEF BeginFails, TaskAt, life, endpoint
  <2>2. requests' \subseteq Requests /\ RequestsInv'
    BY <2>1 DEF Shapes, RequestsInv, TaskAt, IsStored
  <2> QED
    BY <1>r, <2>1, <2>2
\* It takes note of a status.
<1>c. ASSUME NEW status, Conclude(status), UNCHANGED <<size, loop, taken, overlapped, rows>>,
             status \in {200, 201} => IsStored(task.item.sample.id),
             requests' \subseteq Requests, \A r \in requests' : ~r.awaited,
             \A r \in requests' : r.at = "answered" /\ r.status \in {200, 201} => IsStored(r.key)
      PROVE  FirmwareInv'
  <2>1. RequestsInv'
    BY <1>c DEF RequestsInv, IsStored
  <2>2. CASE task' = TaskIdle /\ fate' = fate /\ queue' = Retried
    BY <1>c, <1>r, <2>1, <2>2
  <2>3. CASE /\ task' = [task EXCEPT !.at = "shift"] /\ queue' = queue
             /\ \E verdict \in {"acknowledged", "exhausted", "refused"} :
                  /\ fate' = [fate EXCEPT ![task.item.sample.id] = IF @ # "queued" THEN @ ELSE verdict]
                  /\ verdict = "acknowledged" => status \in {200, 201}
    <3>1. PICK verdict \in {"acknowledged", "exhausted", "refused"} :
            /\ fate' = [fate EXCEPT ![task.item.sample.id] = IF @ # "queued" THEN @ ELSE verdict]
            /\ verdict = "acknowledged" => status \in {200, 201}
      BY <2>3
    <3>2. task'.at = "shift" /\ task'.item = task.item
      BY <1>t, <2>3
    <3>3. /\ fate' \in [Readings -> Fates]
          /\ \A id \in Readings : fate'[id] = fate[id] \/ (id = task.item.sample.id /\ fate'[id] = verdict)
          /\ task.item.sample.id \in Readings => fate'[task.item.sample.id] # "queued"
      <4> DEFINE told == task.item.sample.id
                 new == IF fate[told] # "queued" THEN fate[told] ELSE verdict
      <4>1. fate' = [fate EXCEPT ![told] = new] /\ fate \in [Readings -> Fates]
        BY <3>1 DEF Shapes
      <4>2. told \in Readings => new \in Fates /\ new # "queued" /\ new \in {fate[told], verdict}
        BY <4>1 DEF Fates
      <4> HIDE DEF told, new
      <4>3. /\ fate' \in [Readings -> Fates]
            /\ \A id \in Readings : fate'[id] = IF id = told THEN new ELSE fate[id]
        BY <4>1, <4>2
      <4>4. /\ \A id \in Readings : fate'[id] = fate[id] \/ (id = told /\ fate'[id] = verdict)
            /\ told \in Readings => fate'[told] # "queued"
        BY <4>2, <4>3
      <4> QED
        BY <4>3, <4>4 DEF told
    <3>4. Shapes' /\ IdsInv'
      BY <1>c, <2>3, <3>2, <3>3 DEF Shapes, IdsInv
    <3>5. FatesInv'
      BY <1>c, <3>1, <3>2, <3>3 DEF FatesInv, TaskAt, IsStored
    <3>6. ~TaskAt("read")' /\ ~TaskAt("write")'
      BY <3>2 DEF TaskAt
    <3>7. EnqueueInv'
      BY <1>c, <2>3, <3>6 DEF EnqueueInv, LoopAt
    <3>8. \A id \in Readings : fate'[id] = "queued" => fate[id] = "queued"
      BY <3>3
    <3>9. PlacedInv'
      BY <1>c, <2>3, <3>6, <3>8 DEF PlacedInv, Placed, LoopAt
    <3> QED
      BY <2>1, <3>4, <3>5, <3>7, <3>9
  <2> QED
    BY <1>c, <2>2, <2>3 DEF Conclude, TaskTo
<1>4. CASE \E r \in requests : TakeAnswer(r)
  <2>1. PICK r \in requests : TakeAnswer(r)
    BY <1>4
  <2>2. /\ TaskAt("wait") /\ r.awaited /\ r.at = "answered" /\ Conclude(r.status)
        /\ requests' = requests \ {r}
        /\ UNCHANGED <<size, loop, taken, overlapped, rows>>
    BY <2>1 DEF TakeAnswer, life
  <2>3. r.status \in {200, 201} => IsStored(task.item.sample.id)
    BY <2>2 DEF RequestsInv
  <2>4. \A q \in requests' : ~q.awaited
    BY <2>2 DEF RequestsInv
  <2>5. /\ requests' \subseteq Requests
        /\ \A q \in requests' : q.at = "answered" /\ q.status \in {200, 201} => IsStored(q.key)
    BY <2>2 DEF RequestsInv, Shapes
  <2> QED
    BY <1>c, <2>2, <2>3, <2>4, <2>5
<1>5. CASE NoAnswer
  <2>1. /\ Conclude(0) /\ requests' = GivenUp
        /\ UNCHANGED <<size, loop, taken, overlapped, rows>>
    BY <1>5 DEF NoAnswer, life
  <2>2. requests' \subseteq Requests /\ RequestsInv' /\ \A r \in requests' : ~r.awaited
    BY <2>1, NobodyWaits
  <2>3. \A q \in requests' : q.at = "answered" /\ q.status \in {200, 201} => IsStored(q.key)
    BY <2>1, <2>2 DEF RequestsInv, IsStored
  <2> QED
    BY <1>c, <2>1, <2>2, <2>3
\* It removes the front: nothing that is enqueued meanwhile counts.
<1>d. ASSUME UNCHANGED <<loop, taken, fate, rows, requests>>, task.at \in {"shift", "read", "write"},
             task'.at \in {"idle", "read", "write"}, task'.item.sample.id <= taken,
             overlapped' = overlapped \cup Enqueuing,
             \A i \in Slots : queue'[i].sample.id <= taken,
             \A id \in Readings \ overlapped : fate[id] = "queued" /\ Placed(id) => Placed(id)'
      PROVE  FirmwareInv'
  <2>1. ~LoopAt("idle") => loop.item.id \in overlapped'
    BY <1>d DEF Enqueuing
  <2>2. \A r \in requests : ~r.awaited
    BY <1>d DEF RequestsInv, TaskAt
  <2>3. RequestsInv'
    BY <1>d, <2>2 DEF RequestsInv, IsStored
  <2>4. Shapes' /\ IdsInv' /\ FatesInv'
    BY <1>d DEF Shapes, IdsInv, FatesInv, IsStored, TaskAt
  <2>5. EnqueueInv' /\ PlacedInv'
    BY <1>d, <2>1 DEF EnqueueInv, PlacedInv, LoopAt
  <2> QED
    BY <2>3, <2>4, <2>5
<1>6. CASE Shift
  <2>1. /\ task.at = "shift"
        /\ UNCHANGED <<size, loop, taken, fate, rows, requests>>
        /\ overlapped' = overlapped \cup Enqueuing
    BY <1>6 DEF Shift, TaskAt, life, endpoint
  <2>2. CASE IsFront(task.item)
    <3>1. task' = [task EXCEPT !.at = "read"] /\ queue' = Shifted
      BY <1>6, <2>2 DEF Shift, TaskTo
    <3>2. task'.at = "read" /\ task'.item = task.item
      BY <1>t, <3>1
    <3>3. \A i \in Slots : queue'[i] = IF i + 1 < size THEN queue[i + 1] ELSE queue[i]
      BY <3>1 DEF Shifted
    <3>4. ASSUME NEW i \in Slots PROVE queue'[i].sample.id <= taken
      <4>1. i + 1 < size => i + 1 \in Slots
        BY <1>t
      <4> QED
        BY <3>3, <4>1 DEF IdsInv
    <3>5. ASSUME NEW id \in Readings \ overlapped, fate[id] = "queued", Placed(id)
          PROVE  Placed(id)'
      <4>1. PICK i \in Slots :
              /\ queue[i].sample.id = id /\ queue[i].body.id = id
              /\ i < size
              /\ LoopAt("write") => i < loop.read
        BY <3>5 DEF Placed
      <4>2. i # 0
        BY <2>1, <2>2, <3>5, <4>1 DEF FatesInv, IsFront, TaskAt
      <4>3. i \in Nat /\ i - 1 \in Nat /\ i - 1 < Capacity /\ (i - 1) + 1 = i
        BY <1>t, <4>2
      <4>4. i - 1 \in Slots /\ queue'[i - 1] = queue[i]
        BY <1>t, <3>3, <4>1, <4>3
      <4>5. loop.read \in Nat
        BY Typed
      <4>6. i - 1 < size /\ (LoopAt("write") => i - 1 < loop.read)
        BY <1>t, <4>1, <4>3, <4>5
      <4> QED
        BY <2>1, <3>2, <4>1, <4>3, <4>4, <4>6 DEF Placed, LoopAt, TaskAt
    <3> QED
      BY <1>d, <2>1, <3>2, <3>4, <3>5 DEF IdsInv
  <2>3. CASE ~IsFront(task.item)
    <3>1. task' = TaskIdle /\ queue' = queue
      BY <1>6, <2>3 DEF Shift
    <3>2. \A id \in Readings \ overlapped : fate[id] = "queued" /\ Placed(id) => Placed(id)'
      BY <1>i, <2>1, <3>1 DEF Placed, LoopAt, TaskAt
    <3> QED
      BY <1>d, <1>i, <2>1, <3>1, <3>2 DEF IdsInv
  <2> QED
    BY <2>2, <2>3
<1>7. CASE ReadFromSize
  <2>1. /\ task.at = "read" /\ task' = [task EXCEPT !.at = "write", !.read = size]
        /\ UNCHANGED <<queue, size, loop, taken, fate, rows, requests>>
        /\ overlapped' = overlapped \cup Enqueuing
    BY <1>7 DEF ReadFromSize, TaskAt, life, endpoint
  <2>2. task'.at = "write" /\ task'.item = task.item /\ task'.read = size
    BY <1>t, <2>1
  <2>3. \A id \in Readings \ overlapped : fate[id] = "queued" /\ Placed(id) => Placed(id)'
    BY <2>1, <2>2 DEF Placed, LoopAt, TaskAt
  <2> QED
    BY <1>d, <2>1, <2>2, <2>3 DEF IdsInv
<1>8. CASE WriteBack
  <2>1. /\ task.at = "write" /\ task' = TaskIdle /\ size' = task.read - 1
        /\ UNCHANGED <<queue, loop, taken, fate, rows, requests>>
        /\ overlapped' = overlapped \cup Enqueuing
    BY <1>8 DEF WriteBack, TaskAt, life, endpoint
  <2>2. ASSUME NEW id \in Readings \ overlapped, Placed(id) PROVE Placed(id)'
    <3>1. PICK i \in Slots :
            /\ queue[i].sample.id = id /\ queue[i].body.id = id
            /\ i + 1 < task.read
            /\ LoopAt("write") => i < loop.read
      BY <2>1, <2>2 DEF Placed, TaskAt
    <3>2. i < size'
      BY <1>t, <2>1, <3>1
    <3> QED
      BY <1>i, <2>1, <3>1, <3>2 DEF Placed, LoopAt, TaskAt
  <2> QED
    BY <1>d, <1>i, <2>1, <2>2 DEF IdsInv
<1> QED
  BY <1>1, <1>2, <1>3, <1>4, <1>5, <1>6, <1>7, <1>8, <1>9 DEF Task

-----------------------------------------------------------------------------
(* The whole                                                               *)

\* The queue is gone, and so is what it promised.
LEMMA ReadingReboot ==
  ASSUME QueueInv, FirmwareInv, Reboot
  PROVE  FirmwareInv'
<1>1. /\ loop' = LoopIdle /\ task' = TaskIdle /\ queue' = [i \in Slots |-> EmptySlot]
      /\ fate' = [i \in Readings |-> IF fate[i] = "queued" THEN "wiped" ELSE fate[i]]
      /\ requests' = GivenUp
      /\ UNCHANGED <<taken, overlapped, rows>>
  BY DEF Reboot
<1>2. requests' \subseteq Requests /\ RequestsInv'
  BY <1>1, NobodyWaits DEF FirmwareInv
<1>3. /\ fate' \in [Readings -> Fates]
      /\ \A id \in Readings : fate'[id] # "queued" /\ (fate'[id] = "acknowledged" => fate[id] = "acknowledged")
  BY <1>1 DEF FirmwareInv, Shapes, Fates
<1>4. Shapes' /\ FatesInv' /\ PlacedInv'
  BY <1>1, <1>2, <1>3 DEF FirmwareInv, Shapes, FatesInv, PlacedInv, IsStored
<1>5. IdsInv' /\ EnqueueInv'
  BY <1>1, Typed DEF IdsInv, EnqueueInv, LoopIdle, TaskIdle, EmptySlot, NoBody, LoopAt
<1> QED
  BY <1>2, <1>4, <1>5 DEF FirmwareInv

LEMMA ReadingStep == QueueInv /\ ReadingInv /\ [Next]_vars => ReadingInv'
<1> SUFFICES ASSUME QueueInv, ReadingInv, [Next]_vars
             PROVE  ReadingInv'
  OBVIOUS
<1>1. client' = client
  BY DEF Next, ByFirmware, BySimulator, ByServer, ByRunner, vars
<1>2. QueueInv'
  BY QueueStep
<1>3. CASE client # "firmware"
  <2>1. UNCHANGED fate
    BY <1>3 DEF Next, ByFirmware, BySimulator, ByServer, ByRunner, vars, firmware
  <2> QED
    BY <1>1, <1>3, <2>1 DEF ReadingInv
<1>4. CASE client = "firmware"
  <2>1. FirmwareInv
    BY <1>4 DEF ReadingInv
  <2>2. ASSUME UNCHANGED <<firmware, rows, requests>> PROVE FirmwareInv'
    <3>1. rows' \subseteq Bodies /\ requests' \subseteq Requests
      BY <2>1, <2>2 DEF FirmwareInv, Shapes
    <3>2. RequestsInv'
      BY <2>1, <2>2 DEF FirmwareInv, RequestsInv, TaskAt, IsStored, firmware
    <3> QED
      BY <2>1, <2>2, <3>1, <3>2, ReadingServer
  <2>3. ASSUME ByFirmware /\ Loop PROVE FirmwareInv'
    BY <1>2, <2>1, <2>3, ReadingLoop
  <2>4. ASSUME ByFirmware /\ Task PROVE FirmwareInv'
    BY <2>1, <2>4, ReadingTask
  <2>5. ASSUME ByFirmware /\ Reboot PROVE FirmwareInv'
    BY <2>1, <2>5, ReadingReboot
  <2>6. ASSUME ByFirmware /\ (LoseNetwork \/ Reconnect \/ LoseClient \/ RegainClient) PROVE FirmwareInv'
    <3>1. UNCHANGED <<queue, size, loop, task, life, fate, overlapped, rows, requests>>
      BY <2>6 DEF LoseNetwork, Reconnect, LoseClient, RegainClient, endpoint
    <3> QED
      BY <2>1, <3>1 DEF FirmwareInv, Shapes, IdsInv, RequestsInv, FatesInv, EnqueueInv, PlacedInv, Placed,
         LoopAt, TaskAt, IsStored, life
  <2>7. ASSUME ByServer /\ \E r \in requests : Guard(r) PROVE FirmwareInv'
    BY <2>1, <2>7, ReadingGuard DEF ByServer
  <2>8. ASSUME ByServer /\ \E r \in requests : Ingest(r) PROVE FirmwareInv'
    BY <2>1, <2>8, ReadingIngest DEF ByServer
  <2>9. ASSUME ByServer /\ \E r \in requests : Break(r) \/ Lose(r) PROVE FirmwareInv'
    BY <2>1, <2>9, ReadingLost DEF ByServer
  <2>10. ASSUME ByServer /\ (Distrust \/ (\E k \in Subjects : WindowEnds(k)) \/ (\E k \in Neighbours : Neighbour(k)))
         PROVE  FirmwareInv'
    BY <2>2, <2>10 DEF ByServer, Distrust, WindowEnds, Neighbour
  <2>11. ASSUME UNCHANGED vars PROVE FirmwareInv'
    BY <2>2, <2>11 DEF vars, endpoint
  <2>12. ~BySimulator /\ ~ByRunner
    BY <1>4 DEF BySimulator, ByRunner
  <2>13. FirmwareInv'
    BY <2>3, <2>4, <2>5, <2>6, <2>7, <2>8, <2>9, <2>10, <2>11, <2>12 DEF Next, Loop, Task
  <2> QED
    BY <1>1, <1>4, <2>13 DEF ReadingInv
<1> QED
  BY <1>3, <1>4

\* What is queued and placed, or stored, is not lost.
LEMMA NothingElseIsLost == ReadingInv => OnlyOverlappedAreLost
<1> SUFFICES ASSUME ReadingInv, NEW id \in Readings
             PROVE  \/ fate[id] \in {"untaken", "dropped", "refused", "exhausted", "wiped"}
                    \/ IsStored(id)
                    \/ fate[id] = "queued" /\ (InQueue(id) \/ (~LoopAt("idle") /\ loop.item.id = id))
                    \/ id \in overlapped
  BY DEF OnlyOverlappedAreLost
<1>1. CASE client # "firmware"
  BY <1>1 DEF ReadingInv
<1>2. CASE client = "firmware"
  <2>1. FirmwareInv
    BY <1>2 DEF ReadingInv
  <2>2. fate[id] \in Fates
    BY <2>1 DEF FirmwareInv, Shapes
  <2>3. Placed(id) => InQueue(id)
    BY DEF Placed, InQueue
  <2> QED
    BY <2>1, <2>2, <2>3 DEF FirmwareInv, FatesInv, PlacedInv, Fates
<1> QED
  BY <1>1, <1>2

\* However the loop and the task interleave, however often messages are
\* sent again, answered late or never, with whatever queue and retries: a
\* reading that enqueue() has taken, and that was neither refused nor given
\* up nor wiped by a reboot, is in the queue or stored, unless it was
\* enqueued while another one was taken out (telemetry_client.cpp).
THEOREM NoReadingIsLost == Spec => []OnlyOverlappedAreLost
<1>1. Init => QueueInv /\ ReadingInv
  BY QueueInit, ReadingInit
<1>2. QueueInv /\ ReadingInv /\ [Next]_vars => (QueueInv /\ ReadingInv)'
  BY QueueStep, ReadingStep
<1>3. QueueInv /\ ReadingInv => OnlyOverlappedAreLost
  BY NothingElseIsLost
<1> QED
  BY <1>1, <1>2, <1>3, PTL DEF Spec

-----------------------------------------------------------------------------
(* The simulator stops for a cause.                                        *)

\* The rows after the first n payloads were answered as demanded.
Stored(n) == {Script(scenario)[i].payload : i \in {j \in 1..n : Script(scenario)[j].status = 201}}

\* The one request that is out, if there is one yet.
Asked(r) ==
  /\ r.key = Current.payload.id /\ r.body = Current.payload /\ r.awaited
  /\ \/ r.at \in {"sent", "admitted"} /\ rows = Stored(step)
     \/ /\ r.at = "answered"
        /\ \/ r.status \in {429, 500}
           \/ r.status = 401 /\ ~trusted
           \/ r.status = Current.status /\ rows = Stored(step + 1)

\* While it runs, what is stored is what its scenario says.
RunningInv ==
  /\ step \in Nat /\ step < Len(Script(scenario)) /\ requests \subseteq Requests
  /\ ~sending => requests = {} /\ rows = Stored(step)
  /\ sending => \A r, q \in requests : Asked(r) /\ r = q

SimulatorInv ==
  /\ client # "simulator" => outcome = "running"
  /\ scenario \in Scenarios
  /\ SimulatorStopsForACause
  /\ client = "simulator" /\ sending => outcome = "running"
  /\ client = "simulator" /\ outcome = "running" => RunningInv

\* A scenario sends fresh payloads, and then at most one that repeats the
\* first: as it was, under another id, or with another reading.
LEMMA Scripts ==
  ASSUME NEW s \in Scenarios, NEW i \in Nat, i > 0, i <= Len(Script(s))
  PROVE  \/ /\ Script(s)[i] = Demand(Payload(i), 201)
            /\ \A j \in 1..(i - 1) : Script(s)[j] = Demand(Payload(j), 201)
         \/ /\ i = 2 /\ Script(s)[1] = Demand(Payload(1), 201)
            /\ \/ Script(s)[2] = Demand(Payload(1), 200)
               \/ Script(s)[2] = Demand([Payload(1) EXCEPT !.id = 2], 409)
               \/ Script(s)[2] = Demand([Payload(1) EXCEPT !.reading = 2], 409)
<1>1. CASE s \in {"normal", "missing-tilt", "presentation"}
  <2>1. Script(s) = Normal BY <1>1 DEF Script
  <2>2. Len(Normal) = Count BY SimulatorAssumption DEF Normal
  <2> QED BY <2>1, <2>2, SimulatorAssumption DEF Normal
<1>2. CASE s = "late"
  <2>1. Script(s) = Late BY <1>2 DEF Script
  <2>2. Len(Late) = 2 /\ Late[1] = Demand(Payload(1), 201) /\ Late[2] = Demand(Payload(2), 201) BY DEF Late
  <2> QED BY <2>1, <2>2
<1>3. CASE s = "duplicate"
  <2>1. Script(s) = Duplicate BY <1>3 DEF Script
  <2>2. Len(Duplicate) = 2 /\ Duplicate[1] = Demand(Payload(1), 201) /\ Duplicate[2] = Demand(Payload(1), 200)
    BY DEF Duplicate
  <2> QED BY <2>1, <2>2
<1>4. CASE s = "sequence-conflict"
  <2>1. Script(s) = SequenceConflict BY <1>4 DEF Script
  <2>2. /\ Len(SequenceConflict) = 2 /\ SequenceConflict[1] = Demand(Payload(1), 201)
        /\ SequenceConflict[2] = Demand([Payload(1) EXCEPT !.id = 2], 409)
    BY DEF SequenceConflict
  <2> QED BY <2>1, <2>2
<1>5. CASE s = "idempotency-conflict"
  <2>1. Script(s) = IdempotencyConflict BY <1>5 DEF Script
  <2>2. /\ Len(IdempotencyConflict) = 2 /\ IdempotencyConflict[1] = Demand(Payload(1), 201)
        /\ IdempotencyConflict[2] = Demand([Payload(1) EXCEPT !.reading = 2], 409)
    BY DEF IdempotencyConflict
  <2> QED BY <2>1, <2>2
<1> QED BY <1>1, <1>2, <1>3, <1>4, <1>5 DEF Scenarios

\* With the rows that the script's demands stand for, the endpoint's answer
\* to its next payload is the one that it demands.
LEMMA AnswersDemand ==
  ASSUME scenario \in Scenarios, step \in Nat, step < Len(Script(scenario)), rows = Stored(step),
         NEW r, r.key = Current.payload.id, r.body = Current.payload
  PROVE  /\ StatusOf(r) = Current.status
         /\ Stored(step + 1) = IF Current.status = 201 THEN rows \cup {Current.payload} ELSE rows
<1> DEFINE script == Script(scenario)
<1>1. PICK i \in Nat : i = step + 1 OBVIOUS
<1>2. i > 0 /\ i <= Len(script) /\ step = i - 1 /\ Current = script[i] BY <1>1 DEF Current
<1>3. Stored(step + 1) = Stored(step) \cup (IF script[i].status = 201 THEN {script[i].payload} ELSE {})
  BY <1>1 DEF Stored
<1>4. \A p, status : Demand(p, status).payload = p /\ Demand(p, status).status = status BY DEF Demand
<1>5. \A j : /\ Payload(j).id = j /\ Payload(j).boot = 0 /\ Payload(j).seq = j /\ Payload(j).reading = 1
  BY DEF Payload
<1>6. CASE /\ script[i] = Demand(Payload(i), 201)
           /\ \A j \in 1..(i - 1) : script[j] = Demand(Payload(j), 201)
  <2>1. \A row \in rows : \E j \in 1..(i - 1) : row = Payload(j) BY <1>2, <1>4, <1>6 DEF Stored
  <2>2. r.key = i /\ r.body = Payload(i) /\ r.body.id = i BY <1>2, <1>4, <1>5, <1>6
  <2>3. SameMessage(r.body) = {} BY <1>1, <1>5, <2>1, <2>2 DEF SameMessage
  <2>4. SameSequence(r.body) = {} BY <1>1, <1>5, <2>1, <2>2 DEF SameSequence
  <2>5. StatusOf(r) = 201 BY <2>2, <2>3, <2>4 DEF StatusOf
  <2> QED BY <1>2, <1>3, <1>4, <1>6, <2>5
<1>7. CASE /\ i = 2 /\ script[1] = Demand(Payload(1), 201)
           /\ \/ script[2] = Demand(Payload(1), 200)
              \/ script[2] = Demand([Payload(1) EXCEPT !.id = 2], 409)
              \/ script[2] = Demand([Payload(1) EXCEPT !.reading = 2], 409)
  <2>1. rows = {Payload(1)} BY <1>2, <1>4, <1>7 DEF Stored
  <2>2. CASE script[2] = Demand(Payload(1), 200)
    <3>1. r.key = 1 /\ r.body = Payload(1) /\ r.body.id = 1 BY <1>2, <1>4, <1>5, <1>7, <2>2
    <3>2. SameMessage(r.body) # {} /\ r.body \in rows BY <2>1, <3>1 DEF SameMessage
    <3>3. StatusOf(r) = 200 BY <3>1, <3>2 DEF StatusOf
    <3>4. Current.status = 200 BY <1>2, <1>4, <1>7, <2>2
    <3>5. Stored(step + 1) = rows BY <1>2, <1>3, <3>4
    <3> QED BY <3>3, <3>4, <3>5
  <2>3. CASE script[2] = Demand([Payload(1) EXCEPT !.id = 2], 409)
    <3>1. /\ r.key = 2 /\ r.body.id = 2 /\ r.body.boot = 0 /\ r.body.seq = 1
      BY <1>2, <1>4, <1>7, <2>3 DEF Payload
    <3>2. SameMessage(r.body) = {} /\ SameSequence(r.body) # {}
      BY <1>5, <2>1, <3>1 DEF SameMessage, SameSequence
    <3>3. StatusOf(r) = 409 BY <3>1, <3>2 DEF StatusOf
    <3>4. Current.status = 409 BY <1>2, <1>4, <1>7, <2>3
    <3>5. Stored(step + 1) = rows BY <1>2, <1>3, <3>4
    <3> QED BY <3>3, <3>4, <3>5
  <2>4. CASE script[2] = Demand([Payload(1) EXCEPT !.reading = 2], 409)
    <3>1. /\ r.key = 1 /\ r.body.id = 1 /\ r.body.reading = 2
      BY <1>2, <1>4, <1>7, <2>4 DEF Payload
    <3>2. SameMessage(r.body) # {} /\ r.body \notin rows
      BY <1>5, <2>1, <3>1 DEF SameMessage
    <3>3. StatusOf(r) = 409 BY <3>1, <3>2 DEF StatusOf
    <3>4. Current.status = 409 BY <1>2, <1>4, <1>7, <2>4
    <3>5. Stored(step + 1) = rows BY <1>2, <1>3, <3>4
    <3> QED BY <3>3, <3>4, <3>5
  <2> QED BY <1>7, <2>2, <2>3, <2>4
<1>8. \/ /\ script[i] = Demand(Payload(i), 201)
         /\ \A j \in 1..(i - 1) : script[j] = Demand(Payload(j), 201)
      \/ /\ i = 2 /\ script[1] = Demand(Payload(1), 201)
         /\ \/ script[2] = Demand(Payload(1), 200)
            \/ script[2] = Demand([Payload(1) EXCEPT !.id = 2], 409)
            \/ script[2] = Demand([Payload(1) EXCEPT !.reading = 2], 409)
  BY <1>2, Scripts
<1> QED BY <1>6, <1>7, <1>8

LEMMA SimulatorInvInit == Init => SimulatorInv
<1> SUFFICES ASSUME Init PROVE SimulatorInv
  OBVIOUS
<1>1. /\ scenario \in Scenarios /\ step = 0 /\ sending = FALSE /\ outcome = "running"
      /\ requests = {} /\ rows = {}
  BY DEF Init, SimulatorInit, EndpointInit, Scenarios
<1>2. Stored(0) = {} BY DEF Stored
<1>3. 0 < Len(Script(scenario))
  BY <1>1, SimulatorAssumption
     DEF Script, Scenarios, Normal, Duplicate, SequenceConflict, IdempotencyConflict, Late
<1> QED BY <1>1, <1>2, <1>3 DEF SimulatorInv, SimulatorStopsForACause, RunningInv

\* What a scenario sends is a body that the endpoint understands.
LEMMA PayloadIsBody ==
  ASSUME scenario \in Scenarios, step \in Nat, step < Len(Script(scenario))
  PROVE  Current.payload \in Bodies /\ Current.payload.id \in Nat
<1>1. PICK i \in Nat : i = step + 1 OBVIOUS
<1>2. \A j \in Nat : Payload(j) \in Bodies /\ Demand(Payload(j), 201).payload = Payload(j)
  BY DEF Payload, Bodies, Demand
<1>3. \A p, status : Demand(p, status).payload = p BY DEF Demand
<1>4. [Payload(1) EXCEPT !.id = 2] \in Bodies /\ [Payload(1) EXCEPT !.reading = 2] \in Bodies
  BY DEF Payload, Bodies
<1>5. Current = Script(scenario)[i] /\ i > 0 /\ i <= Len(Script(scenario)) BY <1>1 DEF Current
<1>6. Current.payload \in Bodies BY <1>2, <1>3, <1>4, <1>5, Scripts
<1> QED BY <1>6 DEF Bodies

\* An answer to the running simulator's request, or its way to one.
LEMMA AnswerStep ==
  ASSUME scenario \in Scenarios, RunningInv, UNCHANGED simulator, NEW r \in requests, sending,
         NEW status \in Nat, Answer(r, status),
         status \in {429, 500} \/ (status = 401 /\ ~trusted') \/ (status = Current.status /\ rows' = Stored(step + 1))
  PROVE  RunningInv'
<1>1. requests = {r} /\ Asked(r) /\ r \in Requests BY DEF RunningInv
<1>2. PICK x : x = [r EXCEPT !.at = "answered", !.status = status] OBVIOUS
<1>3. /\ x \in Requests /\ x.at = "answered" /\ x.status = status
      /\ x.key = r.key /\ x.body = r.body /\ x.awaited = r.awaited
  BY <1>1, <1>2 DEF Requests
<1>4. requests' = {x} BY <1>1, <1>2 DEF Answer, Asked
<1>5. Asked(x)' BY <1>1, <1>3 DEF Asked, simulator, Current, Stored
<1> QED BY <1>3, <1>4, <1>5 DEF RunningInv, simulator

\* Steps of the server: an answer is the one demanded, or has a cause.
LEMMA SimulatorServer ==
  ASSUME SimulatorInv, client = "simulator", ByServer,
         \/ \E r \in requests : Guard(r) \/ Ingest(r) \/ Break(r) \/ Lose(r)
         \/ Distrust \/ (\E k \in Subjects : WindowEnds(k)) \/ \E k \in Neighbours : Neighbour(k)
  PROVE  SimulatorInv'
<1>1. UNCHANGED simulator /\ client' = client BY DEF ByServer
<1>2. ~trusted => ~trusted'
  BY DEF Guard, Ingest, Break, Lose, Distrust, WindowEnds, Neighbour
<1>3. SUFFICES ASSUME outcome = "running", RunningInv PROVE RunningInv'
  BY <1>1, <1>2 DEF SimulatorInv, SimulatorStopsForACause, simulator
<1>4. ASSUME NEW r \in requests
      PROVE  /\ requests = {r} /\ Asked(r) /\ r \in Requests /\ sending /\ scenario \in Scenarios
             /\ step \in Nat /\ step < Len(Script(scenario))
             /\ r.key = Current.payload.id /\ r.body = Current.payload /\ r.body.id = r.key
  BY <1>3 DEF RunningInv, Asked, SimulatorInv
<1>5. \A n : Stored(n)' = Stored(n) BY <1>1 DEF Stored, simulator
<1>6. ASSUME UNCHANGED <<requests, rows>> PROVE RunningInv'
  <2>1. \A r \in requests : Asked(r) => Asked(r)'
    BY <1>1, <1>2, <1>5, <1>6 DEF Asked, simulator, Current
  <2> QED BY <1>1, <1>3, <1>5, <1>6, <2>1 DEF RunningInv, simulator
<1>7. ASSUME NEW r \in requests, Guard(r) PROVE RunningInv'
  <2>1. PICK status \in {0, 429, 500} :
          /\ Limit(Device, status)
          /\ CASE status # 0 -> Answer(r, status)
               [] status = 0 /\ ~trusted -> Answer(r, 401)
               [] status = 0 /\ trusted -> Admit(r)
    BY <1>7, Zenon DEF Guard
  <2>2. CASE status # 0
    <3>1. Answer(r, status) /\ status \in {429, 500} BY <2>1, <2>2
    <3> QED BY <1>1, <1>3, <1>4, <3>1, AnswerStep
  <2>3. CASE status = 0 /\ ~trusted
    <3>1. Answer(r, 401) BY <2>1, <2>3
    <3> QED BY <1>1, <1>2, <1>3, <1>4, <2>3, <3>1, AnswerStep
  <2>4. CASE status = 0 /\ trusted
    <3>1. PICK x : x = [r EXCEPT !.at = "admitted"] OBVIOUS
    <3>2. requests' = {x} BY <1>4, <2>1, <2>4, <3>1 DEF Admit
    <3>3. /\ x \in Requests /\ x.at = "admitted" /\ x.key = r.key /\ x.body = r.body /\ x.awaited = r.awaited
      BY <1>4, <3>1 DEF Requests
    <3>4. rows' = rows /\ rows = Stored(step) BY <1>4, <1>7 DEF Guard, Asked
    <3>5. Asked(x)' BY <1>1, <1>4, <1>5, <3>3, <3>4 DEF Asked, simulator, Current
    <3> QED BY <1>1, <1>3, <1>4, <3>2, <3>3, <3>5 DEF RunningInv, simulator
  <2> QED BY <2>2, <2>3, <2>4
<1>8. ASSUME NEW r \in requests, Ingest(r) PROVE RunningInv'
  <2>1. rows = Stored(step) BY <1>4, <1>8 DEF Ingest, Asked
  <2>2. /\ StatusOf(r) = Current.status
        /\ Stored(step + 1) = IF Current.status = 201 THEN rows \cup {Current.payload} ELSE rows
    BY <1>4, <2>1, AnswersDemand
  <2>3. CASE trusted \/ r.key # r.body.id
    <3>1. /\ Answer(r, StatusOf(r))
          /\ rows' = IF StatusOf(r) = 201 THEN rows \cup {r.body} ELSE rows
      BY <1>8, <2>3 DEF Ingest
    <3>2. rows' = Stored(step + 1) BY <1>4, <2>2, <3>1
    <3>3. StatusOf(r) \in Nat BY <1>4 DEF StatusOf
    <3> QED BY <1>1, <1>3, <1>4, <2>2, <3>1, <3>2, <3>3, AnswerStep
  <2>4. CASE ~(trusted \/ r.key # r.body.id)
    <3>1. Answer(r, 401) /\ ~trusted' BY <1>2, <1>8, <2>4 DEF Ingest
    <3> QED BY <1>1, <1>3, <1>4, <3>1, AnswerStep
  <2> QED BY <2>3, <2>4
<1>9. ASSUME NEW r \in requests, Break(r) PROVE RunningInv'
  <2>1. Answer(r, 500) BY <1>9 DEF Break
  <2> QED BY <1>1, <1>3, <1>4, <2>1, AnswerStep
<1>10. ASSUME NEW r \in requests, Lose(r) PROVE RunningInv'
  <2>1. requests' = {} BY <1>4, <1>10 DEF Lose
  <2> QED BY <1>1, <1>3, <1>4, <2>1 DEF RunningInv, simulator
<1>11. ASSUME Distrust \/ (\E k \in Subjects : WindowEnds(k)) \/ \E k \in Neighbours : Neighbour(k)
       PROVE  RunningInv'
  BY <1>6, <1>11 DEF Distrust, WindowEnds, Neighbour
<1> QED BY <1>7, <1>8, <1>9, <1>10, <1>11

\* Steps of the simulator: it goes on only after the answer demanded.
LEMMA SimulatorClient ==
  ASSUME SimulatorInv, BySimulator,
         SendPayload \/ FetchFails \/ Cancel \/ \E r \in requests : Validate(r)
  PROVE  SimulatorInv'
<1>1. client = "simulator" /\ client' = client /\ scenario' = scenario /\ trusted' = trusted
  BY DEF BySimulator, SendPayload, FetchFails, Cancel, Validate
<1>2. scenario \in Scenarios /\ (sending => outcome = "running") /\ (outcome = "running" => RunningInv)
  BY <1>1 DEF SimulatorInv
<1>3. \A n : Stored(n)' = Stored(n) BY <1>1 DEF Stored
<1>4. CASE SendPayload
  <2>1. PICK x : x = [key |-> Current.payload.id, body |-> Current.payload, at |-> "sent", status |-> 0,
                      awaited |-> TRUE] OBVIOUS
  <2>2. /\ outcome = "running" /\ ~sending /\ sending' = TRUE /\ requests' = requests \cup {x}
        /\ UNCHANGED <<scenario, step, outcome, answer, rows>>
    BY <1>4, <2>1 DEF SendPayload, Post
  <2>3. requests' = {x} /\ rows = Stored(step) BY <1>2, <2>2 DEF RunningInv
  <2>4. Current.payload \in Bodies /\ Current.payload.id \in Nat BY <1>2, <2>2, PayloadIsBody DEF RunningInv
  <2>5. /\ x \in Requests /\ x.key = Current.payload.id /\ x.body = Current.payload
        /\ x.at = "sent" /\ x.awaited = TRUE
    BY <2>1, <2>4 DEF Requests
  <2>6. Asked(x)' BY <1>3, <2>2, <2>3, <2>5 DEF Asked, Current
  <2>7. RunningInv' BY <1>2, <2>2, <2>3, <2>5, <2>6 DEF RunningInv
  <2> QED BY <1>1, <1>2, <2>2, <2>7 DEF SimulatorInv, SimulatorStopsForACause
<1>5. ASSUME NEW r \in requests, Validate(r) PROVE SimulatorInv'
  <2>1. /\ sending /\ r.at = "answered" /\ sending' = FALSE /\ requests' = requests \ {r} /\ rows' = rows
    BY <1>5 DEF Validate
  <2>2. RunningInv /\ Asked(r) /\ requests' = {} /\ outcome = "running" BY <1>2, <2>1 DEF RunningInv
  <2>3. CASE r.status = Current.status
    <3>1. /\ step' = step + 1 /\ answer' = answer
          /\ outcome' = IF step + 1 = Len(Script(scenario)) THEN "completed" ELSE outcome
      BY <1>5, <2>3 DEF Validate
    <3>2. step \in Nat /\ step < Len(Script(scenario)) BY <2>2 DEF RunningInv
    <3>3. Current.status \in {200, 201, 409}
      <4>1. PICK i \in Nat : i = step + 1 BY <3>2
      <4>2. Current = Script(scenario)[i] /\ i > 0 /\ i <= Len(Script(scenario)) BY <3>2, <4>1 DEF Current
      <4>3. \A p, status : Demand(p, status).status = status BY DEF Demand
      <4> QED BY <1>2, <4>2, <4>3, Scripts
    <3>4. rows' = Stored(step + 1) BY <2>1, <2>2, <2>3, <3>3 DEF Asked
    <3>5. Len(Script(scenario)) \in Nat
      BY <1>2, SimulatorAssumption
         DEF Script, Scenarios, Normal, Duplicate, SequenceConflict, IdempotencyConflict, Late
    <3>6. outcome' = "running" => RunningInv'
      BY <1>1, <1>3, <2>1, <2>2, <3>1, <3>2, <3>4, <3>5 DEF RunningInv
    <3> QED BY <1>1, <1>2, <2>1, <2>2, <3>1, <3>6 DEF SimulatorInv, SimulatorStopsForACause
  <2>4. CASE r.status # Current.status
    <3>1. outcome' = "unexpected" /\ answer' = r.status BY <1>5, <2>4 DEF Validate
    <3>2. r.status \in {429, 500} \/ (r.status = 401 /\ ~trusted) BY <2>1, <2>2, <2>4 DEF Asked
    <3> QED BY <1>1, <1>2, <2>1, <3>1, <3>2 DEF SimulatorInv, SimulatorStopsForACause
  <2> QED BY <2>3, <2>4
<1>6. CASE FetchFails \/ Cancel
  BY <1>1, <1>2, <1>6 DEF FetchFails, Cancel, SimulatorInv, SimulatorStopsForACause
<1> QED BY <1>4, <1>5, <1>6

LEMMA SimulatorInvStep == SimulatorInv /\ [Next]_vars => SimulatorInv'
<1> SUFFICES ASSUME SimulatorInv, [Next]_vars PROVE SimulatorInv'
  OBVIOUS
<1>1. CASE BySimulator /\ (SendPayload \/ FetchFails \/ Cancel \/ \E r \in requests : Validate(r))
  BY <1>1, SimulatorClient
<1>2. CASE ByServer /\ \/ \E r \in requests : Guard(r) \/ Ingest(r) \/ Break(r) \/ Lose(r)
                       \/ Distrust \/ (\E k \in Subjects : WindowEnds(k)) \/ \E k \in Neighbours : Neighbour(k)
  <2>1. CASE client = "simulator" BY <1>2, <2>1, SimulatorServer
  <2>2. CASE client # "simulator"
    BY <1>2, <2>2 DEF ByServer, SimulatorInv, SimulatorStopsForACause, simulator
  <2> QED BY <2>1, <2>2
<1>3. CASE ByFirmware \/ ByRunner
  BY <1>3 DEF ByFirmware, ByRunner, SimulatorInv, SimulatorStopsForACause, simulator
<1>4. CASE UNCHANGED vars
  <2>1. UNCHANGED <<client, simulator, requests, rows, trusted>> BY <1>4 DEF vars, endpoint
  <2>2. \A r : Asked(r)' <=> Asked(r) BY <2>1 DEF Asked, Stored, Current, simulator
  <2> QED BY <2>1, <2>2 DEF SimulatorInv, SimulatorStopsForACause, RunningInv, Stored, simulator
<1> QED BY <1>1, <1>2, <1>3, <1>4 DEF Next

\* Whatever the limits, and with --count as large as one likes: what the
\* endpoint answers to a scenario's payload is what the scenario demands,
\* unless it is limited or fails or the credential is void
\* (device-simulator.ts, telemetry.service.ts).
THEOREM SimulatorsStopsHaveCauses == Spec => []SimulatorStopsForACause
<1>1. SimulatorInv => SimulatorStopsForACause BY DEF SimulatorInv
<1> QED BY <1>1, SimulatorInvInit, SimulatorInvStep, PTL DEF Spec
=============================================================================
