------------------------------ MODULE DevicePath ------------------------------
(***************************************************************************)
(* The way of a reading from a device into the database: the firmware or   *)
(* the simulator, the network and the endpoint, all of which fail now and  *)
(* then.  On a presentation machine, the runner decides when there is a    *)
(* simulator and with which secret; what it sends is not followed there.   *)
(***************************************************************************)
EXTENDS FirmwareClient, DeviceSimulator, PresentationRunner

VARIABLE client   \* who acts: "firmware", "simulator" or "runner"

vars == <<client, endpoint, firmware, simulator, stack>>

Init ==
  /\ EndpointInit /\ FirmwareInit /\ SimulatorInit /\ RunnerInit
  /\ \/ client = "firmware" /\ scenario = "normal"
     \/ client = "simulator" /\ certified
     \/ client = "runner" /\ certified /\ scenario = "presentation"

ByFirmware == client = "firmware" /\ UNCHANGED <<client, simulator, stack>>
BySimulator == client = "simulator" /\ UNCHANGED <<client, firmware, stack>>
ByServer == client # "runner" /\ UNCHANGED <<client, firmware, simulator, stack>>
ByRunner == client = "runner" /\ UNCHANGED <<client, endpoint, firmware, simulator>>

Next ==
  \/ ByFirmware /\ Sample
  \/ ByFirmware /\ WriteSample
  \/ ByFirmware /\ WriteBody
  \/ ByFirmware /\ WriteAttempts
  \/ ByFirmware /\ ReadSize
  \/ ByFirmware /\ WriteSize
  \/ ByFirmware /\ Pick
  \/ ByFirmware /\ Defer
  \/ ByFirmware /\ BeginFails
  \/ ByFirmware /\ Send
  \/ ByFirmware /\ \E r \in requests : TakeAnswer(r)
  \/ ByFirmware /\ NoAnswer
  \/ ByFirmware /\ Shift
  \/ ByFirmware /\ ReadFromSize
  \/ ByFirmware /\ WriteBack
  \/ ByFirmware /\ Reboot
  \/ ByFirmware /\ LoseNetwork
  \/ ByFirmware /\ Reconnect
  \/ ByFirmware /\ LoseClient
  \/ ByFirmware /\ RegainClient
  \/ BySimulator /\ SendPayload
  \/ BySimulator /\ \E r \in requests : Validate(r)
  \/ BySimulator /\ FetchFails
  \/ BySimulator /\ Cancel
  \/ ByServer /\ \E k \in Subjects : WindowEnds(k)
  \/ ByServer /\ \E k \in Neighbours : Neighbour(k)
  \/ ByServer /\ \E r \in requests : Guard(r)
  \/ ByServer /\ \E r \in requests : Ingest(r)
  \/ ByServer /\ \E r \in requests : Break(r)
  \/ ByServer /\ \E r \in requests : Lose(r)
  \/ ByServer /\ Distrust
  \/ ByRunner /\ RunnerNext

\* What goes on by itself: both cores, the access point, the server.
Progress ==
  \/ ByFirmware /\ (Loop \/ Task \/ Reconnect)
  \/ ByServer /\ \E r \in requests : Guard(r) \/ Ingest(r)

\* The whole does not stop while one of them can go on; no one of them is
\* favoured, and no window has to end.
Spec == Init /\ [][Next]_vars /\ WF_vars(Progress)

-----------------------------------------------------------------------------
(* Properties                                                              *)

Bodies == [id : Nat, boot : Nat, seq : Nat, reading : Nat]
Items == [sample : Bodies, body : Bodies, attempts : 0..AttemptValues - 1]

\* The queue and both cores' places; size_ and the slot that enqueue()
\* writes stay in the array although nothing but the task's own lock
\* protects them.
QueueOK ==
  /\ queue \in [Slots -> Items]
  /\ size \in 0..Capacity
  /\ loop \in [at : {"idle", "sample", "body", "attempts", "read", "write"}, item : Bodies, read : Nat]
  /\ task \in [at : {"idle", "send", "wait", "shift", "read", "write"}, item : Items, read : Nat]
  /\ LoopAt("sample") \/ LoopAt("body") \/ LoopAt("attempts") => size < Capacity
  /\ LoopAt("write") => loop.read < Capacity
  /\ TaskAt("write") => task.read > 0

InQueue(id) ==
  \E i \in Slots : i < size /\ queue[i].sample.id = id /\ queue[i].body.id = id

IsStored(id) == \E row \in rows : row.id = id

\* A reading that enqueue() has accepted, and that was neither refused by
\* the server nor given up after all retries nor wiped by a reboot, is in
\* the queue or in the database - and one that the task believes delivered
\* is in the database.  Races of the two cores can lose only the reading
\* that is being enqueued in that moment.
OnlyOverlappedAreLost ==
  \A id \in Readings :
    \/ fate[id] \in {"untaken", "dropped", "refused", "exhausted", "wiped"}
    \/ IsStored(id)
    \/ fate[id] = "queued" /\ (InQueue(id) \/ (~LoopAt("idle") /\ loop.item.id = id))
    \/ id \in overlapped

\* The simulator is told something else than its scenario demands only by
\* the limits, by a failure, or once its credential is void.
SimulatorStopsForACause ==
  outcome = "unexpected" => answer \in {429, 500} \/ (answer = 401 /\ ~trusted)

\* No reading stays in the queue for ever, whatever the server answers,
\* unless there is no certificate for an https URL or http.begin() keeps
\* failing: the task goes round without ever giving a reading up.
ReadingsSettle ==
  <>[](certified /\ begins => \A id \in Readings : fate[id] = "queued" => id \in overlapped)
=============================================================================
