--------------------------- MODULE DeviceSimulator ---------------------------
(***************************************************************************)
(* The simulator as a client of the endpoint: one process that sends the   *)
(* payloads of a scenario in turn, and stops at the first answer that is   *)
(* not the one the scenario demands (device-simulator.ts).                 *)
(***************************************************************************)
EXTENDS TelemetryEndpoint, Sequences

CONSTANT Count   \* --count of the normal scenario

ASSUME SimulatorAssumption == Count \in Nat \ {0}

VARIABLES
  scenario,
  step,      \* payloads answered as demanded
  sending,   \* fetch() is under way
  outcome,   \* "running", "completed", "cancelled", "network" or "unexpected"
  answer     \* the status that was unexpected

simulator == <<scenario, step, sending, outcome, answer>>

Scenarios ==
  {"normal", "duplicate", "sequence-conflict", "idempotency-conflict", "late", "missing-tilt", "presentation"}

\* generateTelemetryPayload(): a new message of the next sequence.
Payload(i) == [id |-> i, boot |-> 0, seq |-> i, reading |-> 1]

Demand(payload, status) == [payload |-> payload, status |-> status]

\* What a scenario sends, and which answer it demands.  The times of late
\* and the missing angle of missing-tilt make no difference to the answer;
\* presentation repeats its samples, here as often as normal does.
Normal == [i \in 1..Count |-> Demand(Payload(i), 201)]
Duplicate == <<Demand(Payload(1), 201), Demand(Payload(1), 200)>>
SequenceConflict == <<Demand(Payload(1), 201), Demand([Payload(1) EXCEPT !.id = 2], 409)>>
IdempotencyConflict == <<Demand(Payload(1), 201), Demand([Payload(1) EXCEPT !.reading = 2], 409)>>
Late == <<Demand(Payload(1), 201), Demand(Payload(2), 201)>>

Script(s) ==
  CASE s \in {"normal", "missing-tilt", "presentation"} -> Normal
    [] s = "duplicate" -> Duplicate
    [] s = "sequence-conflict" -> SequenceConflict
    [] s = "idempotency-conflict" -> IdempotencyConflict
    [] s = "late" -> Late

Current == Script(scenario)[step + 1]

\* sendAndValidate() calls fetch().
SendPayload ==
  /\ outcome = "running" /\ ~sending
  /\ sending' = TRUE
  /\ Post(Current.payload.id, Current.payload)
  /\ UNCHANGED <<scenario, step, outcome, answer, windows, passed, rows, trusted, incidents>>

\* The response is compared with the one that is demanded.
Validate(r) ==
  /\ sending /\ r.awaited /\ r.at = "answered"
  /\ sending' = FALSE
  /\ requests' = requests \ {r}
  /\ IF r.status = Current.status
     THEN /\ step' = step + 1
          /\ outcome' = IF step + 1 = Len(Script(scenario)) THEN "completed" ELSE outcome
          /\ UNCHANGED answer
     ELSE /\ outcome' = "unexpected" /\ answer' = r.status
          /\ UNCHANGED step
  /\ UNCHANGED <<scenario, windows, passed, rows, trusted, incidents>>

\* fetch() throws: NETWORK_ERROR, without a retry.
FetchFails ==
  /\ sending
  /\ Incident \/ (Awaited = {} /\ UNCHANGED incidents)
  /\ sending' = FALSE /\ outcome' = "network"
  /\ requests' = GivenUp
  /\ UNCHANGED <<scenario, step, answer, windows, passed, rows, trusted>>

\* SIGINT or SIGTERM, in fetch() or in the wait between two payloads.
Cancel ==
  /\ outcome = "running"
  /\ sending' = FALSE /\ outcome' = "cancelled"
  /\ requests' = GivenUp
  /\ UNCHANGED <<scenario, step, answer, windows, passed, rows, trusted, incidents>>

SimulatorInit ==
  /\ scenario \in Scenarios
  /\ step = 0 /\ sending = FALSE /\ outcome = "running" /\ answer = 0
=============================================================================
