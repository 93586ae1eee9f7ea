--------------------------- MODULE TelemetryEndpoint ---------------------------
(***************************************************************************)
(* POST /iot/telemetry as a device sees it: the fixed windows of the rate  *)
(* limit (telemetry-rate-limit.service.ts), the guard, and the answer of   *)
(* the transaction that stores a reading.  What the transaction does to    *)
(* the state of the device and its point is in MonitoringState.            *)
(*                                                                         *)
(* The device waits for one answer at a time.  A request that it has given *)
(* up may still be on its way and be handled later, in any order.          *)
(***************************************************************************)
EXTENDS Integers, FiniteSets

CONSTANTS
  RateLimitMax,  \* requests of a device per window
  MaxTracked,    \* maximumTrackedSubjects
  Neighbours,    \* other devices behind the same address
  Device, Address,   \* the subjects of the device itself
  Null,
  MaxIncidents   \* bound of the instance

Subjects == {Device, Address} \cup Neighbours

ASSUME EndpointAssumption ==
  /\ RateLimitMax \in Nat \ {0} /\ MaxTracked \in Nat /\ MaxIncidents \in Nat
  /\ Device # Address /\ {Device, Address} \cap Neighbours = {} /\ IsFiniteSet(Neighbours)
  /\ Null \notin [count : Nat, over : BOOLEAN]

VARIABLES
  windows,   \* of the subjects that are tracked
  passed,    \* how many requests of a subject passed in the time of its window
  requests,  \* what is on its way, or has its answer
  rows,      \* bodies stored
  trusted,   \* the device is enabled and its secret is the current one
  incidents  \* what went wrong so far

endpoint == <<windows, passed, requests, rows, trusted, incidents>>

Incident == incidents < MaxIncidents /\ incidents' = incidents + 1

-----------------------------------------------------------------------------
(* The rate limit                                                          *)

LimitOf(k) == IF k = Address THEN 5 * RateLimitMax ELSE RateLimitMax

Tracked(w) == {k \in Subjects : w[k] # Null}

\* Mutation: eviction makes room whatever the windows' age.
PruneAll(w) == [k \in Subjects |-> Null]
PruneExpired(w) == [k \in Subjects |-> IF w[k] # Null /\ w[k].over THEN Null ELSE w[k]]

\* How far beyond the limit it is makes no difference.
Counted(w, k) ==
  LET before == IF w[k] = Null \/ w[k].over THEN 0 ELSE w[k].count
  IN  [w EXCEPT ![k] =
         [count |-> IF before > LimitOf(k) THEN before ELSE before + 1, over |-> FALSE]]

\* consume(): the windows after it, pruned only if they are too many.
Consumed(w, k) ==
  IF Cardinality(Tracked(Counted(w, k))) > MaxTracked THEN PruneExpired(Counted(w, k)) ELSE Counted(w, k)

\* What it throws; 0 is to pass.  The subject stays in the map in any case.
Verdict(w, k) ==
  IF Cardinality(Tracked(Consumed(w, k))) > MaxTracked THEN 500
  ELSE IF Counted(w, k)[k].count > LimitOf(k) THEN 429
  ELSE 0

\* consumeIp() and then consumeDevice() of the guard.
Limit(k, status) ==
  LET byAddress == Consumed(windows, Address)
  IN  IF Verdict(windows, Address) # 0
      THEN /\ status = Verdict(windows, Address)
           /\ windows' = byAddress
           /\ UNCHANGED passed
      ELSE /\ status = Verdict(byAddress, k)
           /\ windows' = Consumed(byAddress, k)
           /\ passed' = [s \in Subjects |->
                IF s = Address \/ (s = k /\ status = 0) THEN passed[s] + 1 ELSE passed[s]]

\* A window's time is over.
WindowEnds(k) ==
  /\ Incident
  /\ passed[k] > 0 \/ (windows[k] # Null /\ ~windows[k].over)
  /\ windows' = [windows EXCEPT ![k] = IF @ = Null THEN Null ELSE [count |-> @.count, over |-> TRUE]]
  /\ passed' = [passed EXCEPT ![k] = 0]
  /\ UNCHANGED <<requests, rows, trusted>>

\* Another device asks.
Neighbour(k) ==
  /\ Incident
  /\ \E status \in {0, 429, 500} : Limit(k, status)
  /\ UNCHANGED <<requests, rows, trusted>>

-----------------------------------------------------------------------------
(* A request                                                               *)

\* What a device sends: key is the Idempotency-Key.
Post(key, body) ==
  requests' = requests \cup
    {[key |-> key, body |-> body, at |-> "sent", status |-> 0, awaited |-> TRUE]}

Awaited == {r \in requests : r.awaited}

\* The device does not wait any longer; what has no answer yet stays.
GivenUp ==
  {[r EXCEPT !.awaited = FALSE] : r \in {q \in requests : ~(q.awaited /\ q.at = "answered")}}

Admit(r) == requests' = (requests \ {r}) \cup {[r EXCEPT !.at = "admitted"]}

\* Nobody sees the answer to a request that was given up.
Answer(r, status) ==
  requests' = (requests \ {r}) \cup
    IF r.awaited THEN {[r EXCEPT !.at = "answered", !.status = status]} ELSE {}

\* DeviceAuthGuard
Guard(r) ==
  /\ r.at = "sent"
  /\ \E status \in {0, 429, 500} :
       /\ Limit(Device, status)
       /\ CASE status # 0 -> Answer(r, status)
            [] status = 0 /\ ~trusted -> Answer(r, 401)
            [] status = 0 /\ trusted -> Admit(r)
  /\ UNCHANGED <<rows, trusted, incidents>>

SameMessage(body) == {row \in rows : row.id = body.id}
SameSequence(body) == {row \in rows : row.boot = body.boot /\ row.seq = body.seq}

\* Mutation: the sequence is looked up first.
StatusBySequence(r) ==
  CASE r.key # r.body.id -> 400
    [] r.key = r.body.id /\ SameSequence(r.body) # {} -> 409
    [] r.key = r.body.id /\ SameSequence(r.body) = {} -> IF SameMessage(r.body) = {} THEN 201 ELSE 409
\* ingest(): 409 stands for both of its conflicts.
StatusOf(r) ==
  CASE r.key # r.body.id -> 400
    [] r.key = r.body.id /\ SameMessage(r.body) # {} -> IF r.body \in rows THEN 200 ELSE 409
    [] r.key = r.body.id /\ SameMessage(r.body) = {} -> IF SameSequence(r.body) # {} THEN 409 ELSE 201

\* The transaction locks the device and looks at its credential again.
Ingest(r) ==
  /\ r.at = "admitted"
  /\ IF trusted \/ r.key # r.body.id
     THEN /\ Answer(r, StatusOf(r))
          /\ rows' = IF StatusOf(r) = 201 THEN rows \cup {r.body} ELSE rows
     ELSE Answer(r, 401) /\ UNCHANGED rows
  /\ UNCHANGED <<windows, passed, trusted, incidents>>

\* The handler fails and rolls back.
Break(r) ==
  /\ Incident
  /\ r.at = "admitted"
  /\ Answer(r, 500)
  /\ UNCHANGED <<windows, passed, rows, trusted>>

\* A request does not arrive, or the server stops while it handles it.
Lose(r) ==
  /\ Incident
  /\ r.at # "answered"
  /\ requests' = requests \ {r}
  /\ UNCHANGED <<windows, passed, rows, trusted>>

\* An administrator disables the device or rotates its credential.
Distrust ==
  /\ Incident
  /\ trusted /\ trusted' = FALSE
  /\ UNCHANGED <<windows, passed, requests, rows>>

EndpointInit ==
  /\ windows = [k \in Subjects |-> Null]
  /\ passed = [k \in Subjects |-> 0]
  /\ requests = {} /\ rows = {}
  /\ trusted = TRUE
  /\ incidents = 0

-----------------------------------------------------------------------------
(* Properties                                                              *)

\* Whatever is evicted from the full map, no subject gets more requests
\* through in the time of a window than its limit.
WithinLimit == \A k \in Subjects : passed[k] <= LimitOf(k)
=============================================================================
