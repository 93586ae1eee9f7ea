------------------------------- MODULE Cursors -------------------------------
(***************************************************************************)
(* The order and the cursors of the listings.  A row has the key that it   *)
(* is sorted by and its id as the tie-breaker; a cursor holds both of the  *)
(* last row of a page, is bound to the query and is signed.                *)
(***************************************************************************)
EXTENDS Integers

CONSTANT Null   \* lastSeenAt of a device that was never seen; no filter

Sorts == {"asc", "desc", "lastSeenAt"}

ASSUME CursorsAssumption == Null \notin Int

\* orderBy: id in the direction of the key, null keys last.
Precedes(sort, a, b) ==
  CASE sort = "asc" -> a.key < b.key \/ (a.key = b.key /\ a.id < b.id)
    [] sort = "desc" -> a.key > b.key \/ (a.key = b.key /\ a.id > b.id)
    [] sort = "lastSeenAt" ->
         \/ a.key # Null /\ b.key = Null
         \/ a.key # Null /\ b.key # Null /\ a.key > b.key
         \/ a.key = b.key /\ a.id > b.id

Boundary(row) == [id |-> row.id, value |-> row.key]

-----------------------------------------------------------------------------
(* cursorWhere: what comes after a cursor                                  *)

\* Sites and monitoring points.
Beyond(direction, boundary, row) ==
  \/ IF direction = "asc" THEN row.key > boundary.value ELSE row.key < boundary.value
  \/ row.key = boundary.value /\ (IF direction = "asc" THEN row.id > boundary.id ELSE row.id < boundary.id)

\* Mutation: no tie-breaker.
OlderOnly(boundary, row) == row.key < boundary.value
\* The audit log knows one order.
Older(boundary, row) == row.key < boundary.value \/ (row.key = boundary.value /\ row.id < boundary.id)

\* Mutation: rows without a key are left out.
WithoutNulls(sort, boundary, row) ==
  IF sort = "lastSeenAt"
  THEN IF boundary.value = Null
       THEN row.key = Null /\ row.id < boundary.id
       ELSE row.key # Null /\ Beyond("desc", boundary, row)
  ELSE Beyond(sort, boundary, row)
\* Devices: those never seen follow those that were.
SeenBefore(sort, boundary, row) ==
  IF sort = "lastSeenAt"
  THEN IF boundary.value = Null
       THEN row.key = Null /\ row.id < boundary.id
       ELSE row.key = Null \/ (row.key # Null /\ Beyond("desc", boundary, row))
  ELSE Beyond(sort, boundary, row)

-----------------------------------------------------------------------------
(* A cursor belongs to its query - filters, search and sort, but not the   *)
(* limit - and to the secret that it is signed with; decode() fails for    *)
(* any other.  The fields that are hashed differ from listing to listing.  *)

SiteBinding(query) == [search |-> query.filter, sort |-> query.sort]
PointBinding(query) == [siteId |-> query.filter, sort |-> query.sort]
DeviceBinding(query) == [monitoringPointId |-> query.filter, sort |-> query.sort]
AuditBinding == [endpoint |-> "single-device-audit-log"]

Encode(binding, boundary, secret) == [binding |-> binding, boundary |-> boundary, signedWith |-> secret]

\* Cursors for rows with these filters, ids and keys.
SignedCursors(filters, ids, keys) ==
  LET queries == [sort : Sorts, filter : filters \cup {Null}]
  IN  [binding : UNION {{SiteBinding(q), PointBinding(q), DeviceBinding(q), AuditBinding} : q \in queries},
       boundary : [id : ids, value : keys \cup {Null}], signedWith : Nat]

Signed(cursor, binding, secret) == cursor.signedWith = secret /\ cursor.binding = binding

SiteCursorValid(cursor, query, secret) ==
  Signed(cursor, SiteBinding(query), secret) /\ cursor.boundary.value # Null
PointCursorValid(cursor, query, secret) ==
  Signed(cursor, PointBinding(query), secret) /\ cursor.boundary.value # Null
\* Mutation: any query may use it.
AnyQuery(cursor, query, secret) == cursor.signedWith = secret
DeviceCursorValid(cursor, query, secret) ==
  /\ Signed(cursor, DeviceBinding(query), secret)
  /\ cursor.boundary.value = Null => query.sort = "lastSeenAt"
AuditCursorValid(cursor, secret) == Signed(cursor, AuditBinding, secret)
=============================================================================
