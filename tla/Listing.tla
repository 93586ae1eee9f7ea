------------------------------- MODULE Listing -------------------------------
(***************************************************************************)
(* Reading a listing page by page while its rows change: list() of sites,  *)
(* monitoring points and devices, audit() of the single device, and the    *)
(* page of the audit log with its "load more" button, which may be pressed *)
(* again before the first answer has come.                                 *)
(***************************************************************************)
EXTENDS Cursors, SequencesExt

CONSTANTS
  Ids, Keys,    \* of the rows
  Filters,      \* values of a column the queries filter by
  Limits,       \* limits a client asks for
  Asks,         \* requests under way at a time
  NoMore,       \* in place of a cursor: page.hasMore is false
  MaxChanges    \* bound of the instance

ASSUME ListingAssumption ==
  /\ Ids \subseteq Int /\ IsFiniteSet(Ids) /\ Keys \subseteq Int
  /\ Limits \subseteq Nat \ {0} /\ MaxChanges \in Nat
  /\ Null \notin Filters /\ Null # NoMore /\ {Null, NoMore} \cap SignedCursors(Filters, Ids, Keys) = {}

VARIABLES
  listing,  \* that is read
  table,    \* of the ids in use: key and column
  secret,   \* that signs cursors
  query,    \* of the first page: sort and filter (Null: none)
  asks,     \* requests and answers under way
  shown,    \* ids, as the client has put the pages together
  next,     \* page of the last answer: its cursor; Null: no answer yet
  steady,   \* rows that were there all the time and did not change
  changes

vars == <<listing, table, secret, query, asks, shown, next, steady, changes>>

\* The audit log is read by its page, the others by any client.
panel == listing = "audit"

Row(id) == [id |-> id, key |-> table[id].key, column |-> table[id].column]
Used == {id \in Ids : table[id] # Null}

\* Sorts by one column: the client may confuse its directions.
SiteSorts == {"asc", "desc"}
PointSorts == {"asc", "desc"}
DeviceSorts(column) == IF column = "lastSeenAt" THEN {"lastSeenAt"} ELSE {"asc", "desc"}
SortsOf(column) ==
  CASE listing = "sites" -> SiteSorts
    [] listing = "points" -> PointSorts
    [] listing = "devices" -> DeviceSorts(column)
    [] listing = "audit" -> {"desc"}

\* What the column that the rows are sorted by may hold, and the other one.
KeysOf(sort) == IF sort = "lastSeenAt" THEN Keys \cup {Null} ELSE Keys
Columns(sort) == [key : KeysOf(sort), column : Filters]

\* Queries that a client may confuse with its own.
Alike(q) == [sort : SortsOf(IF q.sort = "lastSeenAt" THEN "lastSeenAt" ELSE "key"),
             filter : Filters \cup {Null}]

-----------------------------------------------------------------------------
(* The servers                                                             *)

BaseWhere(q, row) == q.filter = Null \/ row.column = q.filter

\* The elements of S in the order of the pairs in before.
Ordered(S, before) ==
  CHOOSE seq \in [1..Cardinality(S) -> S] :
    \A i, j \in DOMAIN seq : i < j => <<seq[i], seq[j]>> \in before

\* The rows of the query that the cursor says are still to come, in order:
\* one more than the page takes.
Found(ask, toCome) ==
  LET found == {id \in Used : BaseWhere(ask.query, Row(id)) /\ (ask.cursor = Null \/ id \in toCome)}
      rows == Ordered(found, {p \in found \X found : Precedes(ask.query.sort, Row(p[1]), Row(p[2]))})
  IN  SubSeq(rows, 1, IF Len(rows) > ask.limit THEN ask.limit + 1 ELSE Len(rows))

\* The row too many tells that there is another page.
PageOf(ask, found, binding) ==
  LET data == SubSeq(found, 1, IF Len(found) > ask.limit THEN ask.limit ELSE Len(found))
  IN  [data |-> data,
       next |-> IF Len(found) > ask.limit
                THEN Encode(binding, Boundary(Row(Last(data))), secret)
                ELSE NoMore]

\* list() of the services and audit(): Null is 400 INVALID_CURSOR.
Sites(ask) ==
  IF ask.cursor = Null \/ SiteCursorValid(ask.cursor, ask.query, secret)
  THEN PageOf(ask, Found(ask, {id \in Used : Beyond(ask.query.sort, ask.cursor.boundary, Row(id))}),
              SiteBinding(ask.query))
  ELSE Null
Points(ask) ==
  IF ask.cursor = Null \/ PointCursorValid(ask.cursor, ask.query, secret)
  THEN PageOf(ask, Found(ask, {id \in Used : Beyond(ask.query.sort, ask.cursor.boundary, Row(id))}),
              PointBinding(ask.query))
  ELSE Null
Devices(ask) ==
  IF ask.cursor = Null \/ DeviceCursorValid(ask.cursor, ask.query, secret)
  THEN PageOf(ask, Found(ask, {id \in Used : SeenBefore(ask.query.sort, ask.cursor.boundary, Row(id))}),
              DeviceBinding(ask.query))
  ELSE Null
Audit(ask) ==
  IF ask.cursor = Null \/ AuditCursorValid(ask.cursor, secret)
  THEN PageOf(ask, Found(ask, {id \in Used : Older(ask.cursor.boundary, Row(id))}), AuditBinding)
  ELSE Null

Answer(ask) ==
  CASE listing = "sites" -> Sites(ask)
    [] listing = "points" -> Points(ask)
    [] listing = "devices" -> Devices(ask)
    [] listing = "audit" -> Audit(ask)

Serve(ask) ==
  /\ ask.page = Null
  /\ asks' = (asks \ {ask}) \cup
       IF Answer(ask) = Null THEN {} ELSE {[ask EXCEPT !.page = Answer(ask)]}
  /\ UNCHANGED <<listing, table, secret, query, shown, next, steady, changes>>

\* A row is created or updated.  Risk changes are only added, with a
\* createdAt that need not be later than those of other transactions.
Change(id) ==
  /\ changes < MaxChanges /\ changes' = changes + 1
  /\ panel => table[id] = Null
  /\ \E row \in Columns(query.sort) : table' = [table EXCEPT ![id] = row]
  /\ table' # table
  /\ steady' = steady \ {id}
  /\ UNCHANGED <<listing, secret, query, asks, shown, next>>

\* A restart with another AUTH_ACCESS_TOKEN_SECRET.
ChangeSecret ==
  /\ changes < MaxChanges /\ changes' = changes + 1
  /\ secret' = secret + 1
  /\ UNCHANGED <<listing, table, query, asks, shown, next, steady>>

-----------------------------------------------------------------------------
(* The client                                                              *)

Ask(n, q, cursor, limit) ==
  /\ \A ask \in asks : ask.slot # n
  /\ asks' = asks \cup {[slot |-> n, query |-> q, cursor |-> cursor, limit |-> limit, page |-> Null]}
  /\ UNCHANGED <<listing, table, secret, query, shown, next, steady, changes>>

AskFirst(limit) == next = Null /\ asks = {} /\ Ask(1, query, Null, limit)

\* The audit page sends what the button says; another client may have
\* changed the query in the meantime.
AskMore(n, q, limit) ==
  /\ next \notin {Null, NoMore}
  /\ panel \/ asks = {}
  /\ panel => q = query
  /\ Ask(n, q, next, limit)

\* Mutation: the page appends what it gets.
AppendAll(ids, data) == ids \o data
AppendNew(ids, data) ==
  LET new == {i \in DOMAIN data : data[i] \notin Range(ids)}
      places == Ordered(new, {p \in new \X new : p[1] < p[2]})
  IN  ids \o [n \in 1..Cardinality(new) |-> data[places[n]]]

Receive(ask) ==
  /\ ask.page # Null
  /\ asks' = asks \ {ask}
  /\ shown' = IF panel THEN AppendNew(shown, ask.page.data) ELSE shown \o ask.page.data
  /\ next' = ask.page.next
  /\ UNCHANGED <<listing, table, secret, query, steady, changes>>

\* The answer does not come; the button stays.
Fail(ask) ==
  /\ panel
  /\ asks' = asks \ {ask}
  /\ UNCHANGED <<listing, table, secret, query, shown, next, steady, changes>>

Init ==
  /\ listing \in {"sites", "points", "devices", "audit"}
  /\ \E column \in {"key", "lastSeenAt"} :
       query \in [sort : SortsOf(column), filter : Filters \cup {Null}]
  /\ panel => query.filter = Null
  /\ table \in [Ids -> Columns(query.sort) \cup {Null}]
  /\ query.filter = Null => \A i, j \in Used : table[i].column = table[j].column
  /\ secret = 0 /\ changes = 0
  /\ asks = {} /\ shown = <<>> /\ next = Null
  /\ steady = Used

Next ==
  \/ \E limit \in Limits : AskFirst(limit)
  \/ \E n \in Asks, q \in Alike(query), limit \in Limits : AskMore(n, q, limit)
  \/ \E ask \in asks : Serve(ask)
  \/ \E ask \in asks : Receive(ask)
  \/ \E ask \in asks : Fail(ask)
  \/ \E id \in Ids : Change(id)
  \/ ChangeSecret

Spec == Init /\ [][Next]_vars

-----------------------------------------------------------------------------
(* Properties                                                              *)

\* Whatever is created, updated or asked in between, the rows that stay as
\* they are come in the order of the query and once, and when there is no
\* more page none of them is missing.
SteadyRowsComeOnce ==
  LET at == {i \in DOMAIN shown : shown[i] \in steady}
  IN  /\ \A i, j \in at : i < j => Precedes(query.sort, Row(shown[i]), Row(shown[j]))
      /\ \A i \in at : BaseWhere(query, Row(shown[i]))
      /\ next = NoMore => {id \in steady : BaseWhere(query, Row(id))} \subseteq {shown[i] : i \in at}

\* The audit page shows no entry twice, however often the button is pressed
\* and in whatever order the answers come.
NoEntryTwice == panel => IsInjective(shown)
=============================================================================
