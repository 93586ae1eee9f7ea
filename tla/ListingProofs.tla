---------------------------- MODULE ListingProofs ----------------------------
(* Whatever changes between the pages of a listing: the rows that stay as   *)
(* they are come once, in order and without a gap.                          *)
EXTENDS Listing, FiniteSetTheorems, SequenceTheorems, TLAPS

-----------------------------------------------------------------------------
(* The inductive invariant                                                 *)

Wanted == {id \in steady : BaseWhere(query, Row(id))}
Listed == {shown[i] : i \in DOMAIN shown}
Encoded == SignedCursors(Filters, Ids, Keys)
BindingOf(q) ==
  CASE listing = "sites" -> SiteBinding(q)
    [] listing = "points" -> PointBinding(q)
    [] listing = "devices" -> DeviceBinding(q)
    [] listing = "audit" -> AuditBinding

\* A cursor as a place in the order, and the rows up to it.
Place(c) == [id |-> c.boundary.id, key |-> c.boundary.value]
Reached(c, id) == c = NoMore \/ (c \in Encoded /\ ~Precedes(query.sort, Place(c), Row(id)))

\* The cursors of this query.
CursorOK(c) ==
  \/ c \in {Null, NoMore}
  \/ c \in Encoded /\ c.binding = BindingOf(query) /\ c.boundary.value \in KeysOf(query.sort)

TableOK ==
  /\ listing \in {"sites", "points", "devices", "audit"}
  /\ \E column \in {"key", "lastSeenAt"} :
       query \in [sort : SortsOf(column), filter : Filters \cup {Null}]
  /\ panel => query.filter = Null
  /\ table \in [Ids -> Columns(query.sort) \cup {Null}]
  /\ secret \in Nat /\ steady \subseteq Used

\* A page has, of the steady rows, those between its cursors, in order.
PageOK(c, page) ==
  /\ page.data \in Seq(Ids) /\ CursorOK(page.next) /\ page.next # Null
  /\ \A i, j \in DOMAIN page.data : page.data[i] = page.data[j] => i = j
  /\ \A i, j \in DOMAIN page.data :
       i < j /\ page.data[i] \in steady /\ page.data[j] \in steady =>
         Precedes(query.sort, Row(page.data[i]), Row(page.data[j]))
  /\ \A id \in steady :
       (\E i \in DOMAIN page.data : page.data[i] = id)
         <=> id \in Wanted /\ ~Reached(c, id) /\ Reached(page.next, id)
  /\ c \in Encoded /\ page.next \in Encoded => Precedes(query.sort, Place(c), Place(page.next))

\* What is asked for follows what is shown; the audit page may ask for it
\* again, any other client has one request under way.
AskOK(ask) ==
  /\ ask = [slot |-> ask.slot, query |-> ask.query, cursor |-> ask.cursor,
            limit |-> ask.limit, page |-> ask.page]
  /\ ask.limit \in Nat \ {0} /\ CursorOK(ask.cursor) /\ ask.cursor # NoMore
  /\ \A id \in Wanted : Reached(ask.cursor, id) => id \in Listed
  /\ ~panel => ask.cursor = next /\ asks = {ask}
  /\ ask.cursor = Null => ask.query = query
  /\ panel => ask.query = query
  /\ ask.query \in [sort : Sorts, filter : Filters \cup {Null}]
  /\ ask.page # Null => PageOK(ask.cursor, ask.page)

\* The steady rows shown are in order, from the first one on without a gap.
ShownOK ==
  /\ shown \in Seq(Ids) /\ CursorOK(next)
  /\ \A i, j \in DOMAIN shown :
       i < j /\ shown[i] \in steady /\ shown[j] \in steady =>
         Precedes(query.sort, Row(shown[i]), Row(shown[j]))
  /\ Listed \cap steady \subseteq Wanted
  /\ \A id \in Wanted : Reached(next, id) => id \in Listed
  /\ \A x \in Wanted, y \in Listed \cap steady :
       Precedes(query.sort, Row(x), Row(y)) => x \in Listed
  /\ ~panel => \A id \in Listed \cap steady : Reached(next, id)
  /\ panel => \A i, j \in DOMAIN shown : shown[i] = shown[j] => i = j

ListingInv == TableOK /\ ShownOK /\ \A ask \in asks : AskOK(ask)

-----------------------------------------------------------------------------
(* Sets in an order                                                        *)

\* The place of an element is one more than the elements before it: so there
\* is an order of a finite set by any strict total order, and it has each
\* element once.
LEMMA OrderedFacts ==
  ASSUME NEW S, IsFiniteSet(S), NEW before,
         \A x, y \in S : x # y => <<x, y>> \in before \/ <<y, x>> \in before,
         \A x \in S : <<x, x>> \notin before,
         \A x, y, z \in S : <<x, y>> \in before /\ <<y, z>> \in before => <<x, z>> \in before
  PROVE  LET seq == Ordered(S, before)
         IN  /\ Cardinality(S) \in Nat /\ seq \in [1..Cardinality(S) -> S]
             /\ \A i, j \in 1..Cardinality(S) : i < j => <<seq[i], seq[j]>> \in before
             /\ \A i, j \in 1..Cardinality(S) : seq[i] = seq[j] => i = j
             /\ \A s \in S : \E i \in 1..Cardinality(S) : seq[i] = s
<1> DEFINE n == Cardinality(S)
           Before(s) == {x \in S : <<x, s>> \in before}
           rank == [s \in S |-> Cardinality(Before(s)) + 1]
           seq == Ordered(S, before)
<1>1. n \in Nat BY FS_CardinalityType
<1>2. \A s \in S : IsFiniteSet(Before(s)) /\ Cardinality(Before(s)) \in Nat
  <2> SUFFICES ASSUME NEW s \in S PROVE IsFiniteSet(Before(s)) /\ Cardinality(Before(s)) \in Nat
    OBVIOUS
  <2>1. Before(s) \in SUBSET S OBVIOUS
  <2> HIDE DEF Before
  <2> QED BY <2>1, FS_Subset, FS_CardinalityType
<1>3. \A s \in S : Cardinality(Before(s)) < n
  <2> SUFFICES ASSUME NEW s \in S PROVE Cardinality(Before(s)) < n OBVIOUS
  <2>1. Before(s) \in SUBSET S /\ Before(s) # S OBVIOUS
  <2> HIDE DEF Before
  <2>2. Cardinality(Before(s)) <= n /\ (n = Cardinality(Before(s)) => S = Before(s)) BY <2>1, FS_Subset
  <2> QED BY <1>1, <1>2, <2>1, <2>2
<1>4. \A x, y \in S : <<x, y>> \in before => rank[x] < rank[y]
  <2> SUFFICES ASSUME NEW x \in S, NEW y \in S, <<x, y>> \in before
               PROVE  Cardinality(Before(x)) < Cardinality(Before(y))
    BY <1>2
  <2>1. Before(x) \in SUBSET Before(y) /\ Before(x) # Before(y) OBVIOUS
  <2>2. IsFiniteSet(Before(y)) /\ Cardinality(Before(x)) \in Nat /\ Cardinality(Before(y)) \in Nat
    BY <1>2
  <2> HIDE DEF Before
  <2>3. /\ Cardinality(Before(x)) <= Cardinality(Before(y))
        /\ Cardinality(Before(y)) = Cardinality(Before(x)) => Before(y) = Before(x)
    BY <2>1, <2>2, FS_Subset
  <2> QED BY <2>1, <2>2, <2>3
<1>5. rank \in [S -> 1..n]
  <2> HIDE DEF Before
  <2> QED BY <1>1, <1>2, <1>3
<1>6. \A x, y \in S : rank[x] = rank[y] => x = y
  <2> HIDE DEF rank
  <2> SUFFICES ASSUME NEW x \in S, NEW y \in S, rank[x] = rank[y], x # y PROVE FALSE OBVIOUS
  <2>1. rank[x] \in Int /\ rank[y] \in Int BY <1>5
  <2>2. rank[x] < rank[y] \/ rank[y] < rank[x] BY <1>4
  <2> QED BY <2>1, <2>2
<1>7. \A i \in 1..n : \E s \in S : rank[s] = i
  <2> HIDE DEF rank
  <2>1. rank \in Injection(S, 1..n) BY <1>5, <1>6 DEF Injection, IsInjective
  <2>2. IsFiniteSet(1..n) /\ Cardinality(1..n) = n BY <1>1, FS_Interval
  <2>3. rank \in Surjection(S, 1..n) BY <2>1, <2>2, FS_Injection
  <2> QED BY <2>3 DEF Surjection
<1>8. \E f \in [1..n -> S] : \A i, j \in DOMAIN f : i < j => <<f[i], f[j]>> \in before
  <2> HIDE DEF rank, n
  <2> DEFINE f == [i \in 1..n |-> CHOOSE s \in S : rank[s] = i]
  <2>1. \A i \in 1..n : f[i] \in S /\ rank[f[i]] = i BY <1>7
  <2>2. f \in [1..n -> S] BY <2>1
  <2>3. ASSUME NEW i \in 1..n, NEW j \in 1..n, i < j PROVE <<f[i], f[j]>> \in before
    <3>1. f[i] \in S /\ f[j] \in S /\ rank[f[i]] = i /\ rank[f[j]] = j BY <2>1
    <3> HIDE DEF f
    <3>2. i \in Int /\ j \in Int OBVIOUS
    <3>3. ~(<<f[j], f[i]>> \in before) BY <1>4, <2>3, <3>1, <3>2
    <3>4. f[i] # f[j] BY <2>3, <3>1, <3>2
    <3> QED BY <3>1, <3>3, <3>4
  <2> HIDE DEF f
  <2>4. DOMAIN f = 1..n BY <2>2
  <2> QED BY <2>2, <2>3, <2>4
<1>9. seq \in [1..n -> S] /\ \A i, j \in DOMAIN seq : i < j => <<seq[i], seq[j]>> \in before
  BY <1>8 DEF Ordered
<1> HIDE DEF seq, rank, n
<1>10. DOMAIN seq = 1..n BY <1>9
<1>11. \A i, j \in 1..n : seq[i] = seq[j] => i = j
  <2> SUFFICES ASSUME NEW i \in 1..n, NEW j \in 1..n, i # j PROVE seq[i] # seq[j] OBVIOUS
  <2>1. i < j \/ j < i OBVIOUS
  <2> QED BY <1>9, <1>10, <2>1
<1>12. \A s \in S : \E i \in 1..n : seq[i] = s
  <2>1. seq \in Injection(1..n, S) BY <1>9, <1>10, <1>11 DEF Injection, IsInjective
  <2>2. IsFiniteSet(1..n) /\ Cardinality(1..n) = Cardinality(S) BY <1>1, FS_Interval DEF n
  <2>3. seq \in Surjection(1..n, S) BY <2>1, <2>2, FS_Injection
  <2> QED BY <2>3 DEF Surjection
<1> QED BY <1>1, <1>9, <1>10, <1>11, <1>12 DEF n, seq

-----------------------------------------------------------------------------
(* Rows in an order                                                        *)

RowOK(row, sort) ==
  /\ row.id \in Int
  /\ row.key \in Int \/ (sort = "lastSeenAt" /\ row.key = Null)

\* Key, then id, is a strict total order in every direction of the sorts.
LEMMA PrecedesIsAnOrder ==
  ASSUME NEW sort \in Sorts,
         NEW a, NEW b, NEW c, RowOK(a, sort), RowOK(b, sort), RowOK(c, sort)
  PROVE  /\ ~Precedes(sort, a, a)
         /\ Precedes(sort, a, b) /\ Precedes(sort, b, c) => Precedes(sort, a, c)
         /\ Precedes(sort, a, b) \/ Precedes(sort, b, a) \/ (a.id = b.id /\ a.key = b.key)
<1>0. Null \notin Int BY CursorsAssumption
<1>1. CASE sort = "asc"
  <2>1. \A x, y : Precedes(sort, x, y) <=> x.key < y.key \/ (x.key = y.key /\ x.id < y.id)
    BY <1>1 DEF Precedes
  <2>2. a.id \in Int /\ b.id \in Int /\ c.id \in Int /\ a.key \in Int /\ b.key \in Int /\ c.key \in Int
    BY <1>1 DEF RowOK
  <2> QED BY <2>1, <2>2
<1>2. CASE sort = "desc"
  <2>1. \A x, y : Precedes(sort, x, y) <=> x.key > y.key \/ (x.key = y.key /\ x.id > y.id)
    BY <1>2 DEF Precedes
  <2>2. a.id \in Int /\ b.id \in Int /\ c.id \in Int /\ a.key \in Int /\ b.key \in Int /\ c.key \in Int
    BY <1>2 DEF RowOK
  <2> QED BY <2>1, <2>2
<1>3. CASE sort = "lastSeenAt"
  <2>1. \A x, y : Precedes(sort, x, y) <=>
          \/ x.key # Null /\ y.key = Null
          \/ x.key # Null /\ y.key # Null /\ x.key > y.key
          \/ x.key = y.key /\ x.id > y.id
    BY <1>3 DEF Precedes
  <2>2. a.id \in Int /\ b.id \in Int /\ c.id \in Int BY DEF RowOK
  <2>3. /\ a.key = Null \/ (a.key \in Int /\ a.key # Null)
        /\ b.key = Null \/ (b.key \in Int /\ b.key # Null)
        /\ c.key = Null \/ (c.key \in Int /\ c.key # Null)
    BY <1>0 DEF RowOK
  <2>4. ~Precedes(sort, a, a) BY <2>1, <2>2, <2>3
  <2>5. Precedes(sort, a, b) /\ Precedes(sort, b, c) => Precedes(sort, a, c) BY <2>1, <2>2, <2>3
  <2>6. Precedes(sort, a, b) \/ Precedes(sort, b, a) \/ (a.id = b.id /\ a.key = b.key)
    BY <2>1, <2>2, <2>3
  <2> QED BY <2>4, <2>5, <2>6
<1> QED BY <1>1, <1>2, <1>3 DEF Sorts

\* The rows and the cursors of this query have a place in it.
LEMMA RowsAreOK ==
  ASSUME TableOK
  PROVE  /\ query.sort \in Sorts /\ query \in [sort : Sorts, filter : Filters \cup {Null}]
         /\ \A id \in Used : RowOK(Row(id), query.sort) /\ Row(id).id = id
         /\ \A c \in Encoded : CursorOK(c) => RowOK(Place(c), query.sort)
<1>1. PICK column \in {"key", "lastSeenAt"} : query \in [sort : SortsOf(column), filter : Filters \cup {Null}]
  BY DEF TableOK
<1>2. SortsOf(column) \subseteq Sorts
  BY DEF TableOK, SortsOf, SiteSorts, PointSorts, DeviceSorts, Sorts
<1>3. query.sort \in Sorts /\ query \in [sort : Sorts, filter : Filters \cup {Null}] BY <1>1, <1>2
<1>4. \A k \in KeysOf(query.sort) : k \in Int \/ (query.sort = "lastSeenAt" /\ k = Null)
  BY ListingAssumption DEF KeysOf
<1>5. ASSUME NEW id \in Used PROVE RowOK(Row(id), query.sort) /\ Row(id).id = id
  <2>1. id \in Int /\ table[id] \in Columns(query.sort) BY ListingAssumption DEF Used, TableOK
  <2>2. table[id].key \in KeysOf(query.sort) BY <2>1 DEF Columns
  <2>3. Row(id).id = id /\ Row(id).key = table[id].key BY DEF Row
  <2> QED BY <1>4, <2>1, <2>2, <2>3 DEF RowOK
<1>6. ASSUME NEW c \in Encoded, CursorOK(c) PROVE RowOK(Place(c), query.sort)
  <2>1. c \notin {Null, NoMore} BY ListingAssumption DEF Encoded
  <2>2. c.boundary.value \in KeysOf(query.sort) BY <1>6, <2>1 DEF CursorOK
  <2>3. c.boundary.id \in Int BY ListingAssumption DEF Encoded, SignedCursors
  <2>4. Place(c).id = c.boundary.id /\ Place(c).key = c.boundary.value BY DEF Place
  <2> QED BY <1>4, <2>2, <2>3, <2>4 DEF RowOK
<1> QED BY <1>3, <1>5, <1>6

\* What comes after a cursor, for the rows of this listing.
LEMMA CursorsAreTheOrder ==
  ASSUME TableOK, NEW c \in Encoded, CursorOK(c), NEW id \in Used
  PROVE  LET after == Precedes(query.sort, Place(c), Row(id))
         IN  /\ listing \in {"sites", "points"} => (Beyond(query.sort, c.boundary, Row(id)) <=> after)
             /\ listing = "devices" => (SeenBefore(query.sort, c.boundary, Row(id)) <=> after)
             /\ listing = "audit" => (Older(c.boundary, Row(id)) <=> after)
<1> DEFINE place == Place(c)
           row == Row(id)
<1>0. Null \notin Int BY CursorsAssumption
<1>1. RowOK(place, query.sort) /\ RowOK(row, query.sort) BY RowsAreOK
<1>2. place.id = c.boundary.id /\ place.key = c.boundary.value BY DEF Place
<1>3. /\ listing \in {"sites", "points"} => query.sort \in {"asc", "desc"}
      /\ listing = "audit" => query.sort = "desc"
      /\ query.sort \in Sorts
  BY RowsAreOK DEF TableOK, SortsOf, SiteSorts, PointSorts
<1> HIDE DEF place, row
<1>4. CASE query.sort = "asc"
  <2>1. /\ place.id \in Int /\ place.key \in Int /\ row.id \in Int /\ row.key \in Int
    BY <1>1, <1>4 DEF RowOK
  <2>2. Precedes(query.sort, place, row) <=> place.key < row.key \/ (place.key = row.key /\ place.id < row.id)
    BY <1>4 DEF Precedes
  <2>3. Beyond(query.sort, c.boundary, row)
          <=> row.key > place.key \/ (row.key = place.key /\ row.id > place.id)
    BY <1>2, <1>4 DEF Beyond
  <2>4. SeenBefore(query.sort, c.boundary, row) <=> Beyond(query.sort, c.boundary, row)
    BY <1>4 DEF SeenBefore
  <2>5. Precedes(query.sort, place, row) <=> Beyond(query.sort, c.boundary, row) BY <2>1, <2>2, <2>3
  <2> QED BY <1>3, <1>4, <2>4, <2>5 DEF place, row
<1>5. CASE query.sort = "desc"
  <2>1. /\ place.id \in Int /\ place.key \in Int /\ row.id \in Int /\ row.key \in Int
    BY <1>1, <1>5 DEF RowOK
  <2>2. Precedes(query.sort, place, row) <=> place.key > row.key \/ (place.key = row.key /\ place.id > row.id)
    BY <1>5 DEF Precedes
  <2>3. Beyond(query.sort, c.boundary, row)
          <=> row.key < place.key \/ (row.key = place.key /\ row.id < place.id)
    BY <1>2, <1>5 DEF Beyond
  <2>4. SeenBefore(query.sort, c.boundary, row) <=> Beyond(query.sort, c.boundary, row)
    BY <1>5 DEF SeenBefore
  <2>5. Precedes(query.sort, place, row) <=> Beyond(query.sort, c.boundary, row) BY <2>1, <2>2, <2>3
  <2>6. Older(c.boundary, row) <=> row.key < place.key \/ (row.key = place.key /\ row.id < place.id)
    BY <1>2 DEF Older
  <2>7. Precedes(query.sort, place, row) <=> Older(c.boundary, row) BY <2>1, <2>2, <2>6
  <2> QED BY <2>4, <2>5, <2>7 DEF place, row
<1>6. CASE query.sort = "lastSeenAt"
  <2>1. /\ place.id \in Int /\ (place.key \in Int \/ place.key = Null)
        /\ row.id \in Int /\ (row.key \in Int \/ row.key = Null)
    BY <1>1 DEF RowOK
  <2>2. Precedes(query.sort, place, row) <=>
          \/ place.key # Null /\ row.key = Null
          \/ place.key # Null /\ row.key # Null /\ place.key > row.key
          \/ place.key = row.key /\ place.id > row.id
    BY <1>6 DEF Precedes
  <2>3. SeenBefore(query.sort, c.boundary, row) <=>
          IF place.key = Null
          THEN row.key = Null /\ row.id < place.id
          ELSE \/ row.key = Null
               \/ /\ row.key # Null
                  /\ row.key < place.key \/ (row.key = place.key /\ row.id < place.id)
    BY <1>2, <1>6 DEF SeenBefore, Beyond
  <2>4. Precedes(query.sort, place, row) <=> SeenBefore(query.sort, c.boundary, row)
    <3>1. CASE place.key = Null BY <1>0, <2>1, <2>2, <2>3, <3>1
    <3>2. CASE place.key # Null /\ row.key = Null BY <1>0, <2>1, <2>2, <2>3, <3>2
    <3>3. CASE place.key # Null /\ row.key # Null BY <1>0, <2>1, <2>2, <2>3, <3>3
    <3> QED BY <3>1, <3>2, <3>3
  <2> QED BY <1>3, <1>6, <2>4 DEF place, row
<1> QED BY <1>3, <1>4, <1>5, <1>6 DEF Sorts

\* An answer is a page of the client's own query, after its cursor.
LEMMA AnswersAreOfTheQuery ==
  ASSUME TableOK, NEW ask, AskOK(ask), Answer(ask) # Null
  PROVE  /\ ask.query = query
         /\ \E toCome : /\ Answer(ask) = PageOf(ask, Found(ask, toCome), BindingOf(query))
                        /\ ask.cursor # Null =>
                             \A id \in Used :
                               id \in toCome <=> Precedes(query.sort, Place(ask.cursor), Row(id))
<1> DEFINE c == ask.cursor
<1>1. c = Null \/ (c \in Encoded /\ CursorOK(c) /\ c.binding = BindingOf(query))
  BY DEF AskOK, CursorOK
<1>2. /\ ask.query \in [sort : Sorts, filter : Filters \cup {Null}]
      /\ query \in [sort : Sorts, filter : Filters \cup {Null}]
  BY RowsAreOK DEF AskOK
<1>3. c = Null => ask.query = query BY DEF AskOK
<1>4. ask.query.sort = query.sort /\ ask.query.filter = query.filter => ask.query = query BY <1>2
<1>5. CASE listing = "sites"
  <2>1. Answer(ask) = Sites(ask) /\ BindingOf(query) = SiteBinding(query) BY <1>5 DEF Answer, BindingOf
  <2>2. c = Null \/ SiteCursorValid(c, ask.query, secret) BY <2>1 DEF Sites
  <2>3. c # Null => c.binding = SiteBinding(ask.query) BY <2>2 DEF SiteCursorValid, Signed
  <2>4. ask.query = query BY <1>1, <1>3, <1>4, <2>1, <2>3 DEF SiteBinding
  <2> DEFINE toCome == {id \in Used : Beyond(ask.query.sort, ask.cursor.boundary, Row(id))}
  <2>5. Answer(ask) = PageOf(ask, Found(ask, toCome), BindingOf(query)) BY <2>1, <2>2, <2>4 DEF Sites
  <2>6. c # Null => \A id \in Used : id \in toCome <=> Precedes(query.sort, Place(c), Row(id))
    BY <1>1, <1>5, <2>4, CursorsAreTheOrder
  <2> QED BY <2>4, <2>5, <2>6
<1>6. CASE listing = "points"
  <2>1. Answer(ask) = Points(ask) /\ BindingOf(query) = PointBinding(query) BY <1>6 DEF Answer, BindingOf
  <2>2. c = Null \/ PointCursorValid(c, ask.query, secret) BY <2>1 DEF Points
  <2>3. c # Null => c.binding = PointBinding(ask.query) BY <2>2 DEF PointCursorValid, Signed
  <2>4. ask.query = query BY <1>1, <1>3, <1>4, <2>1, <2>3 DEF PointBinding
  <2> DEFINE toCome == {id \in Used : Beyond(ask.query.sort, ask.cursor.boundary, Row(id))}
  <2>5. Answer(ask) = PageOf(ask, Found(ask, toCome), BindingOf(query)) BY <2>1, <2>2, <2>4 DEF Points
  <2>6. c # Null => \A id \in Used : id \in toCome <=> Precedes(query.sort, Place(c), Row(id))
    BY <1>1, <1>6, <2>4, CursorsAreTheOrder
  <2> QED BY <2>4, <2>5, <2>6
<1>7. CASE listing = "devices"
  <2>1. Answer(ask) = Devices(ask) /\ BindingOf(query) = DeviceBinding(query) BY <1>7 DEF Answer, BindingOf
  <2>2. c = Null \/ DeviceCursorValid(c, ask.query, secret) BY <2>1 DEF Devices
  <2>3. c # Null => c.binding = DeviceBinding(ask.query) BY <2>2 DEF DeviceCursorValid, Signed
  <2>4. ask.query = query BY <1>1, <1>3, <1>4, <2>1, <2>3 DEF DeviceBinding
  <2> DEFINE toCome == {id \in Used : SeenBefore(ask.query.sort, ask.cursor.boundary, Row(id))}
  <2>5. Answer(ask) = PageOf(ask, Found(ask, toCome), BindingOf(query)) BY <2>1, <2>2, <2>4 DEF Devices
  <2>6. c # Null => \A id \in Used : id \in toCome <=> Precedes(query.sort, Place(c), Row(id))
    BY <1>1, <1>7, <2>4, CursorsAreTheOrder
  <2> QED BY <2>4, <2>5, <2>6
<1>8. CASE listing = "audit"
  <2>1. Answer(ask) = Audit(ask) /\ BindingOf(query) = AuditBinding BY <1>8 DEF Answer, BindingOf
  <2>2. c = Null \/ AuditCursorValid(c, secret) BY <2>1 DEF Audit
  <2>4. ask.query = query BY <1>8 DEF AskOK, panel
  <2> DEFINE toCome == {id \in Used : Older(ask.cursor.boundary, Row(id))}
  <2>5. Answer(ask) = PageOf(ask, Found(ask, toCome), BindingOf(query)) BY <2>1, <2>2 DEF Audit
  <2>6. c # Null => \A id \in Used : id \in toCome <=> Precedes(query.sort, Place(c), Row(id))
    BY <1>1, <1>8, <2>4, CursorsAreTheOrder
  <2> QED BY <2>4, <2>5, <2>6
<1> QED BY <1>5, <1>6, <1>7, <1>8 DEF TableOK

\* A page takes the first rows, and looks whether there is one more.
LEMMA FirstRows ==
  ASSUME NEW S, NEW n \in Nat, NEW rows \in [1..n -> S], NEW limit \in Nat, limit >= 1
  PROVE  LET found == SubSeq(rows, 1, IF Len(rows) > limit THEN limit + 1 ELSE Len(rows))
             data == SubSeq(found, 1, IF Len(found) > limit THEN limit ELSE Len(found))
             m == IF n > limit THEN limit ELSE n
         IN  /\ Len(found) > limit <=> n > limit
             /\ data \in Seq(S) /\ DOMAIN data = 1..m
             /\ \A i \in 1..m : data[i] = rows[i]
             /\ n > limit => Last(data) = rows[limit]
<1> DEFINE found == SubSeq(rows, 1, IF Len(rows) > limit THEN limit + 1 ELSE Len(rows))
           data == SubSeq(found, 1, IF Len(found) > limit THEN limit ELSE Len(found))
           k == IF n > limit THEN limit + 1 ELSE n
           m == IF n > limit THEN limit ELSE n
<1>1. rows \in Seq(S) /\ Len(rows) = n OBVIOUS
<1>2. k \in Nat /\ k <= n /\ m \in Nat /\ m <= k /\ (k > limit <=> n > limit) OBVIOUS
<1>3. found = SubSeq(rows, 1, k) BY <1>1
<1> HIDE DEF found
<1>4. (IF k > limit THEN limit ELSE k) = m OBVIOUS
<1>5. \A i \in 1..k : rows[i] \in S BY <1>2
<1> HIDE DEF k, m
<1>6. /\ found \in Seq(S) /\ Len(found) = IF 1 <= k THEN k - 1 + 1 ELSE 0
      /\ \A i \in 1..(k - 1 + 1) : found[i] = rows[1 + i - 1]
  BY <1>2, <1>3, <1>5, SubSeqProperties
<1>7. Len(found) = k /\ \A i \in 1..k : found[i] = rows[i] /\ found[i] \in S BY <1>2, <1>5, <1>6
<1>8. data = SubSeq(found, 1, m) BY <1>4, <1>7
<1> HIDE DEF data
<1>9. \A i \in 1..m : found[i] \in S BY <1>2, <1>7
<1>10. /\ data \in Seq(S) /\ Len(data) = IF 1 <= m THEN m - 1 + 1 ELSE 0
       /\ \A i \in 1..(m - 1 + 1) : data[i] = found[1 + i - 1]
  BY <1>2, <1>8, <1>9, SubSeqProperties
<1>11. Len(data) = m /\ DOMAIN data = 1..m BY <1>2, <1>10
<1>12. \A i \in 1..m : data[i] = rows[i] BY <1>2, <1>7, <1>10
<1>13. n > limit => Last(data) = rows[limit]
  <2>1. n > limit => m = limit BY DEF m
  <2> QED BY <1>11, <1>12, <2>1 DEF Last
<1> QED BY <1>2, <1>7, <1>10, <1>11, <1>12, <1>13 DEF m, data, found

\* The rows found, in order; a page is their first ones.
LEMMA PagesAreOK ==
  ASSUME TableOK, NEW ask, AskOK(ask), Answer(ask) # Null
  PROVE  PageOK(ask.cursor, Answer(ask))
<1> DEFINE c == ask.cursor
           sort == query.sort
           limit == ask.limit
<1>1. PICK toCome :
        /\ Answer(ask) = PageOf(ask, Found(ask, toCome), BindingOf(query))
        /\ c # Null => \A id \in Used : id \in toCome <=> Precedes(sort, Place(c), Row(id))
  BY AnswersAreOfTheQuery
<1>2. ask.query = query BY AnswersAreOfTheQuery
<1>3. /\ sort \in Sorts
      /\ \A id \in Used : RowOK(Row(id), sort) /\ Row(id).id = id
      /\ \A x \in Encoded : CursorOK(x) => RowOK(Place(x), sort)
  BY RowsAreOK
<1>4. limit \in Nat /\ limit >= 1 BY DEF AskOK
<1>5. c = Null \/ (c \in Encoded /\ CursorOK(c) /\ c # Null)
  BY ListingAssumption DEF AskOK, CursorOK, Encoded
<1>6. Null \notin Encoded /\ NoMore \notin Encoded /\ Null # NoMore BY ListingAssumption DEF Encoded
<1> DEFINE F == {id \in Used : BaseWhere(query, Row(id)) /\ (c = Null \/ id \in toCome)}
           before == {p \in F \X F : Precedes(sort, Row(p[1]), Row(p[2]))}
           rows == Ordered(F, before)
           n == Cardinality(F)
<1>7. \A id : id \in F <=> /\ id \in Used /\ BaseWhere(query, Row(id)) /\ ~Reached(c, id)
  BY <1>1, <1>5, <1>6 DEF Reached
<1>8. F \subseteq Used /\ F \subseteq Ids BY DEF Used
<1>9. IsFiniteSet(F) BY <1>8, ListingAssumption, FS_Subset
<1>10. /\ n \in Nat /\ rows \in [1..n -> F]
       /\ \A i, j \in 1..n : i < j => <<rows[i], rows[j]>> \in before
       /\ \A i, j \in 1..n : rows[i] = rows[j] => i = j
       /\ \A s \in F : \E i \in 1..n : rows[i] = s
  <2>1. \A x, y \in F : <<x, y>> \in before <=> Precedes(sort, Row(x), Row(y)) OBVIOUS
  <2>2. \A x \in F : RowOK(Row(x), sort) /\ Row(x).id = x BY <1>3, <1>8
  <2> HIDE DEF F, before, sort
  <2>3. \A x, y \in F : x # y => <<x, y>> \in before \/ <<y, x>> \in before
    BY <1>3, <2>1, <2>2, PrecedesIsAnOrder
  <2>4. \A x \in F : <<x, x>> \notin before BY <1>3, <2>1, <2>2, PrecedesIsAnOrder
  <2>5. \A x, y, z \in F : <<x, y>> \in before /\ <<y, z>> \in before => <<x, z>> \in before
    BY <1>3, <2>1, <2>2, PrecedesIsAnOrder
  <2> HIDE DEF n, rows
  <2> QED BY <1>9, <2>3, <2>4, <2>5, OrderedFacts DEF n, rows
<1>11. \A i, j \in 1..n : i < j => Precedes(sort, Row(rows[i]), Row(rows[j])) BY <1>10
<1>12. \A i \in 1..n : rows[i] \in F BY <1>10
<1> DEFINE found == Found(ask, toCome)
           m == IF n > limit THEN limit ELSE n
           page == Answer(ask)
<1>13. found = SubSeq(rows, 1, IF Len(rows) > limit THEN limit + 1 ELSE Len(rows))
  <2>1. F = {id \in Used : BaseWhere(ask.query, Row(id)) /\ (ask.cursor = Null \/ id \in toCome)}
    BY <1>2
  <2>2. before = {p \in F \X F : Precedes(ask.query.sort, Row(p[1]), Row(p[2]))} BY <1>2
  <2> HIDE DEF before, F
  <2> QED BY <2>1, <2>2 DEF Found
<1>14. /\ page.data \in Seq(Ids) /\ DOMAIN page.data = 1..m
       /\ \A i \in 1..m : page.data[i] = rows[i]
       /\ page.next = IF n > limit
                      THEN Encode(BindingOf(query), Boundary(Row(rows[limit])), secret)
                      ELSE NoMore
  <2> DEFINE data == SubSeq(found, 1, IF Len(found) > limit THEN limit ELSE Len(found))
  <2>1. /\ page.data = data
        /\ page.next = IF Len(found) > limit
                       THEN Encode(BindingOf(query), Boundary(Row(Last(data))), secret)
                       ELSE NoMore
    <3> HIDE DEF found
    <3>1. page = PageOf(ask, found, BindingOf(query)) BY <1>1 DEF found
    <3> HIDE DEF page
    <3> QED BY <3>1 DEF PageOf
  <2>2. rows \in [1..n -> Ids]
    <3> HIDE DEF F, rows, n
    <3> QED BY <1>8, <1>10
  <2>3. n \in Nat BY <1>10
  <2> HIDE DEF found, rows, n, limit
  <2>4. /\ Len(found) > limit <=> n > limit
        /\ data \in Seq(Ids) /\ DOMAIN data = 1..m
        /\ \A i \in 1..m : data[i] = rows[i]
        /\ n > limit => Last(data) = rows[limit]
    <3> DEFINE first == SubSeq(rows, 1, IF Len(rows) > limit THEN limit + 1 ELSE Len(rows))
               page1 == SubSeq(first, 1, IF Len(first) > limit THEN limit ELSE Len(first))
    <3>1. /\ Len(first) > limit <=> n > limit
          /\ page1 \in Seq(Ids) /\ DOMAIN page1 = 1..m
          /\ \A i \in 1..m : page1[i] = rows[i]
          /\ n > limit => Last(page1) = rows[limit]
      <4> HIDE DEF first, page1, m
      <4> QED BY <1>4, <2>2, <2>3, FirstRows DEF first, page1, m
    <3>2. found = first BY <1>13
    <3>3. data = page1
      <4> HIDE DEF first
      <4> QED BY <3>2
    <3> HIDE DEF first, page1, data, m
    <3> QED BY <3>1, <3>2, <3>3
  <2> HIDE DEF data, page
  <2> QED BY <2>1, <2>4
<1> HIDE DEF page, found, rows, before
<1>15. m \in Nat /\ m <= n /\ (n > limit => m = limit) /\ (~(n > limit) => m = n)
  <2> HIDE DEF n
  <2> QED BY <1>4, <1>10
<1>16. \A i \in 1..m : i \in 1..n
  <2> HIDE DEF n, m
  <2> QED BY <1>10, <1>15
<1>17. CASE n > limit
  <2> DEFINE last == rows[limit]
  <2>1. limit \in 1..n
    <3> HIDE DEF n, limit
    <3> QED BY <1>4, <1>10, <1>17
  <2>2. last \in F /\ last \in Used /\ last \in Ids BY <1>8, <1>12, <2>1
  <2>3. table[last].key \in KeysOf(query.sort) /\ Row(last).key = table[last].key /\ Row(last).id = last
    BY <2>2 DEF Row, TableOK, Used, Columns
  <2>4. /\ page.next = [binding |-> BindingOf(query), boundary |-> [id |-> last, value |-> table[last].key],
                        signedWith |-> secret]
    BY <1>14, <1>17, <2>3 DEF Encode, Boundary
  <2>5. BindingOf(query) \in UNION {{SiteBinding(q), PointBinding(q), DeviceBinding(q), AuditBinding} :
                                     q \in [sort : Sorts, filter : Filters \cup {Null}]}
    BY RowsAreOK DEF BindingOf, TableOK
  <2>6. page.next \in Encoded
    BY <2>2, <2>3, <2>4, <2>5 DEF Encoded, SignedCursors, KeysOf, TableOK
  <2>7. CursorOK(page.next) BY <2>3, <2>4, <2>6 DEF CursorOK
  <2>8. Place(page.next).id = last /\ Place(page.next).key = Row(last).key BY <2>3, <2>4 DEF Place
  <2>9. \A r : /\ Precedes(sort, Place(page.next), r) <=> Precedes(sort, Row(last), r)
               /\ Precedes(sort, r, Place(page.next)) <=> Precedes(sort, r, Row(last))
    BY <2>3, <2>8 DEF Precedes
  <2>10. \A i \in 1..n : Reached(page.next, rows[i]) <=> i <= limit
    <3> SUFFICES ASSUME NEW i \in 1..n PROVE Reached(page.next, rows[i]) <=> i <= limit OBVIOUS
    <3>1. Reached(page.next, rows[i]) <=> ~Precedes(sort, Row(last), Row(rows[i]))
      BY <1>6, <2>6, <2>9 DEF Reached
    <3>2. i > limit => Precedes(sort, Row(last), Row(rows[i])) BY <1>11, <2>1
    <3>3. i < limit => Precedes(sort, Row(rows[i]), Row(last)) BY <1>11, <2>1
    <3>4. RowOK(Row(last), sort) /\ RowOK(Row(rows[i]), sort) BY <1>3, <1>8, <1>12, <2>2
    <3>5. ~Precedes(sort, Row(last), Row(last)) BY <1>3, <3>4, PrecedesIsAnOrder
    <3>6. Precedes(sort, Row(rows[i]), Row(last)) => ~Precedes(sort, Row(last), Row(rows[i]))
      BY <1>3, <3>4, <3>5, PrecedesIsAnOrder
    <3>7. i < limit \/ i = limit \/ i > limit BY <1>4
    <3>8. i = limit => rows[i] = last OBVIOUS
    <3>9. i \in Int /\ limit \in Int BY <1>4
    <3> HIDE DEF last, limit, n
    <3> QED BY <3>1, <3>2, <3>3, <3>5, <3>6, <3>7, <3>8, <3>9
  <2>11. c \in Encoded => Precedes(sort, Place(c), Place(page.next))
    <3> SUFFICES ASSUME c \in Encoded PROVE Precedes(sort, Place(c), Row(last)) BY <2>9
    <3>1. ~Reached(c, last) BY <1>7, <2>2
    <3> QED BY <3>1 DEF Reached
  <2> QED
    <3>1. page.next # Null BY <1>6, <2>6
    <3>2. \A id \in steady : (\E i \in DOMAIN page.data : page.data[i] = id)
            <=> id \in Wanted /\ ~Reached(c, id) /\ Reached(page.next, id)
      <4>0. \A id \in steady : id \in F <=> id \in Wanted /\ ~Reached(c, id)
        BY <1>7 DEF TableOK, Wanted
      <4> HIDE DEF F, m, c
      <4> SUFFICES ASSUME NEW id \in steady
                   PROVE  (\E i \in 1..m : rows[i] = id) <=> id \in F /\ Reached(page.next, id)
        BY <1>14, <4>0
      <4>1. m = limit BY <1>15, <1>17
      <4>2. ASSUME NEW i \in 1..m PROVE rows[i] \in F /\ Reached(page.next, rows[i])
        BY <1>12, <1>15, <1>16, <2>10, <4>1
      <4>3. ASSUME id \in F, Reached(page.next, id) PROVE \E i \in 1..m : rows[i] = id
        <5>1. PICK i \in 1..n : rows[i] = id BY <1>10, <4>3
        <5>2. i <= limit BY <2>10, <4>3, <5>1
        <5> QED BY <4>1, <5>1, <5>2
      <4> QED BY <4>2, <4>3
    <3>3. \A i, j \in DOMAIN page.data : i < j => Precedes(sort, Row(page.data[i]), Row(page.data[j]))
      BY <1>11, <1>14, <1>16
    <3>4. \A i, j \in DOMAIN page.data : page.data[i] = page.data[j] => i = j
      BY <1>10, <1>14, <1>16
    <3> QED BY <1>14, <2>7, <2>11, <3>1, <3>2, <3>3, <3>4 DEF PageOK, page
<1>18. CASE ~(n > limit)
  <2>1. page.next = NoMore /\ m = n BY <1>14, <1>15, <1>18
  <2>2. CursorOK(page.next) /\ page.next # Null /\ page.next \notin Encoded BY <1>6, <2>1 DEF CursorOK
  <2>3. \A id : Reached(page.next, id) BY <2>1 DEF Reached
  <2>4. \A id \in steady : (\E i \in DOMAIN page.data : page.data[i] = id)
          <=> id \in Wanted /\ ~Reached(c, id) /\ Reached(page.next, id)
    <3>1. \A id \in steady : id \in F <=> id \in Wanted /\ ~Reached(c, id)
      BY <1>7 DEF TableOK, Wanted
    <3> HIDE DEF F, m, c, n
    <3> QED BY <1>10, <1>14, <2>1, <2>3, <3>1
  <2>5. \A i, j \in DOMAIN page.data : i < j => Precedes(sort, Row(page.data[i]), Row(page.data[j]))
    BY <1>11, <1>14, <1>16
  <2>6. \A i, j \in DOMAIN page.data : page.data[i] = page.data[j] => i = j
    BY <1>10, <1>14, <1>16
  <2> QED BY <1>14, <2>2, <2>4, <2>5, <2>6 DEF PageOK, page
<1> QED BY <1>17, <1>18

-----------------------------------------------------------------------------
(* What a step leaves as it was                                            *)

\* The rows that stay steady keep their places.
LEMMA RowsStay ==
  ASSUME TableOK, UNCHANGED <<listing, query>>, steady' \subseteq steady,
         \A id \in steady' : table'[id] = table[id]
  PROVE  /\ panel' = panel /\ Encoded' = Encoded
         /\ \A id : id \in Wanted' <=> id \in Wanted /\ id \in steady'
         /\ \A c : CursorOK(c)' <=> CursorOK(c)
         /\ \A c : \A id \in steady' : Reached(c, id)' <=> Reached(c, id)
         /\ \A x, y \in steady' :
              Precedes(query.sort, Row(x), Row(y))' <=> Precedes(query.sort, Row(x), Row(y))
         /\ \A c, page : PageOK(c, page) => PageOK(c, page)'
<1>1. panel' = panel /\ Encoded' = Encoded BY DEF panel, Encoded, SignedCursors
<1>2. \A id \in steady' : Row(id)' = Row(id) BY DEF Row
<1>3. \A id : id \in Wanted' <=> id \in Wanted /\ id \in steady'
  <2>1. \A id : id \in Wanted' <=> id \in steady' /\ BaseWhere(query, Row(id))'
    BY DEF Wanted
  <2>2. \A id \in steady' : BaseWhere(query, Row(id))' <=> BaseWhere(query, Row(id))
    BY <1>2 DEF BaseWhere
  <2> QED BY <2>1, <2>2 DEF Wanted
<1>4. BindingOf(query)' = BindingOf(query) BY DEF BindingOf
<1>5. \A c : CursorOK(c)' <=> CursorOK(c) BY <1>1, <1>4 DEF CursorOK, KeysOf
<1>6. ASSUME NEW c, NEW id \in steady' PROVE Reached(c, id)' <=> Reached(c, id)
  <2>1. Precedes(query.sort, Place(c), Row(id))' <=> Precedes(query.sort, Place(c), Row(id))
    BY <1>2 DEF Precedes, Place
  <2> QED BY <1>1, <2>1 DEF Reached
<1>7. ASSUME NEW x \in steady', NEW y \in steady'
      PROVE  Precedes(query.sort, Row(x), Row(y))' <=> Precedes(query.sort, Row(x), Row(y))
  <2>1. Row(x)' = Row(x) /\ Row(y)' = Row(y) BY <1>2
  <2> QED BY <2>1 DEF Precedes
<1>8. \A a, b : Precedes(query.sort, a, b)' <=> Precedes(query.sort, a, b) BY DEF Precedes
<1>9. ASSUME NEW c, NEW page, PageOK(c, page) PROVE PageOK(c, page)'
  <2>1. page.data \in Seq(Ids) /\ CursorOK(page.next)' /\ page.next # Null
    BY <1>5, <1>9 DEF PageOK
  <2>2. \A i, j \in DOMAIN page.data : page.data[i] = page.data[j] => i = j
    BY <1>9 DEF PageOK
  <2>3. \A i, j \in DOMAIN page.data :
          i < j /\ page.data[i] \in steady' /\ page.data[j] \in steady' =>
            Precedes(query.sort, Row(page.data[i]), Row(page.data[j]))'
    BY <1>7, <1>9 DEF PageOK
  <2>4. \A id \in steady' :
          (\E i \in DOMAIN page.data : page.data[i] = id)
            <=> id \in Wanted' /\ ~Reached(c, id)' /\ Reached(page.next, id)'
    BY <1>3, <1>6, <1>9 DEF PageOK
  <2>5. c \in Encoded' /\ page.next \in Encoded' => Precedes(query.sort, Place(c), Place(page.next))'
    BY <1>1, <1>8, <1>9 DEF PageOK
  <2> QED BY <2>1, <2>2, <2>3, <2>4, <2>5 DEF PageOK
<1> QED BY <1>1, <1>3, <1>5, <1>6, <1>7, <1>9

\* So do the requests under way.
LEMMA AsksStay ==
  ASSUME TableOK, UNCHANGED <<listing, query>>, steady' \subseteq steady,
         \A id \in steady' : table'[id] = table[id],
         NEW ask, AskOK(ask), \A id \in Listed : id \in Listed',
         ~panel => next' = next /\ asks' = asks
  PROVE  AskOK(ask)'
<1>1. panel' = panel BY RowsStay
<1>2. CursorOK(ask.cursor)' BY RowsStay DEF AskOK
<1>3. \A id \in Wanted' : Reached(ask.cursor, id)' => id \in Listed'
  <2> SUFFICES ASSUME NEW id \in Wanted', Reached(ask.cursor, id)' PROVE id \in Listed'
    OBVIOUS
  <2>1. id \in Wanted /\ id \in steady' BY RowsStay
  <2>2. Reached(ask.cursor, id) BY <2>1, RowsStay
  <2> QED BY <2>1, <2>2 DEF AskOK
<1>4. ask.page # Null => PageOK(ask.cursor, ask.page)' BY RowsStay DEF AskOK
<1>5. ~panel' => ask.cursor = next' /\ asks' = {ask} BY <1>1 DEF AskOK
<1> QED BY <1>1, <1>2, <1>3, <1>4, <1>5 DEF AskOK

\* And so does what is shown.
LEMMA ShownStays ==
  ASSUME TableOK, UNCHANGED <<listing, query>>, steady' \subseteq steady,
         \A id \in steady' : table'[id] = table[id],
         ShownOK, UNCHANGED <<shown, next>>
  PROVE  ShownOK' /\ Listed' = Listed
<1>0. Listed' = Listed BY DEF Listed
<1>1. panel' = panel /\ CursorOK(next)'
  <2>1. panel' = panel /\ CursorOK(next) BY RowsStay DEF ShownOK
  <2>2. BindingOf(query)' = BindingOf(query) /\ Encoded' = Encoded
    BY DEF BindingOf, Encoded, SignedCursors
  <2> QED BY <2>1, <2>2 DEF CursorOK, KeysOf
<1>2. \A id \in Wanted' : id \in Wanted /\ id \in steady' /\ id \in steady BY RowsStay
<1>3. \A id \in steady' : Reached(next, id)' <=> Reached(next, id)
  <2>1. \A id \in steady' : Row(id)' = Row(id) BY DEF Row
  <2>2. Encoded' = Encoded BY DEF Encoded, SignedCursors
  <2> QED BY <2>1, <2>2 DEF Reached, Place, Precedes
<1>4. shown' \in Seq(Ids) BY DEF ShownOK
<1>5. \A i, j \in DOMAIN shown' :
        i < j /\ shown'[i] \in steady' /\ shown'[j] \in steady' =>
          Precedes(query.sort, Row(shown[i]), Row(shown[j]))'
  <2> SUFFICES ASSUME NEW i \in DOMAIN shown, NEW j \in DOMAIN shown, i < j,
                      shown[i] \in steady', shown[j] \in steady'
               PROVE  Precedes(query.sort, Row(shown[i]), Row(shown[j]))'
    OBVIOUS
  <2>1. Precedes(query.sort, Row(shown[i]), Row(shown[j])) BY DEF ShownOK
  <2>2. Row(shown[i])' = Row(shown[i]) /\ Row(shown[j])' = Row(shown[j]) BY DEF Row
  <2> QED BY <2>1, <2>2 DEF Precedes
<1>6. Listed' \cap steady' \subseteq Wanted' BY <1>0, RowsStay DEF ShownOK
<1>7. \A id \in Wanted' : Reached(next, id)' => id \in Listed' BY <1>0, <1>2, <1>3 DEF ShownOK
<1>8. \A x \in Wanted', y \in Listed' \cap steady' :
        Precedes(query.sort, Row(x), Row(y))' => x \in Listed'
  <2> SUFFICES ASSUME NEW x \in Wanted', NEW y \in Listed' \cap steady', Precedes(query.sort, Row(x), Row(y))'
               PROVE  x \in Listed'
    OBVIOUS
  <2>1. Precedes(query.sort, Row(x), Row(y)) BY <1>2, RowsStay
  <2> QED BY <1>0, <1>2, <2>1 DEF ShownOK
<1>9. ~panel' => \A id \in Listed' \cap steady' : Reached(next, id)' BY <1>0, <1>1, <1>3 DEF ShownOK
<1>10. panel' => \A i, j \in DOMAIN shown' : shown'[i] = shown'[j] => i = j BY <1>1 DEF ShownOK
<1> QED BY <1>0, <1>1, <1>4, <1>5, <1>6, <1>7, <1>8, <1>9, <1>10 DEF ShownOK

-----------------------------------------------------------------------------
(* Putting pages together                                                  *)

\* The rows up to a cursor come before the others.
LEMMA ReachedComesFirst ==
  ASSUME TableOK, NEW c, CursorOK(c), NEW x \in Used, NEW y \in Used
  PROVE  /\ c # NoMore /\ Reached(c, x) /\ ~Reached(c, y) => Precedes(query.sort, Row(x), Row(y))
         /\ Reached(c, y) /\ Precedes(query.sort, Row(x), Row(y)) => Reached(c, x)
<1> DEFINE sort == query.sort
<1>1. sort \in Sorts /\ RowOK(Row(x), sort) /\ RowOK(Row(y), sort) BY RowsAreOK
<1>2. CASE c \in Encoded
  <2> DEFINE place == Place(c)
  <2>1. RowOK(place, sort) BY <1>2, RowsAreOK
  <2>2. c # NoMore BY <1>2, ListingAssumption DEF Encoded
  <2>3. \A id : Reached(c, id) <=> ~Precedes(sort, place, Row(id)) BY <1>2, <2>2 DEF Reached
  <2>4. place.id = Row(x).id /\ place.key = Row(x).key =>
          (Precedes(sort, place, Row(y)) <=> Precedes(sort, Row(x), Row(y)))
    BY DEF Precedes
  <2> HIDE DEF place, sort
  <2>5. /\ Precedes(sort, place, Row(x)) \/ Precedes(sort, Row(x), place)
           \/ (place.id = Row(x).id /\ place.key = Row(x).key)
    BY <1>1, <2>1, PrecedesIsAnOrder
  <2>6. Precedes(sort, Row(x), place) /\ Precedes(sort, place, Row(y)) => Precedes(sort, Row(x), Row(y))
    BY <1>1, <2>1, PrecedesIsAnOrder
  <2>7. Precedes(sort, place, Row(x)) /\ Precedes(sort, Row(x), Row(y)) => Precedes(sort, place, Row(y))
    BY <1>1, <2>1, PrecedesIsAnOrder
  <2> QED BY <2>3, <2>4, <2>5, <2>6, <2>7 DEF sort
<1>3. CASE c \notin Encoded BY <1>3 DEF Reached
<1> QED BY <1>2, <1>3

\* appendUnique: what is new, in the order of the page.
LEMMA NewEntries ==
  ASSUME NEW ids \in Seq(Ids), NEW data \in Seq(Ids),
         \A i, j \in DOMAIN data : data[i] = data[j] => i = j
  PROVE  \E tail \in Seq(Ids) :
           /\ AppendNew(ids, data) = ids \o tail
           /\ \A n \in DOMAIN tail : /\ \E i \in DOMAIN data : tail[n] = data[i]
                                     /\ \A k \in DOMAIN ids : ids[k] # tail[n]
           /\ \A m, n \in DOMAIN tail : m < n =>
                \E i, j \in DOMAIN data : i < j /\ tail[m] = data[i] /\ tail[n] = data[j]
           /\ \A m, n \in DOMAIN tail : tail[m] = tail[n] => m = n
           /\ \A i \in DOMAIN data :
                (\E k \in DOMAIN ids : ids[k] = data[i]) \/ \E n \in DOMAIN tail : tail[n] = data[i]
<1> DEFINE new == {i \in DOMAIN data : data[i] \notin Range(ids)}
           before == {p \in new \X new : p[1] < p[2]}
           places == Ordered(new, before)
           m == Cardinality(new)
           tail == [n \in 1..m |-> data[places[n]]]
<1>1. \A i \in DOMAIN data : i \in new <=> \A k \in DOMAIN ids : ids[k] # data[i] BY DEF Range
<1>2. new \subseteq DOMAIN data /\ DOMAIN data = 1..Len(data) /\ Len(data) \in Nat OBVIOUS
<1>3. IsFiniteSet(new)
  <2> HIDE DEF new
  <2>1. IsFiniteSet(1..Len(data)) BY <1>2, FS_Interval
  <2> QED BY <1>2, <2>1, FS_Subset
<1>4. \A x, y \in new : <<x, y>> \in before <=> x < y OBVIOUS
<1>5. \A x \in new : x \in Int BY <1>2
<1> HIDE DEF new, before
<1>6. /\ m \in Nat /\ places \in [1..m -> new]
      /\ \A i, j \in 1..m : i < j => <<places[i], places[j]>> \in before
      /\ \A i, j \in 1..m : places[i] = places[j] => i = j
      /\ \A s \in new : \E i \in 1..m : places[i] = s
  <2>1. \A x, y \in new : x # y => <<x, y>> \in before \/ <<y, x>> \in before BY <1>4, <1>5
  <2>2. \A x \in new : <<x, x>> \notin before BY <1>4, <1>5
  <2>3. \A x, y, z \in new : <<x, y>> \in before /\ <<y, z>> \in before => <<x, z>> \in before
    BY <1>4, <1>5
  <2> HIDE DEF m, places
  <2> QED BY <1>3, <2>1, <2>2, <2>3, OrderedFacts DEF m, places
<1>7. AppendNew(ids, data) = ids \o tail BY DEF AppendNew, new, before
<1> HIDE DEF places, m
<1>8. \A n \in 1..m : places[n] \in new /\ places[n] \in DOMAIN data /\ tail[n] = data[places[n]]
  BY <1>2, <1>6
<1>9. tail \in Seq(Ids) /\ DOMAIN tail = 1..m
  <2>1. \A n \in 1..m : data[places[n]] \in Ids BY <1>8
  <2> QED BY <1>6, <2>1
<1> HIDE DEF tail
<1>10. \A n \in DOMAIN tail : /\ \E i \in DOMAIN data : tail[n] = data[i]
                              /\ \A k \in DOMAIN ids : ids[k] # tail[n]
  BY <1>1, <1>8, <1>9
<1>11. \A k, n \in DOMAIN tail : k < n =>
         \E i, j \in DOMAIN data : i < j /\ tail[k] = data[i] /\ tail[n] = data[j]
  <2> SUFFICES ASSUME NEW k \in 1..m, NEW n \in 1..m, k < n
               PROVE  \E i, j \in DOMAIN data : i < j /\ tail[k] = data[i] /\ tail[n] = data[j]
    BY <1>9
  <2>1. places[k] < places[n] BY <1>4, <1>6, <1>8
  <2> QED BY <1>8, <2>1
<1>12. \A k, n \in DOMAIN tail : tail[k] = tail[n] => k = n
  BY <1>6, <1>8, <1>9
<1>13. \A i \in DOMAIN data :
         (\E k \in DOMAIN ids : ids[k] = data[i]) \/ \E n \in DOMAIN tail : tail[n] = data[i]
  <2> SUFFICES ASSUME NEW i \in DOMAIN data, \A k \in DOMAIN ids : ids[k] # data[i]
               PROVE  \E n \in DOMAIN tail : tail[n] = data[i]
    OBVIOUS
  <2>1. i \in new BY <1>1
  <2>2. PICK n \in 1..m : places[n] = i BY <1>6, <2>1
  <2> QED BY <1>8, <1>9, <2>2
<1> QED BY <1>7, <1>9, <1>10, <1>11, <1>12, <1>13

\* A page whose new entries are appended to those shown.
LEMMA AppendedIsOK ==
  ASSUME TableOK, ShownOK, UNCHANGED <<listing, table, query, steady>>,
         NEW ask, AskOK(ask), ask.page # Null, next' = ask.page.next,
         NEW tail \in Seq(Ids), shown' = shown \o tail,
         \A n \in DOMAIN tail : \E i \in DOMAIN ask.page.data : tail[n] = ask.page.data[i],
         \A m, n \in DOMAIN tail : m < n =>
           \E i, j \in DOMAIN ask.page.data :
             i < j /\ tail[m] = ask.page.data[i] /\ tail[n] = ask.page.data[j],
         \A i \in DOMAIN ask.page.data :
           \/ \E k \in DOMAIN shown : shown[k] = ask.page.data[i]
           \/ \E n \in DOMAIN tail : tail[n] = ask.page.data[i],
         panel => /\ \A n \in DOMAIN tail : \A k \in DOMAIN shown : shown[k] # tail[n]
                  /\ \A m, n \in DOMAIN tail : tail[m] = tail[n] => m = n
  PROVE  ShownOK' /\ \A id \in Listed : id \in Listed'
<1> DEFINE c == ask.cursor
           page == ask.page
           data == ask.page.data
           sort == query.sort
           Got == {data[i] : i \in DOMAIN data}
           len == Len(shown)
<1>1. /\ CursorOK(c) /\ c # NoMore /\ PageOK(c, page)
      /\ \A id \in Wanted : Reached(c, id) => id \in Listed
      /\ ~panel => c = next
  BY DEF AskOK
<1>2. \A id \in steady : id \in Got <=> id \in Wanted /\ ~Reached(c, id) /\ Reached(page.next, id)
  BY <1>1 DEF PageOK
<1>3. CursorOK(page.next) /\ page.next # Null BY <1>1 DEF PageOK
<1>4. steady \subseteq Used /\ Wanted \subseteq steady BY DEF TableOK, Wanted
<1>5. /\ len \in Nat /\ DOMAIN shown = 1..len /\ shown \in Seq(Ids)
      /\ Len(tail) \in Nat /\ DOMAIN tail = 1..Len(tail)
  BY DEF ShownOK
<1>6. /\ shown' \in Seq(Ids) /\ DOMAIN shown' = 1..(len + Len(tail))
      /\ \A i \in 1..len : shown'[i] = shown[i]
      /\ \A i \in DOMAIN shown' : i > len => i - len \in DOMAIN tail /\ shown'[i] = tail[i - len]
      /\ \A n \in DOMAIN tail : len + n \in DOMAIN shown' /\ shown'[len + n] = tail[n]
  <2>1. /\ shown \o tail \in Seq(Ids) /\ Len(shown \o tail) = len + Len(tail)
        /\ \A i \in 1..(len + Len(tail)) : (shown \o tail)[i] = IF i <= len THEN shown[i] ELSE tail[i - len]
    BY <1>5, ConcatProperties
  <2>2. shown' \in Seq(Ids) /\ DOMAIN shown' = 1..(len + Len(tail))
        /\ \A i \in 1..(len + Len(tail)) : shown'[i] = IF i <= len THEN shown[i] ELSE tail[i - len]
    BY <1>5, <2>1
  <2> QED BY <1>5, <2>2
<1>7. \A id : id \in Listed' <=> id \in Listed \/ id \in Got
  <2>0. \A id : id \in Listed' <=> \E i \in DOMAIN shown' : shown'[i] = id BY DEF Listed
  <2>1. \A id \in Listed : id \in Listed' BY <1>5, <1>6 DEF Listed
  <2>2. \A n \in DOMAIN tail : tail[n] \in Listed' BY <1>6, <2>0
  <2>3. \A i \in DOMAIN data : data[i] \in Listed \/ \E n \in DOMAIN tail : tail[n] = data[i]
    BY DEF Listed
  <2>4. \A id \in Got : id \in Listed' BY <2>1, <2>2, <2>3
  <2>5. ASSUME NEW i \in DOMAIN shown' PROVE shown'[i] \in Listed \/ shown'[i] \in Got
    <3>1. i <= len => i \in DOMAIN shown /\ shown'[i] = shown[i] BY <1>5, <1>6
    <3>2. i > len => i - len \in DOMAIN tail /\ shown'[i] = tail[i - len] BY <1>6
    <3>3. i <= len \/ i > len BY <1>5, <1>6
    <3> QED BY <3>1, <3>2, <3>3 DEF Listed
  <2> HIDE DEF Got
  <2> QED BY <2>0, <2>1, <2>4, <2>5
<1>8. \A n \in DOMAIN tail : tail[n] \in Got OBVIOUS
<1> HIDE DEF Got, c, page, sort
\* An entry of the page follows the steady ones that are shown.
<1>9. ASSUME NEW x \in Listed, x \in steady, NEW n \in DOMAIN tail, tail[n] \in steady
      PROVE  Precedes(sort, Row(x), Row(tail[n]))
  <2> DEFINE y == tail[n]
  <2>1. y \in Wanted /\ ~Reached(c, y) BY <1>2, <1>8, <1>9
  <2> HIDE DEF y
  <2>2. CASE ~panel
    <3>1. Reached(c, x) BY <1>1, <1>9, <2>2 DEF ShownOK
    <3> QED BY <1>1, <1>4, <1>9, <2>1, <3>1, ReachedComesFirst DEF sort, y
  <2>3. CASE panel
    <3>1. y \notin Listed BY <2>3 DEF Listed, y
    <3>2. ~Precedes(sort, Row(y), Row(x)) BY <1>9, <2>1, <3>1 DEF ShownOK, sort
    <3>3. /\ sort \in Sorts /\ RowOK(Row(x), sort) /\ RowOK(Row(y), sort) /\ Row(x).id = x /\ Row(y).id = y
      BY <1>4, <1>9, <2>1, RowsAreOK DEF sort
    <3>4. x # y BY <3>1
    <3> QED BY <3>2, <3>3, <3>4, PrecedesIsAnOrder DEF y
  <2> QED BY <2>2, <2>3
<1>10. \A i, j \in DOMAIN shown' :
         i < j /\ shown'[i] \in steady /\ shown'[j] \in steady =>
           Precedes(sort, Row(shown'[i]), Row(shown'[j]))
  <2> SUFFICES ASSUME NEW i \in DOMAIN shown', NEW j \in DOMAIN shown', i < j,
                      shown'[i] \in steady, shown'[j] \in steady
               PROVE  Precedes(sort, Row(shown'[i]), Row(shown'[j]))
    OBVIOUS
  <2>1. i \in Int /\ j \in Int /\ i >= 1 /\ j >= 1 BY <1>5, <1>6
  <2>2. CASE j <= len
    <3>1. i \in DOMAIN shown /\ j \in DOMAIN shown /\ shown'[i] = shown[i] /\ shown'[j] = shown[j]
      BY <1>5, <1>6, <2>1, <2>2
    <3> QED BY <3>1 DEF ShownOK, sort
  <2>3. CASE j > len /\ i <= len
    <3>1. i \in DOMAIN shown /\ shown'[i] = shown[i] BY <1>5, <1>6, <2>1, <2>3
    <3>2. shown'[i] \in Listed BY <3>1 DEF Listed
    <3>3. j - len \in DOMAIN tail /\ shown'[j] = tail[j - len] BY <1>6, <2>3
    <3> QED BY <1>9, <3>2, <3>3
  <2>4. CASE i > len /\ j > len
    <3>1. /\ i - len \in DOMAIN tail /\ shown'[i] = tail[i - len]
          /\ j - len \in DOMAIN tail /\ shown'[j] = tail[j - len]
      BY <1>6, <2>4
    <3>2. i - len < j - len BY <1>5, <2>1
    <3> DEFINE m == i - len
               n == j - len
    <3> HIDE DEF m, n
    <3>3. PICK k \in DOMAIN data, l \in DOMAIN data : k < l /\ tail[m] = data[k] /\ tail[n] = data[l]
      <4>1. m \in DOMAIN tail /\ n \in DOMAIN tail /\ m < n BY <3>1, <3>2 DEF m, n
      <4> QED BY <4>1
    <3>4. shown'[i] = data[k] /\ shown'[j] = data[l] BY <3>1, <3>3 DEF m, n
    <3> QED BY <1>1, <3>3, <3>4 DEF PageOK, sort, page
  <2> QED BY <1>5, <2>1, <2>2, <2>3, <2>4
<1>11. \A id \in steady : id \in Listed' => id \in Wanted BY <1>2, <1>7 DEF ShownOK
<1>12. \A id \in Wanted : Reached(page.next, id) => id \in Listed' BY <1>1, <1>2, <1>4, <1>7
<1>13. ASSUME NEW x \in Wanted, NEW y \in steady, y \in Listed', Precedes(sort, Row(x), Row(y))
       PROVE  x \in Listed'
  <2>1. CASE y \in Listed BY <1>7, <1>13, <2>1 DEF ShownOK, sort
  <2>2. CASE y \in Got
    <3>1. Reached(page.next, y) BY <1>2, <2>2
    <3>2. Reached(page.next, x) BY <1>3, <1>4, <1>13, <3>1, ReachedComesFirst DEF sort
    <3> QED BY <1>12, <3>2
  <2> QED BY <1>7, <1>13, <2>1, <2>2
<1>14. ASSUME ~panel, NEW id \in steady, id \in Listed' PROVE Reached(page.next, id)
  <2>1. CASE id \in Got BY <1>2, <2>1
  <2>2. CASE id \in Listed
    <3>1. Reached(c, id) BY <1>1, <1>14, <2>2 DEF ShownOK
    <3>2. c \in Encoded /\ ~Precedes(sort, Place(c), Row(id)) BY <1>1, <3>1 DEF Reached, sort
    <3>3. CASE page.next = NoMore BY <3>3 DEF Reached
    <3>4. CASE page.next \in Encoded
      <4>1. Precedes(sort, Place(c), Place(page.next)) BY <1>1, <3>2, <3>4 DEF PageOK, sort
      <4>2. /\ sort \in Sorts /\ RowOK(Row(id), sort)
            /\ RowOK(Place(c), sort) /\ RowOK(Place(page.next), sort)
        BY <1>1, <1>3, <1>4, <3>2, <3>4, RowsAreOK DEF sort
      <4>3. ~Precedes(sort, Place(page.next), Row(id)) BY <3>2, <4>1, <4>2, PrecedesIsAnOrder
      <4> QED BY <3>4, <4>3 DEF Reached, sort
    <3> QED BY <1>3, <3>3, <3>4 DEF CursorOK
  <2> QED BY <1>7, <1>14, <2>1, <2>2
<1>15. ASSUME panel, NEW i \in DOMAIN shown', NEW j \in DOMAIN shown', shown'[i] = shown'[j] PROVE i = j
  <2>1. i \in Int /\ j \in Int BY <1>5, <1>6
  <2>2. \A k \in DOMAIN shown' : k <= len => k \in DOMAIN shown /\ shown'[k] = shown[k] BY <1>5, <1>6
  <2>3. CASE i <= len /\ j <= len BY <1>15, <2>2, <2>3 DEF ShownOK
  <2>4. CASE i > len /\ j > len
    <3>1. i - len \in DOMAIN tail /\ j - len \in DOMAIN tail /\ tail[i - len] = tail[j - len]
      BY <1>6, <1>15, <2>4
    <3>2. i - len = j - len BY <1>15, <3>1
    <3> QED BY <1>5, <2>1, <3>2
  <2>5. CASE i <= len /\ j > len BY <1>6, <1>15, <2>2, <2>5
  <2>6. CASE i > len /\ j <= len BY <1>6, <1>15, <2>2, <2>6
  <2> QED BY <1>5, <2>1, <2>3, <2>4, <2>5, <2>6
\* The same in the next state.
<1>16. /\ panel' = panel /\ steady' = steady /\ Wanted' = Wanted
       /\ \A x : CursorOK(x)' <=> CursorOK(x)
       /\ \A x : \A id \in steady : Reached(x, id)' <=> Reached(x, id)
       /\ \A x, y \in steady : Precedes(query.sort, Row(x), Row(y))' <=> Precedes(query.sort, Row(x), Row(y))
  BY RowsStay, <1>4
<1>17. CursorOK(next)'
  <2>1. BindingOf(query)' = BindingOf(query) /\ Encoded' = Encoded
    BY DEF BindingOf, Encoded, SignedCursors
  <2> QED BY <1>3, <2>1 DEF CursorOK, KeysOf, page
<1>18. \A id \in steady : Reached(next, id)' <=> Reached(page.next, id)
  <2>1. \A id \in steady : Row(id)' = Row(id) BY DEF Row
  <2>2. Encoded' = Encoded BY DEF Encoded, SignedCursors
  <2> QED BY <2>1, <2>2 DEF Reached, Place, Precedes, page
<1>19. \A i, j \in DOMAIN shown' :
         i < j /\ shown'[i] \in steady' /\ shown'[j] \in steady' =>
           Precedes(query.sort, Row(shown[i]), Row(shown[j]))'
  <2> SUFFICES ASSUME NEW i \in DOMAIN shown', NEW j \in DOMAIN shown', i < j,
                      shown'[i] \in steady, shown'[j] \in steady
               PROVE  Precedes(query.sort, Row(shown[i]), Row(shown[j]))'
    BY <1>16
  <2>1. Precedes(query.sort, Row(shown'[i]), Row(shown'[j])) BY <1>10 DEF sort
  <2> QED BY <2>1 DEF Precedes, Row
<1>20. \A x \in Wanted', y \in Listed' \cap steady' :
         Precedes(query.sort, Row(x), Row(y))' => x \in Listed'
  BY <1>4, <1>13, <1>16 DEF sort
<1>21. \A id \in Wanted' : Reached(next, id)' => id \in Listed' BY <1>4, <1>12, <1>16, <1>18
<1>22. ~panel' => \A id \in Listed' \cap steady' : Reached(next, id)' BY <1>14, <1>16, <1>18
<1>23. Listed' \cap steady' \subseteq Wanted' BY <1>11, <1>16
<1>24. panel' => \A i, j \in DOMAIN shown' : shown'[i] = shown'[j] => i = j BY <1>15, <1>16
<1> QED BY <1>6, <1>7, <1>17, <1>19, <1>20, <1>21, <1>22, <1>23, <1>24 DEF ShownOK

-----------------------------------------------------------------------------
(* The steps                                                               *)

\* Nothing is shown yet.
LEMMA InitIsOK == Init => ListingInv
<1> SUFFICES ASSUME Init PROVE ListingInv OBVIOUS
<1>1. TableOK
  <2>1. PICK column \in {"key", "lastSeenAt"} : query \in [sort : SortsOf(column), filter : Filters \cup {Null}]
    BY DEF Init
  <2> QED BY <2>1 DEF Init, TableOK
<1>2. shown = <<>> /\ Listed = {} /\ next = Null /\ asks = {} BY DEF Init, Listed
<1>3. \A id : ~Reached(next, id) BY <1>2, ListingAssumption DEF Reached, Encoded
<1>4. ShownOK
  <2>1. shown \in Seq(Ids) /\ CursorOK(next) BY <1>2 DEF CursorOK
  <2>2. DOMAIN shown = {} BY <1>2
  <2> QED BY <1>2, <1>3, <2>1, <2>2 DEF ShownOK
<1> QED BY <1>1, <1>2, <1>4 DEF ListingInv

\* What only the requests see.
LEMMA TableStays ==
  ASSUME TableOK, UNCHANGED <<listing, table, query, steady>>, secret' \in Nat
  PROVE  TableOK'
<1>1. PICK column \in {"key", "lastSeenAt"} : query \in [sort : SortsOf(column), filter : Filters \cup {Null}]
  BY DEF TableOK
<1>2. SortsOf(column)' = SortsOf(column) BY DEF SortsOf
<1>3. query' \in [sort : SortsOf(column), filter : Filters \cup {Null}]' BY <1>1, <1>2
<1> QED BY <1>3 DEF TableOK, panel, Used, Columns, KeysOf

\* A new request asks for what follows the pages shown.
LEMMA AskIsOK ==
  ASSUME ListingInv, NEW n, NEW q \in [sort : Sorts, filter : Filters \cup {Null}], NEW limit \in Limits,
         next # NoMore, panel \/ asks = {}, panel \/ next = Null => q = query,
         Ask(n, q, next, limit)
  PROVE  ListingInv'
<1> DEFINE new == [slot |-> n, query |-> q, cursor |-> next, limit |-> limit, page |-> Null]
<1>1. TableOK /\ ShownOK /\ \A ask \in asks : AskOK(ask) BY DEF ListingInv
<1>2. asks' = asks \cup {new} /\ UNCHANGED <<listing, table, secret, query, shown, next, steady>> BY DEF Ask
<1>3. TableOK' BY <1>1, <1>2, TableStays DEF TableOK
<1>4. ShownOK' /\ Listed' = Listed BY <1>1, <1>2, ShownStays
<1>5. panel' = panel BY <1>2 DEF panel
<1>6. AskOK(new)'
  <2>1. limit \in Nat \ {0} BY ListingAssumption
  <2>2. CursorOK(next)' BY <1>4 DEF ShownOK
  <2>3. \A id \in Wanted' : Reached(next, id)' => id \in Listed' BY <1>4 DEF ShownOK
  <2>4. ~panel' => asks' = {new} BY <1>2, <1>5
  <2>5. \A id \in Wanted' : Reached(new.cursor, id)' => id \in Listed'
    BY <1>2, <2>3 DEF Reached, Precedes, Place
  <2> QED BY <1>2, <1>5, <2>1, <2>2, <2>4, <2>5 DEF AskOK, CursorOK
<1>7. ASSUME NEW ask \in asks PROVE AskOK(ask)'
  <2>1. panel BY <1>7
  <2> QED BY <1>1, <1>2, <1>4, <2>1, AsksStay
<1> QED BY <1>2, <1>3, <1>4, <1>6, <1>7 DEF ListingInv

\* The answer is the page after the cursor of the request, or none.
LEMMA ServeIsOK ==
  ASSUME ListingInv, NEW ask \in asks, Serve(ask)
  PROVE  ListingInv'
<1>1. TableOK /\ ShownOK /\ \A a \in asks : AskOK(a) BY DEF ListingInv
<1>2. /\ asks' = (asks \ {ask}) \cup IF Answer(ask) = Null THEN {} ELSE {[ask EXCEPT !.page = Answer(ask)]}
      /\ UNCHANGED <<listing, table, secret, query, shown, next, steady>>
  BY DEF Serve
<1>3. TableOK' BY <1>1, <1>2, TableStays DEF TableOK
<1>4. ShownOK' /\ Listed' = Listed BY <1>1, <1>2, ShownStays
<1>5. panel' = panel BY <1>2 DEF panel
<1>6. ASSUME NEW a \in asks \ {ask} PROVE AskOK(a)'
  <2>1. panel BY <1>1, <1>6 DEF AskOK
  <2> QED BY <1>1, <1>2, <1>4, <2>1, AsksStay
<1>7. PICK page : page = Answer(ask) OBVIOUS
<1> DEFINE answered == [slot |-> ask.slot, query |-> ask.query, cursor |-> ask.cursor,
                        limit |-> ask.limit, page |-> page]
<1>8. asks' = (asks \ {ask}) \cup IF page = Null THEN {} ELSE {answered}
  <2>1. ask = [slot |-> ask.slot, query |-> ask.query, cursor |-> ask.cursor,
               limit |-> ask.limit, page |-> ask.page]
    BY <1>1 DEF AskOK
  <2>2. [ask EXCEPT !.page = page] = answered BY <2>1
  <2> HIDE DEF answered
  <2> QED BY <1>2, <1>7, <2>2
<1>9. ASSUME page # Null PROVE AskOK(answered)'
  <2>1. PageOK(ask.cursor, page) BY <1>1, <1>7, <1>9, PagesAreOK
  <2>2. PageOK(ask.cursor, page)' BY <1>1, <1>2, <2>1, RowsStay
  <2>3. AskOK(ask) BY <1>1
  <2>4. CursorOK(ask.cursor)' BY <1>1, <1>2, <2>3, RowsStay DEF AskOK
  <2>5. \A id \in Wanted' : Reached(ask.cursor, id)' => id \in Listed'
    <3> SUFFICES ASSUME NEW id \in Wanted', Reached(ask.cursor, id)' PROVE id \in Listed
      BY <1>4
    <3>1. id \in Wanted /\ id \in steady' BY <1>1, <1>2, RowsStay
    <3>2. Reached(ask.cursor, id) BY <1>1, <1>2, <3>1, RowsStay
    <3> QED BY <2>3, <3>1, <3>2 DEF AskOK
  <2>6. ~panel => ask.cursor = next /\ asks' = {answered}
    <3>1. ~panel => asks = {ask} /\ ask.cursor = next BY <2>3 DEF AskOK
    <3> HIDE DEF answered
    <3> QED BY <1>8, <1>9, <3>1
  <2> QED BY <1>2, <1>5, <2>2, <2>3, <2>4, <2>5, <2>6 DEF AskOK
<1> HIDE DEF answered
<1>10. \A a \in asks' : AskOK(a)'
  <2> SUFFICES ASSUME NEW a \in asks' PROVE AskOK(a)' OBVIOUS
  <2>1. CASE a \in asks \ {ask} BY <1>6, <2>1
  <2>2. CASE a = answered /\ page # Null BY <1>9, <2>2
  <2> QED BY <1>8, <2>1, <2>2
<1> QED BY <1>3, <1>4, <1>10 DEF ListingInv

\* The audit page drops what it shows already; other clients asked once.
LEMMA ReceiveIsOK ==
  ASSUME ListingInv, NEW ask \in asks, Receive(ask)
  PROVE  ListingInv'
<1> DEFINE data == ask.page.data
<1>1. TableOK /\ ShownOK /\ \A a \in asks : AskOK(a) BY DEF ListingInv
<1>2. /\ ask.page # Null /\ asks' = asks \ {ask} /\ next' = ask.page.next
      /\ shown' = IF panel THEN AppendNew(shown, data) ELSE shown \o data
      /\ UNCHANGED <<listing, table, secret, query, steady>>
  BY DEF Receive
<1>3. TableOK' BY <1>1, <1>2, TableStays DEF TableOK
<1>4. AskOK(ask) /\ PageOK(ask.cursor, ask.page) BY <1>1, <1>2 DEF AskOK
<1>5. /\ shown \in Seq(Ids) /\ data \in Seq(Ids)
      /\ \A i, j \in DOMAIN data : data[i] = data[j] => i = j
  BY <1>1, <1>4 DEF ShownOK, PageOK
<1> HIDE DEF data
<1>6. ShownOK' /\ \A id \in Listed : id \in Listed'
  <2>1. CASE panel
    <3>1. PICK tail \in Seq(Ids) :
            /\ AppendNew(shown, data) = shown \o tail
            /\ \A n \in DOMAIN tail : /\ \E i \in DOMAIN data : tail[n] = data[i]
                                      /\ \A k \in DOMAIN shown : shown[k] # tail[n]
            /\ \A m, n \in DOMAIN tail : m < n =>
                 \E i, j \in DOMAIN data : i < j /\ tail[m] = data[i] /\ tail[n] = data[j]
            /\ \A m, n \in DOMAIN tail : tail[m] = tail[n] => m = n
            /\ \A i \in DOMAIN data :
                 (\E k \in DOMAIN shown : shown[k] = data[i]) \/ \E n \in DOMAIN tail : tail[n] = data[i]
      BY <1>5, NewEntries
    <3>2. shown' = shown \o tail BY <1>2, <2>1, <3>1
    <3> QED BY <1>1, <1>2, <1>4, <2>1, <3>1, <3>2, AppendedIsOK DEF data
  <2>2. CASE ~panel
    <3>1. shown' = shown \o data BY <1>2, <2>2
    <3>2. \A m, n \in DOMAIN data : m < n =>
            \E i, j \in DOMAIN data : i < j /\ data[m] = data[i] /\ data[n] = data[j]
      OBVIOUS
    <3> QED BY <1>1, <1>2, <1>4, <1>5, <2>2, <3>1, <3>2, AppendedIsOK DEF data
  <2> QED BY <2>1, <2>2
<1>7. ASSUME NEW a \in asks' PROVE AskOK(a)'
  <2>1. a \in asks /\ a # ask BY <1>2
  <2>2. panel BY <1>4, <2>1 DEF AskOK
  <2> QED BY <1>1, <1>2, <1>6, <2>1, <2>2, AsksStay
<1> QED BY <1>3, <1>6, <1>7 DEF ListingInv

\* A request that fails leaves the list as it is.
LEMMA FailIsOK ==
  ASSUME ListingInv, NEW ask \in asks, Fail(ask)
  PROVE  ListingInv'
<1>1. TableOK /\ ShownOK /\ \A a \in asks : AskOK(a) BY DEF ListingInv
<1>2. /\ panel /\ asks' = asks \ {ask}
      /\ UNCHANGED <<listing, table, secret, query, shown, next, steady>>
  BY DEF Fail
<1>3. TableOK' BY <1>1, <1>2, TableStays DEF TableOK
<1>4. ShownOK' /\ Listed' = Listed BY <1>1, <1>2, ShownStays
<1>5. \A a \in asks' : AskOK(a)'
  <2> SUFFICES ASSUME NEW a \in asks' PROVE AskOK(a)' OBVIOUS
  <2>1. AskOK(a) BY <1>1, <1>2
  <2> QED BY <1>1, <1>2, <1>4, <2>1, AsksStay
<1> QED BY <1>3, <1>4, <1>5 DEF ListingInv

\* A row that is changed is steady no more; the others keep their places.
LEMMA ChangeIsOK ==
  ASSUME ListingInv, NEW id \in Ids, Change(id)
  PROVE  ListingInv'
<1>1. TableOK /\ ShownOK /\ \A a \in asks : AskOK(a) BY DEF ListingInv
<1>2. PICK row \in Columns(query.sort) : table' = [table EXCEPT ![id] = row] BY DEF Change
<1>3. /\ steady' = steady \ {id}
      /\ UNCHANGED <<listing, secret, query, asks, shown, next>>
  BY DEF Change
<1>4. steady' \subseteq steady BY <1>3
<1>5. \A x \in steady' : table'[x] = table[x]
  <2>1. \A x \in steady' : x # id /\ x \in Ids BY <1>1, <1>3 DEF TableOK, Used
  <2> QED BY <1>1, <1>2, <2>1 DEF TableOK
<1>6. TableOK'
  <2>1. PICK column \in {"key", "lastSeenAt"} : query \in [sort : SortsOf(column), filter : Filters \cup {Null}]
    BY <1>1 DEF TableOK
  <2>2. SortsOf(column)' = SortsOf(column) BY <1>3 DEF SortsOf
  <2>3. query' \in [sort : SortsOf(column), filter : Filters \cup {Null}]' BY <1>3, <2>1, <2>2
  <2>4. Columns(query.sort)' = Columns(query.sort) BY <1>3 DEF Columns, KeysOf
  <2>5. table' \in [Ids -> Columns(query.sort) \cup {Null}] BY <1>1, <1>2 DEF TableOK
  <2>6. steady' \subseteq Used'
    <3>1. \A x \in steady : x \in Ids /\ table[x] # Null BY <1>1 DEF TableOK, Used
    <3> QED BY <1>4, <1>5, <3>1 DEF Used
  <2> QED BY <1>1, <1>3, <2>3, <2>4, <2>5, <2>6 DEF TableOK, panel
<1>7. ShownOK' /\ Listed' = Listed BY <1>1, <1>3, <1>4, <1>5, ShownStays
<1>8. \A a \in asks' : AskOK(a)'
  <2> SUFFICES ASSUME NEW a \in asks PROVE AskOK(a)' BY <1>3
  <2>1. AskOK(a) BY <1>1
  <2> QED BY <1>1, <1>3, <1>4, <1>5, <1>7, <2>1, AsksStay
<1> QED BY <1>6, <1>7, <1>8 DEF ListingInv

\* Steps that neither the table nor the client takes.
LEMMA OthersAreOK ==
  ASSUME ListingInv, UNCHANGED <<listing, table, query, asks, shown, next, steady>>, secret' \in Nat
  PROVE  ListingInv'
<1>1. TableOK /\ ShownOK /\ \A a \in asks : AskOK(a) BY DEF ListingInv
<1>2. TableOK' BY <1>1, TableStays
<1>3. ShownOK' /\ Listed' = Listed BY <1>1, ShownStays
<1>4. \A a \in asks' : AskOK(a)'
  <2> SUFFICES ASSUME NEW a \in asks PROVE AskOK(a)' OBVIOUS
  <2>1. AskOK(a) BY <1>1
  <2> QED BY <1>1, <1>3, <2>1, AsksStay
<1> QED BY <1>2, <1>3, <1>4 DEF ListingInv

\* Every step of the clients, the servers and the tables.
LEMMA StepIsOK == ListingInv /\ [Next]_vars => ListingInv'
<1> SUFFICES ASSUME ListingInv, [Next]_vars PROVE ListingInv' OBVIOUS
<1>0. TableOK /\ ShownOK BY DEF ListingInv
<1>1. ASSUME NEW limit \in Limits, AskFirst(limit) PROVE ListingInv'
  <2>1. next = Null /\ asks = {} /\ Ask(1, query, next, limit) BY <1>1 DEF AskFirst
  <2>2. query \in [sort : Sorts, filter : Filters \cup {Null}] BY <1>0, RowsAreOK
  <2>3. next # NoMore BY <2>1, ListingAssumption
  <2> QED BY <2>1, <2>2, <2>3, AskIsOK
<1>2. ASSUME NEW n \in Asks, NEW q \in Alike(query), NEW limit \in Limits, AskMore(n, q, limit)
      PROVE  ListingInv'
  <2>1. /\ next # NoMore /\ next # Null /\ Ask(n, q, next, limit)
        /\ panel \/ asks = {}
        /\ panel => q = query
    BY <1>2 DEF AskMore
  <2>2. \A column : SortsOf(column) \subseteq Sorts
    BY <1>0 DEF TableOK, SortsOf, SiteSorts, PointSorts, DeviceSorts, Sorts
  <2>3. q \in [sort : Sorts, filter : Filters \cup {Null}] BY <2>2 DEF Alike
  <2> QED BY <2>1, <2>3, AskIsOK
<1>3. ASSUME NEW ask \in asks, Serve(ask) PROVE ListingInv' BY <1>3, ServeIsOK
<1>4. ASSUME NEW ask \in asks, Receive(ask) PROVE ListingInv' BY <1>4, ReceiveIsOK
<1>5. ASSUME NEW ask \in asks, Fail(ask) PROVE ListingInv' BY <1>5, FailIsOK
<1>6. ASSUME NEW id \in Ids, Change(id) PROVE ListingInv' BY <1>6, ChangeIsOK
<1>7. ASSUME ChangeSecret PROVE ListingInv'
  <2>1. secret' \in Nat BY <1>0, <1>7 DEF TableOK, ChangeSecret
  <2> QED BY <1>7, <2>1, OthersAreOK DEF ChangeSecret
<1>8. CASE UNCHANGED vars
  <2>1. secret' \in Nat BY <1>0, <1>8 DEF TableOK, vars
  <2> QED BY <1>8, <2>1, OthersAreOK DEF vars
<1> QED BY <1>1, <1>2, <1>3, <1>4, <1>5, <1>6, <1>7, <1>8 DEF Next

-----------------------------------------------------------------------------
(* Theorems                                                                *)

\* Whatever the listings, the rows and the order of requests, changes and
\* answers are: what the cursors, pages and the client's list hold of the
\* steady rows is an initial part of them in the order of the query.
THEOREM ListingInvariant == Spec => []ListingInv
<1>1. Init => ListingInv BY InitIsOK
<1>2. ListingInv /\ [Next]_vars => ListingInv' BY StepIsOK
<1> QED BY <1>1, <1>2, PTL DEF Spec

\* Reading on with cursors shows the rows that do not change once, in the
\* order of the query, and at the end all of them (list() and audit()).
THEOREM SteadyRowsOnce == Spec => []SteadyRowsComeOnce
<1>1. ListingInv => SteadyRowsComeOnce
  <2> SUFFICES ASSUME ListingInv PROVE SteadyRowsComeOnce OBVIOUS
  <2>1. ShownOK /\ TableOK BY DEF ListingInv
  <2> DEFINE at == {i \in DOMAIN shown : shown[i] \in steady}
  <2>2. \A i, j \in at : i < j => Precedes(query.sort, Row(shown[i]), Row(shown[j]))
    BY <2>1 DEF ShownOK
  <2>3. \A i \in at : BaseWhere(query, Row(shown[i])) BY <2>1 DEF ShownOK, Listed, Wanted
  <2>4. ASSUME next = NoMore, NEW id \in Wanted PROVE id \in {shown[i] : i \in at}
    <3>1. id \in Listed BY <2>1, <2>4 DEF ShownOK, Reached
    <3> QED BY <3>1 DEF Listed, Wanted
  <2> QED BY <2>2, <2>3, <2>4 DEF SteadyRowsComeOnce, Wanted
<1> QED BY <1>1, ListingInvariant, PTL

\* The audit page shows no entry twice, however often "load more" is pressed
\* and in whatever order the answers come (appendUnique).
THEOREM EntriesOnce == Spec => []NoEntryTwice
<1>1. ListingInv => NoEntryTwice BY DEF ListingInv, ShownOK, NoEntryTwice, IsInjective
<1> QED BY <1>1, ListingInvariant, PTL
=============================================================================
