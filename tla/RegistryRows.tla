---------------------------- MODULE RegistryRows ----------------------------
(***************************************************************************)
(* The rows of the registry tables, as functions from the ids that exist   *)
(* to their columns, and what the schema promises about them.  A column is *)
(* kept when a constraint names it: the unique one (key) and the foreign   *)
(* keys.  Sources: the models of app/infrastructure/persistence.           *)
(***************************************************************************)
EXTENDS FiniteSets

CONSTANTS
  Requests,     \* the HTTP requests of a behaviour: request r inserts row r
  Existing,     \* the ids of the rows inserted before the behaviour starts
  Documents,    \* CPFs and CNPJs: the unique key of a client
  Plates,       \* the unique key of a vehicle
  Names,        \* the unique key of a service type
  None          \* NULL, or "not given"

Ids    == Requests \cup Existing
Keys   == Documents \cup Plates \cup Names
Tables == {"client", "vehicle", "service", "part", "order"}

ASSUME IdsAssumption ==
  /\ IsFiniteSet(Requests) /\ IsFiniteSet(Existing)
  /\ Requests \cap Existing = {}
  /\ None \notin Ids \cup Keys

\* client is the client_id of a vehicle or an order; vehicle and item are an order's.
ClientRow      == [table : {"client"}, key : Documents, client : {None}, vehicle : {None}, item : {None}]
VehicleRow     == [table : {"vehicle"}, key : Plates, client : Ids, vehicle : {None}, item : {None}]
ServiceTypeRow == [table : {"service"}, key : Names, client : {None}, vehicle : {None}, item : {None}]
PartRow        == [table : {"part"}, key : {None}, client : {None}, vehicle : {None}, item : {None}]
OrderRow       == [table : {"order"}, key : {None}, client : Ids, vehicle : Ids, item : Ids \cup {None}]

Row == ClientRow \cup VehicleRow \cup ServiceTypeRow \cup PartRow \cup OrderRow

Refs(w) == {w.client, w.vehicle, w.item} \ {None}

Has(rows, t, i)   == i \in DOMAIN rows /\ rows[i].table = t
Taken(rows, t, k) == \E i \in DOMAIN rows : rows[i].table = t /\ rows[i].key = k

\* k is NULL, or no row of table t but i itself holds it: UNIQUE lets row i have key k.
MayHold(rows, t, i, k) ==
  k = None \/ \A q \in DOMAIN rows \ {i} : rows[q].table = t => rows[q].key # k

Referred(rows, i) == \E q \in DOMAIN rows : i \in Refs(rows[q])

With(rows, i, w)  == [q \in DOMAIN rows \cup {i} |-> IF q = i THEN w ELSE rows[q]]
Without(rows, i)  == [q \in DOMAIN rows \ {i} |-> rows[q]]

\* What a request asks: to create a row of a table, naming by target and item the rows
\* it refers to, or to read, change or delete the row target of a table, or to list a
\* table, the vehicles of the client target if there is one.
Job == [op : {"none", "token", "me", "create", "update", "delete", "get", "list"}, table : Tables,
        target : Ids \cup {None}, item : Ids \cup {None}, key : Keys \cup {None},
        by : Documents \cup {None}]

NoJob == [op |-> "none", table |-> "client", target |-> None, item |-> None, key |-> None, by |-> None]

\* The table of the row named by target.
TargetTable(j) ==
  CASE j.op = "create" /\ j.table = "vehicle" -> "client"
    [] j.op = "create" /\ j.table = "order"   -> "vehicle"
    [] j.op = "list"                          -> "client"
    [] OTHER                                  -> j.table

UniqueKeys(rows) ==
  \A i, q \in DOMAIN rows :
    i # q /\ rows[i].table = rows[q].table /\ rows[i].key # None => rows[i].key # rows[q].key

NoDanglingReference(rows) == \A i \in DOMAIN rows : Refs(rows[i]) \subseteq DOMAIN rows

\* An order is billed to the client whose vehicle it is about.
OwnersAgree(rows) ==
  \A i \in DOMAIN rows : rows[i].table = "order" =>
    /\ Has(rows, "vehicle", rows[i].vehicle)
    /\ rows[rows[i].vehicle].client = rows[i].client

Consistent(rows) == UniqueKeys(rows) /\ NoDanglingReference(rows) /\ OwnersAgree(rows)
=============================================================================
