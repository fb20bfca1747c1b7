------------------------------ MODULE Registry ------------------------------
(***************************************************************************)
(* The registry of the workshop: clients, vehicles, service types, parts   *)
(* and the orders that refer to them, as requests of any number of         *)
(* replicas create, read, change and delete them, each let in by a token   *)
(* that names a client.                                                    *)
(*                                                                         *)
(* A handler looks rows up and acts on what it found some statements       *)
(* later.  Nothing is locked between its statements; the UNIQUE and        *)
(* FOREIGN KEY constraints of the schema decide at the commit, and what    *)
(* they refuse is an IntegrityError no exception handler maps: a 500.      *)
(***************************************************************************)
EXTENDS RegistryRows

CONSTANTS
  EmptyName,     \* the empty string, as a name
  Cpfs,          \* the documents that are CPFs: only these log in
  Tokens,        \* the documents named by the tokens issued before the behaviour starts
  Calls,         \* what the requests may ask
  StartingRows   \* the rows the behaviour may start with

ASSUME RegistryAssumption ==
  /\ Cpfs \subseteq Documents /\ Tokens \subseteq Documents
  /\ Calls \subseteq {j \in Job : j.op \in {"me", "create", "update", "delete", "get", "list"}}
  /\ EmptyName \in Names
  /\ \A j \in Calls :
       /\ j.op = "create" =>
            /\ j.table = "client"  => j.key \in Documents
            /\ j.table = "vehicle" => j.key \in Plates /\ j.target \in Ids
            /\ j.table = "service" => j.key \in Names
            /\ j.table = "order"   => j.target \in Ids /\ j.key = None
            /\ j.table = "part"    => j.key = None
            /\ j.table # "order"   => j.item = None
       /\ j.op \in {"update", "delete", "get"} => j.table \in {"client", "vehicle", "service"} /\ j.target \in Ids
       /\ j.op = "update" => j.key \in IF j.table = "service" THEN Names \cup {None} ELSE {None}
       /\ j.op = "list" => j.table # "order" /\ (j.target = None \/ j.table = "vehicle")
  /\ \A start \in StartingRows :
       DOMAIN start \subseteq Existing /\ start \in [DOMAIN start -> Row] /\ Consistent(start)

VARIABLES
  rows,      \* DB: the committed rows
  tokens,    \* the documents for which a token is in circulation
  pc,        \* the statement each request is about to run, or how it ended
  job,       \* what each request asked
  held,      \* what its handler carries from one statement to a later one
  done,      \* history: the requests whose transaction committed
  contended  \* history: the service types that overlapping edits shared

vars == <<rows, tokens, pc, job, held, done, contended>>

Running == {"reference", "items", "lookup", "insert", "load", "reload", "save", "erase",
            "remove", "refresh", "list"}
Ended   == {"ok", "unauthorized", "missing", "conflict", "failed", "crashed"}

TypeOK ==
  /\ DOMAIN rows \subseteq Ids /\ \A i \in DOMAIN rows : rows[i] \in Row
  /\ tokens \subseteq Documents
  /\ pc \in [Requests -> {"idle"} \cup Running \cup Ended]
  /\ job \in [Requests -> Job]
  /\ held \in [Requests -> Ids \cup Names \cup {None}]
  /\ done \subseteq Requests
  /\ contended \subseteq Ids

Init ==
  /\ rows \in StartingRows
  /\ tokens = Tokens
  /\ pc = [r \in Requests |-> "idle"]
  /\ job = [r \in Requests |-> NoJob]
  /\ held = [r \in Requests |-> None]
  /\ done = {} /\ contended = {}

-----------------------------------------------------------------------------
(***************************************************************************)
(* How a handler moves                                                     *)
(***************************************************************************)

\* The use cases, as the statements that each may run and what follows on success: "do"
\* is where it starts.  What a statement finds may end or shorten its way.
CreateClient      == [do |-> "lookup", lookup |-> "insert", insert |-> "refresh", refresh |-> "ok"]
CreateVehicle     == [do |-> "reference", reference |-> "lookup", lookup |-> "insert", insert |-> "refresh",
                      refresh |-> "ok"]
CreateServiceType == [do |-> "lookup", lookup |-> "insert", insert |-> "refresh", refresh |-> "ok"]
CreatePart        == [do |-> "insert", insert |-> "refresh", refresh |-> "ok"]
OpenServiceOrder  == [do |-> "reference", reference |-> "items", items |-> "insert", insert |-> "refresh",
                      refresh |-> "ok"]

UpdateClient      == [do |-> "load", load |-> "reload", reload |-> "save", save |-> "refresh", refresh |-> "ok"]
UpdateVehicle     == [do |-> "load", load |-> "reload", reload |-> "save", save |-> "refresh", refresh |-> "ok"]
UpdateServiceType == [do |-> "load", load |-> "lookup", lookup |-> "reload", reload |-> "save", save |-> "refresh",
                      refresh |-> "ok"]

\* Only clients and vehicles have a relationship whose rows a deletion loads.
DeleteClient      == [do |-> "load", load |-> "reload", reload |-> "erase", erase |-> "remove", remove |-> "ok"]
DeleteVehicle     == [do |-> "load", load |-> "reload", reload |-> "erase", erase |-> "remove", remove |-> "ok"]
DeleteServiceType == [do |-> "load", load |-> "reload", reload |-> "remove", remove |-> "ok"]

GetOne               == [do |-> "load", load |-> "ok"]
ListAll              == [do |-> "list", list |-> "ok"]
ListVehiclesByClient == [do |-> "reference", reference |-> "list", list |-> "ok"]

\* The routes of each controller.
ClientRoutes(j) ==
  CASE j.op = "create" -> CreateClient [] j.op = "update" -> UpdateClient
    [] j.op = "delete" -> DeleteClient [] j.op = "get" -> GetOne [] OTHER -> ListAll

VehicleRoutes(j) ==
  CASE j.op = "create" -> CreateVehicle [] j.op = "update" -> UpdateVehicle
    [] j.op = "delete" -> DeleteVehicle [] j.op = "get" -> GetOne
    [] j.op = "list" /\ j.target # None -> ListVehiclesByClient [] OTHER -> ListAll

ServiceTypeRoutes(j) ==
  CASE j.op = "create" -> CreateServiceType [] j.op = "update" -> UpdateServiceType
    [] j.op = "delete" -> DeleteServiceType [] j.op = "get" -> GetOne [] OTHER -> ListAll

PartRoutes(j) == IF j.op = "create" THEN CreatePart ELSE ListAll

\* GET /auth/me runs no statement of its own.
Program(j) ==
  IF j.op = "me" THEN [do |-> "ok"]
  ELSE CASE j.table = "client"  -> ClientRoutes(j)
         [] j.table = "vehicle" -> VehicleRoutes(j)
         [] j.table = "service" -> ServiceTypeRoutes(j)
         [] j.table = "part"    -> PartRoutes(j)
         [] j.table = "order"   -> OpenServiceOrder

\* On to the next statement, or to an answer that changes nothing.
Goto(r, next) ==
  /\ pc' = [pc EXCEPT ![r] = next]
  /\ UNCHANGED <<rows, tokens, job, held, done, contended>>

\* On to the next statement, carrying v.
Carry(r, v, next) ==
  /\ pc' = [pc EXCEPT ![r] = next] /\ held' = [held EXCEPT ![r] = v]
  /\ UNCHANGED <<rows, tokens, job, done, contended>>

\* Flush and COMMIT: no other statement of the handler runs between the two.
Commit(r, new, next) ==
  /\ rows' = new
  /\ pc' = [pc EXCEPT ![r] = next] /\ done' = done \cup {r}
  /\ UNCHANGED <<tokens, job, held, contended>>

After(r) == Program(job[r])[pc[r]]

-----------------------------------------------------------------------------
(***************************************************************************)
(* Log-in and the guard of the protected routes                            *)
(***************************************************************************)

Registered(d) == Taken(rows, "client", d)

\* POST /auth/token: an invalid CPF and an unknown one are answered alike.
IssueToken(r) ==
  \E d \in Documents :
    /\ pc[r] = "idle"
    /\ job' = [job EXCEPT ![r] = [NoJob EXCEPT !.op = "token", !.by = d]]
    /\ IF d \in Cpfs /\ Registered(d)
         THEN pc' = [pc EXCEPT ![r] = "ok"] /\ tokens' = tokens \cup {d}
         ELSE pc' = [pc EXCEPT ![r] = "unauthorized"] /\ UNCHANGED tokens
    /\ UNCHANGED <<rows, held, done, contended>>

Edits(j) == IF j.op = "update" /\ j.table = "service" THEN {j.target} ELSE {}

SharedEdits(r, j) == Edits(j) \cap UNION {Edits(job[q]) : q \in {q \in Requests \ {r} : pc[q] \in Running}}

\* Mutant of Authenticated: a token is good once its signature is.
AuthenticatedBySignature(d) == d # None

\* get_current_client: the token's document still names a client.
Authenticated(d) == d # None /\ Registered(d)

\* decode_access_token: the document of a token whose signature and age are good, or none.
Presented == tokens \cup {None}

\* A protected route, called with a token or with none that is valid.
Call(r) ==
  \E j \in Calls, d \in Presented :
    /\ pc[r] = "idle"
    /\ job' = [job EXCEPT ![r] = [j EXCEPT !.by = d]]
    /\ IF Authenticated(d)
         THEN /\ pc' = [pc EXCEPT ![r] = Program(j).do]
              /\ contended' = contended \cup SharedEdits(r, j)
         ELSE pc' = [pc EXCEPT ![r] = "unauthorized"] /\ UNCHANGED contended
    /\ UNCHANGED <<rows, tokens, held, done>>

-----------------------------------------------------------------------------
(***************************************************************************)
(* Creation                                                                *)
(***************************************************************************)

\* Mutant of FindReference: the client's document is kept in place of its id.
FindReferenceByKey(r) ==
  LET j == job[r] IN
  /\ pc[r] = "reference"
  /\ IF Has(rows, TargetTable(j), j.target)
       THEN Carry(r, rows[j.target].key, After(r)) ELSE Goto(r, "missing")

\* A vehicle's client, or an order's vehicle, is found or the request ends with 404; an
\* opening keeps the client_id of the vehicle it read.
FindReference(r) ==
  LET j == job[r] IN
  /\ pc[r] = "reference"
  /\ IF Has(rows, TargetTable(j), j.target)
       THEN Carry(r, rows[j.target].client, After(r)) ELSE Goto(r, "missing")

\* The service type that an opening names, if any.
FindItem(r) ==
  LET item == job[r].item IN
  /\ pc[r] = "items"
  /\ Goto(r, IF item = None \/ Has(rows, "service", item) THEN After(r) ELSE "missing")

\* get_by_cpf_cnpj, get_by_plate, get_by_name: 409 when a row holds the key.
LookUpKey(r) ==
  /\ pc[r] = "lookup"
  /\ IF Taken(rows, job[r].table, job[r].key)
       THEN Goto(r, "conflict")
       ELSE Goto(r, After(r))

NewClient(j)       == [table |-> "client", key |-> j.key, client |-> None, vehicle |-> None, item |-> None]
NewVehicle(j)      == [table |-> "vehicle", key |-> j.key, client |-> j.target, vehicle |-> None, item |-> None]
NewServiceType(j)  == [table |-> "service", key |-> j.key, client |-> None, vehicle |-> None, item |-> None]
NewPart(j)         == [table |-> "part", key |-> None, client |-> None, vehicle |-> None, item |-> None]
NewOrder(j, owner) == [table |-> "order", key |-> None, client |-> owner, vehicle |-> j.target, item |-> j.item]

NewRow(r) ==
  LET j == job[r] IN
  CASE j.table = "client"  -> NewClient(j)
    [] j.table = "vehicle" -> NewVehicle(j)
    [] j.table = "service" -> NewServiceType(j)
    [] j.table = "part"    -> NewPart(j)
    [] OTHER               -> NewOrder(j, held[r])

\* Mutant of Accepted: the look-up made before is trusted.
AcceptedByLookUp(r, w) == Refs(w) \subseteq DOMAIN rows

\* UNIQUE and FOREIGN KEY, as of the INSERT.
Accepted(r, w) == MayHold(rows, w.table, r, w.key) /\ Refs(w) \subseteq DOMAIN rows

\* add(): INSERT and COMMIT.
Insert(r) ==
  /\ pc[r] = "insert"
  /\ IF Accepted(r, NewRow(r))
       THEN Commit(r, With(rows, r, NewRow(r)), After(r))
       ELSE Goto(r, "failed")

\* refresh(), or the SELECT of the answer: the row may be gone by now.
Refresh(r) ==
  /\ pc[r] = "refresh"
  /\ Goto(r, IF (IF job[r].op = "create" THEN r ELSE job[r].target) \in DOMAIN rows
               THEN After(r) ELSE "failed")

-----------------------------------------------------------------------------
(***************************************************************************)
(* Reading, editing and deleting one row                                   *)
(***************************************************************************)

\* Mutant of RenameFound: a name that is not new is looked up too, and finds its own row.
RenameFoundAlways(r, name) ==
  IF job[r].key \in {None, EmptyName} THEN Carry(r, IF job[r].key = None THEN name ELSE job[r].key, "reload")
                                      ELSE Carry(r, job[r].key, "lookup")

\* The entity takes the new name, if one is given; one that is neither empty nor the
\* entity's own is looked up first.
RenameFound(r, name) ==
  LET k == job[r].key IN
  IF k \in {None, name, EmptyName} THEN Carry(r, IF k = None THEN name ELSE k, "reload")
                                   ELSE Carry(r, k, "lookup")

\* get_by_id: 404, or the entity.
Load(r) ==
  LET j == job[r] IN
  /\ pc[r] = "load"
  /\ \/ ~Has(rows, j.table, j.target) /\ Goto(r, "missing")
     \/ /\ Has(rows, j.table, j.target)
        /\ \/ j.op \in {"get", "delete"} /\ Goto(r, After(r))
           \/ j.op = "update" /\ j.table # "service" /\ Goto(r, After(r))
           \/ j.op = "update" /\ j.table = "service" /\ RenameFound(r, rows[j.target].key)

\* get_all, get_by_client: whatever is there.
List(r) == pc[r] = "list" /\ Goto(r, After(r))

\* update() and delete() select the row again.  The entity's columns are assigned onto
\* it, and those that differ will be written (without a row, the assignment raises); a
\* deletion finds nothing left to do.
Reload(r) ==
  LET j == job[r] IN
  /\ pc[r] = "reload"
  /\ IF Has(rows, j.table, j.target)
       THEN IF j.op = "delete" THEN Goto(r, After(r))
            ELSE Carry(r, IF held[r] = rows[j.target].key THEN None ELSE held[r], After(r))
       ELSE Goto(r, IF j.op = "delete" THEN "ok" ELSE "failed")

\* UPDATE and COMMIT: StaleDataError without a row, IntegrityError on a name taken.
Save(r) ==
  LET t == job[r].target IN
  /\ pc[r] = "save"
  /\ IF t \in DOMAIN rows /\ MayHold(rows, job[r].table, t, held[r])
       THEN Commit(r, IF held[r] = None THEN rows ELSE [rows EXCEPT ![t].key = held[r]], After(r))
       ELSE Goto(r, "failed")

\* The flush of a deletion first loads the vehicles of a client, or the orders of a
\* vehicle, to set their foreign keys to NULL, which the columns refuse.
Erase(r) ==
  /\ pc[r] = "erase"
  /\ Goto(r, IF \E i \in DOMAIN rows : \/ rows[i].table = "vehicle" /\ rows[i].client = job[r].target
                                       \/ rows[i].table = "order" /\ rows[i].vehicle = job[r].target
               THEN "failed" ELSE After(r))

\* FOREIGN KEY, as of the DELETE.
Deletable(i) == ~Referred(rows, i)

\* Mutant of Remove: the refusal of the database is not looked at.
RemoveAnswered(r) ==
  /\ pc[r] = "remove"
  /\ IF Deletable(job[r].target) THEN Commit(r, Without(rows, job[r].target), After(r))
                                 ELSE Goto(r, "ok")

\* DELETE and COMMIT.  A row another request has deleted is only a warning.
Remove(r) ==
  /\ pc[r] = "remove"
  /\ IF Deletable(job[r].target) THEN Commit(r, Without(rows, job[r].target), After(r))
                                 ELSE Goto(r, "failed")

\* The pod dies or the connection drops: before the COMMIT nothing has been written.
Crash(r) == pc[r] \in Running /\ Goto(r, "crashed")

-----------------------------------------------------------------------------
Step(r) ==
  \/ FindReference(r) \/ FindItem(r) \/ LookUpKey(r) \/ Insert(r) \/ Refresh(r)
  \/ Load(r) \/ List(r) \/ Reload(r) \/ Save(r) \/ Erase(r) \/ Remove(r)

AllEnded == (\A r \in Requests : pc[r] \in Ended) /\ UNCHANGED vars

Next == (\E r \in Requests : IssueToken(r) \/ Call(r) \/ Step(r) \/ Crash(r)) \/ AllEnded

Spec == Init /\ [][Next]_vars

-----------------------------------------------------------------------------
(***************************************************************************)
(* Safety                                                                  *)
(***************************************************************************)

\* Whatever requests overlap or die, keys are unique, no row refers to a missing one, and
\* an order is billed to the client who owns its vehicle, though the handler read that
\* client some statements before it wrote the order.
\* (The constraints of the models; CreateVehicleUseCase, OpenServiceOrderUseCase.)
RegistryConsistent == Consistent(rows)

\* A deletion that was answered 204 is final, also when two requests deleted the row at
\* once: the row is gone, and no later write of a request that had read it revives it.
\* (delete() of the repositories, which ignores a missing row.)
DeletedIsGone ==
  \A r \in Requests : pc[r] = "ok" /\ job[r].op = "delete" => job[r].target \notin DOMAIN rows

\* Once no client is registered and no request is under way, nobody gets in again: the
\* API cannot register its first client, and its last one takes the key along.
\* (Depends(get_current_user) on POST /clients; AuthenticateByDocumentUseCase.)
LockedOut ==
  /\ \A i \in DOMAIN rows : rows[i].table # "client"
  /\ \A r \in Requests : pc[r] \notin Running

LockOutIsFinal == [][LockedOut => LockedOut' /\ rows' = rows /\ tokens' = tokens]_vars

(***************************************************************************)
(* Refinement                                                              *)
(***************************************************************************)

Outcome(r) ==
  CASE pc[r] = "idle"                                          -> "idle"
    [] r \in done \/ pc[r] = "ok"                              -> "done"
    [] pc[r] \in {"unauthorized", "missing", "conflict"}       -> pc[r]
    [] pc[r] \in {"failed", "crashed"} /\ r \notin done         -> "lost"
    [] OTHER                                                   -> "pending"

Dir == INSTANCE Directory WITH outcome <- [r \in Requests |-> Outcome(r)]

\* Each request takes effect at one moment between its arrival and its answer, and the
\* answer (201, 204, 401, 404, 409) is the right one for that moment: until two edits of
\* one service type overlap.  Of such edits one may write back the name it read.
ImplementsDirectory ==
  Dir!Init /\ [][contended' = {} => Dir!Next \/ UNCHANGED Dir!directory]_vars

(***************************************************************************)
(* What the tests say of duplicates                                        *)
(***************************************************************************)

\* A duplicate document, plate or name is answered 409 (tests/integration:
\* test_clients.py:24, test_vehicles.py:31, test_service_types.py:17).  Two requests that
\* overlap both pass the look-up, and the later INSERT ends in a 500.
DuplicateAnswered409 ==
  [][\A r \in Requests : pc[r] = "insert" /\ pc'[r] = "failed" =>
       MayHold(rows, job[r].table, r, job[r].key)]_vars
=============================================================================
