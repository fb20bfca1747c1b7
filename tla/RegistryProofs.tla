--------------------------- MODULE RegistryProofs ---------------------------
(***************************************************************************)
(* What Registry keeps for any number of requests, rows, documents, plates *)
(* and names: its types, the constraints of the schema together with the   *)
(* billing of orders, that a deletion is final and that a lock-out is.     *)
(*                                                                         *)
(* A handler acts on a row that it found some statements before.  What     *)
(* makes that sound is that ids are not reused: a row that was there once  *)
(* is there unchanged, but for its key, or it is gone for good.  The       *)
(* inductive invariant says that of every row a handler still relies on.   *)
(***************************************************************************)
EXTENDS Registry, TLAPS

\* The request has run its INSERT, if it had one to run.
Past == {"refresh"} \cup Ended

\* What Call admits, with the document that the token names.
Asked == {[j EXCEPT !.by = d] : j \in Calls, d \in Documents}

\* A request under way runs a statement of its own program.
OnItsWay(r) == pc[r] \in Running => job[r] \in Asked /\ pc[r] \in DOMAIN Program(job[r])

\* Row r is written by request r alone, once.
RowsWereInserted == \A r \in Requests : r \in DOMAIN rows => pc[r] \in Past

\* Row i was there when request r read it: no later INSERT makes it, and if it still is
\* there it is of table t.
Found(i, t) ==
  /\ i \in Requests => pc[i] \in Past
  /\ i \in DOMAIN rows => rows[i].table = t

\* An opening knows the owner of its vehicle.
OpeningKnowsOwner(r) ==
  job[r].op = "create" /\ job[r].table = "order" /\ pc[r] \in {"items", "insert"} =>
    /\ held[r] \in Ids
    /\ Found(job[r].target, "vehicle")
    /\ job[r].target \in DOMAIN rows => rows[job[r].target].client = held[r]

\* An edition holds a name for a service type, and nothing for another row.
EditionHoldsName(r) ==
  /\ pc[r] = "idle" => held[r] = None
  /\ job[r].op = "update" /\ pc[r] \in Running =>
       held[r] = None \/ (job[r].table = "service" /\ held[r] \in Names)

\* An edition past its first statement has found its row.
EditionFoundRow(r) ==
  job[r].op = "update" /\ pc[r] \in {"lookup", "reload", "save"} => Found(job[r].target, job[r].table)

\* So has a deletion, and one that was answered has left no row.
DeletionFoundRow(r) ==
  job[r].op = "delete" =>
    /\ pc[r] \in {"reload", "erase", "remove"} => Found(job[r].target, job[r].table)
    /\ pc[r] = "ok" => /\ job[r].target \notin DOMAIN rows
                       /\ job[r].target \in Requests => pc[job[r].target] \in Past

Inductive ==
  /\ TypeOK
  /\ RegistryConsistent
  /\ RowsWereInserted
  /\ \A r \in Requests : OnItsWay(r)
  /\ \A r \in Requests : OpeningKnowsOwner(r)
  /\ \A r \in Requests : EditionHoldsName(r)
  /\ \A r \in Requests : EditionFoundRow(r)
  /\ \A r \in Requests : DeletionFoundRow(r)

-----------------------------------------------------------------------------
(***************************************************************************)
(* What is asked, and the way through each program                         *)
(***************************************************************************)
LEMMA AskedFits ==
  ASSUME NEW j \in Asked
  PROVE  /\ j \in Job /\ j.op \in {"me", "create", "update", "delete", "get", "list"}
         /\ j.op \in {"update", "delete", "get"} => j.table \in {"client", "vehicle", "service"} /\ j.target \in Ids
         /\ j.op = "update" => j.key \in Names \cup {None}
         /\ j.op = "create" => /\ j.table = "client"  => j.key \in Documents
                               /\ j.table = "vehicle" => j.key \in Plates /\ j.target \in Ids
                               /\ j.table = "service" => j.key \in Names
                               /\ j.table = "order"   => j.target \in Ids
<1>1. PICK k \in Calls, d \in Documents : j = [k EXCEPT !.by = d]
  BY DEF Asked
<1>2. k \in Job
  BY RegistryAssumption
<1>3. j \in Job /\ j.op = k.op /\ j.table = k.table /\ j.target = k.target /\ j.key = k.key
  BY <1>1, <1>2 DEF Job
<1> QED
  BY <1>3, RegistryAssumption

\* The program depends on the operation, the table and the target only.
LEMMA ProgramOfCopy ==
  ASSUME NEW j, NEW k, k.op = j.op, k.table = j.table, k.target = j.target
  PROVE  Program(k) = Program(j)
<1>1. ClientRoutes(k) = ClientRoutes(j)
  BY Zenon DEF ClientRoutes
<1>2. VehicleRoutes(k) = VehicleRoutes(j)
  BY Zenon DEF VehicleRoutes
<1>3. ServiceTypeRoutes(k) = ServiceTypeRoutes(j)
  BY Zenon DEF ServiceTypeRoutes
<1>4. PartRoutes(k) = PartRoutes(j)
  BY Zenon DEF PartRoutes
<1> QED
  BY <1>1, <1>2, <1>3, <1>4, SMT DEF Program

\* The statements of a creation, and that an opening finds its vehicle before it inserts.
LEMMA CreationWay ==
  ASSUME NEW j \in Asked, j.op = "create"
  PROVE  /\ DOMAIN Program(j) \subseteq {"do", "reference", "items", "lookup", "insert", "refresh"}
         /\ Program(j).do \in DOMAIN Program(j) \cap {"reference", "lookup", "insert"}
         /\ \A s \in DOMAIN Program(j) :
              /\ s \in {"reference", "items", "lookup"} => Program(j)[s] \in DOMAIN Program(j) \cap {"items", "lookup", "insert"}
              /\ s = "insert" => Program(j)[s] = "refresh" /\ "refresh" \in DOMAIN Program(j)
              /\ s = "refresh" => Program(j)[s] = "ok"
         /\ j.table = "order" => /\ DOMAIN Program(j) = {"do", "reference", "items", "insert", "refresh"}
                                 /\ Program(j).do = "reference"
<1>1. j.table \in {"client", "vehicle", "service", "part", "order"}
  BY AskedFits DEF Job, Tables
<1>2. CASE j.table = "client"
  <2>1. Program(j) = CreateClient
    BY <1>2 DEF Program, ClientRoutes
  <2> QED
    BY <1>2, <2>1 DEF CreateClient
<1>3. CASE j.table = "vehicle"
  <2>1. Program(j) = CreateVehicle
    BY <1>3 DEF Program, VehicleRoutes
  <2> QED
    BY <1>3, <2>1 DEF CreateVehicle
<1>4. CASE j.table = "service"
  <2>1. Program(j) = CreateServiceType
    BY <1>4 DEF Program, ServiceTypeRoutes
  <2> QED
    BY <1>4, <2>1 DEF CreateServiceType
<1>5. CASE j.table = "part"
  <2>1. Program(j) = CreatePart
    BY <1>5 DEF Program, PartRoutes
  <2> QED
    BY <1>5, <2>1 DEF CreatePart
<1>6. CASE j.table = "order"
  <2>1. Program(j) = OpenServiceOrder
    BY <1>6 DEF Program
  <2> QED
    BY <1>6, <2>1 DEF OpenServiceOrder
<1> QED
  BY <1>1, <1>2, <1>3, <1>4, <1>5, <1>6

LEMMA EditionWay ==
  ASSUME NEW j \in Asked, j.op = "update"
  PROVE  /\ DOMAIN Program(j) \subseteq {"do", "load", "lookup", "reload", "save", "refresh"}
         /\ {"load", "reload", "save", "refresh"} \subseteq DOMAIN Program(j)
         /\ j.table = "service" => "lookup" \in DOMAIN Program(j) /\ Program(j)["lookup"] = "reload"
         /\ j.table # "service" => "lookup" \notin DOMAIN Program(j)
         /\ Program(j).do = "load"
         /\ Program(j)["load"] \in {"lookup", "reload"} /\ (j.table # "service" => Program(j)["load"] = "reload")
         /\ Program(j)["reload"] = "save" /\ Program(j)["save"] = "refresh" /\ Program(j)["refresh"] = "ok"
<1>1. j.table \in {"client", "vehicle", "service"}
  BY AskedFits
<1>2. CASE j.table = "client"
  BY <1>2 DEF Program, ClientRoutes, UpdateClient
<1>3. CASE j.table = "vehicle"
  BY <1>3 DEF Program, VehicleRoutes, UpdateVehicle
<1>4. CASE j.table = "service"
  BY <1>4 DEF Program, ServiceTypeRoutes, UpdateServiceType
<1> QED
  BY <1>1, <1>2, <1>3, <1>4

LEMMA DeletionWay ==
  ASSUME NEW j \in Asked, j.op = "delete"
  PROVE  /\ DOMAIN Program(j) \subseteq {"do", "load", "reload", "erase", "remove"}
         /\ {"load", "reload", "remove"} \subseteq DOMAIN Program(j)
         /\ Program(j).do = "load" /\ Program(j)["load"] = "reload"
         /\ Program(j)["reload"] \in DOMAIN Program(j) \cap {"erase", "remove"}
         /\ "erase" \in DOMAIN Program(j) => Program(j)["erase"] = "remove"
         /\ Program(j)["remove"] = "ok"
<1>1. j.table \in {"client", "vehicle", "service"}
  BY AskedFits
<1>2. CASE j.table = "client"
  BY <1>2 DEF Program, ClientRoutes, DeleteClient
<1>3. CASE j.table = "vehicle"
  BY <1>3 DEF Program, VehicleRoutes, DeleteVehicle
<1>4. CASE j.table = "service"
  BY <1>4 DEF Program, ServiceTypeRoutes, DeleteServiceType
<1> QED
  BY <1>1, <1>2, <1>3, <1>4

LEMMA ReadingWay ==
  ASSUME NEW j \in Asked, j.op \in {"me", "get", "list"}
  PROVE  /\ DOMAIN Program(j) \subseteq {"do", "load", "reference", "list"}
         /\ Program(j).do = "ok" \/ Program(j).do \in DOMAIN Program(j) \cap {"load", "reference", "list"}
         /\ \A s \in DOMAIN Program(j) \ {"do"} :
              Program(j)[s] = "ok" \/ Program(j)[s] \in DOMAIN Program(j) \cap {"list"}
<1>1. CASE j.op = "me"
  <2>1. Program(j) = [do |-> "ok"]
    BY <1>1 DEF Program
  <2> QED
    BY <2>1
<1>2. CASE j.op = "get"
  <2>1. Program(j) = GetOne
    BY <1>2, AskedFits DEF Program, ClientRoutes, VehicleRoutes, ServiceTypeRoutes
  <2> QED
    BY <2>1 DEF GetOne
<1>3. CASE j.op = "list"
  <2>1. j.table \in {"client", "vehicle", "service", "part", "order"} /\ j.table # "order"
    <3>1. PICK k \in Calls, d \in Documents : j = [k EXCEPT !.by = d]
      BY DEF Asked
    <3>2. k \in Job /\ j.op = k.op /\ j.table = k.table
      BY <3>1, RegistryAssumption DEF Job
    <3> QED
      BY <1>3, <3>2, RegistryAssumption DEF Job, Tables
  <2>2. Program(j) \in {ListAll, ListVehiclesByClient}
    <3>1. CASE j.table = "client"
      BY <1>3, <3>1 DEF Program, ClientRoutes
    <3>2. CASE j.table = "vehicle"
      <4>1. Program(j) = VehicleRoutes(j)
        BY <1>3, <3>2 DEF Program
      <4>2. CASE j.target # None
        BY <1>3, <4>1, <4>2 DEF VehicleRoutes
      <4>3. CASE j.target = None
        BY <1>3, <4>1, <4>3 DEF VehicleRoutes
      <4> QED
        BY <4>2, <4>3
    <3>3. CASE j.table = "service"
      BY <1>3, <3>3 DEF Program, ServiceTypeRoutes
    <3>4. CASE j.table = "part"
      BY <1>3, <3>4 DEF Program, PartRoutes
    <3> QED
      BY <2>1, <3>1, <3>2, <3>3, <3>4
  <2> QED
    BY <2>2 DEF ListAll, ListVehiclesByClient
<1> QED
  BY <1>1, <1>2, <1>3

-----------------------------------------------------------------------------
(***************************************************************************)
(* A statement of request r disturbs no other request                      *)
(***************************************************************************)

\* What r's own part of the invariant asks of the state after its statement.
OwnPart(r) ==
  OnItsWay(r) /\ OpeningKnowsOwner(r) /\ EditionHoldsName(r) /\ EditionFoundRow(r) /\ DeletionFoundRow(r)

\* Rows only vanish, change their key, or are what r inserts.
RowsKept(r) ==
  \A i \in DOMAIN rows' :
    \/ i = r /\ pc[r] = "insert" /\ pc'[r] \in Past
    \/ i \in DOMAIN rows /\ rows'[i].table = rows[i].table /\ rows'[i].client = rows[i].client

LEMMA OthersUndisturbed ==
  ASSUME Inductive, NEW r \in Requests, NEW next \in Running \cup Ended,
         pc' = [pc EXCEPT ![r] = next], pc[r] \in Past => next \in Past,
         \A q \in Requests \ {r} : job'[q] = job[q] /\ held'[q] = held[q],
         TypeOK', RegistryConsistent', RowsKept(r), OwnPart(r)'
  PROVE  Inductive'
<1>1. \A q \in Requests : pc[q] \in Past => pc'[q] \in Past
  BY DEF Inductive, TypeOK
<1>2. \A q \in Requests \ {r} : pc'[q] = pc[q]
  BY DEF Inductive, TypeOK
<1>3. ASSUME NEW i, NEW t, Found(i, t)
      PROVE  Found(i, t)' /\ (i \in DOMAIN rows' => i \in DOMAIN rows /\ rows'[i].client = rows[i].client)
  <2>1. ~(i = r /\ pc[r] = "insert")
    BY <1>3 DEF Found, Past, Ended
  <2> QED
    BY <1>1, <1>3, <2>1 DEF Found, RowsKept
<1>4. RowsWereInserted'
  <2> SUFFICES ASSUME NEW q \in Requests, q \in DOMAIN rows'
               PROVE  pc'[q] \in Past
    BY DEF RowsWereInserted
  <2>1. CASE q = r /\ pc[r] = "insert" /\ pc'[r] \in Past
    BY <2>1
  <2>2. CASE q \in DOMAIN rows
    BY <1>1, <2>2 DEF Inductive, RowsWereInserted
  <2> QED
    BY <2>1, <2>2 DEF RowsKept
<1>5. ASSUME NEW q \in Requests \ {r}
      PROVE  OwnPart(q)'
  <2>1. OnItsWay(q) /\ OpeningKnowsOwner(q) /\ EditionHoldsName(q) /\ EditionFoundRow(q) /\ DeletionFoundRow(q)
    BY DEF Inductive
  <2>2. pc'[q] = pc[q] /\ job'[q] = job[q] /\ held'[q] = held[q]
    BY <1>2
  <2>3. OnItsWay(q)' /\ EditionHoldsName(q)'
    BY <2>1, <2>2 DEF OnItsWay, EditionHoldsName
  <2>4. OpeningKnowsOwner(q)'
    BY <1>3, <2>1, <2>2 DEF OpeningKnowsOwner
  <2>5. EditionFoundRow(q)'
    BY <1>3, <2>1, <2>2 DEF EditionFoundRow
  <2>6. DeletionFoundRow(q)'
    <3> DEFINE t == job[q].target
    <3>1. ASSUME t \notin DOMAIN rows, t \in Requests => pc[t] \in Past
          PROVE  t \notin DOMAIN rows' /\ (t \in Requests => pc'[t] \in Past)
      <4>1. ~(t = r /\ pc[r] = "insert")
        BY <3>1 DEF Past, Ended
      <4> QED
        BY <1>1, <3>1, <4>1 DEF RowsKept
    <3> QED
      BY <1>3, <2>1, <2>2, <3>1 DEF DeletionFoundRow
  <2> QED
    BY <2>3, <2>4, <2>5, <2>6 DEF OwnPart
<1> QED
  BY <1>4, <1>5 DEF Inductive, OwnPart

\* A statement that writes nothing: r goes on, carrying v, or ends.
LEMMA QuietStep ==
  ASSUME Inductive, NEW r \in Requests, NEW next \in Running \cup Ended, NEW v \in Ids \cup Names \cup {None},
         pc[r] \in Running, pc[r] = "refresh" => next \in Ended,
         pc' = [pc EXCEPT ![r] = next], held' = [held EXCEPT ![r] = v],
         UNCHANGED <<rows, tokens, job, done, contended>>,
         next \in Running => next \in DOMAIN Program(job[r]),
         OpeningKnowsOwner(r)', EditionHoldsName(r)', EditionFoundRow(r)', DeletionFoundRow(r)'
  PROVE  Inductive'
<1>1. TypeOK'
  BY DEF Inductive, TypeOK
<1>2. RegistryConsistent'
  BY DEF Inductive, RegistryConsistent
<1>3. pc'[r] = next
  BY DEF Inductive, TypeOK
<1>4. OnItsWay(r)'
  BY <1>3 DEF Inductive, OnItsWay
<1>5. RowsKept(r)
  BY DEF RowsKept
<1>6. \A q \in Requests \ {r} : job'[q] = job[q] /\ held'[q] = held[q]
  BY DEF Inductive, TypeOK
<1>7. pc[r] \in Past => next \in Past
  BY DEF Past, Running, Ended
<1> QED
  BY <1>1, <1>2, <1>4, <1>5, <1>6, <1>7, OthersUndisturbed DEF OwnPart

\* A request that ends without having written needs no more than this.
LEMMA EndingStep ==
  ASSUME Inductive, NEW r \in Requests, NEW next \in Ended, pc[r] \in Running, Goto(r, next),
         next = "ok" => job[r].op # "delete"
  PROVE  Inductive'
<1>1. pc'[r] = next /\ job' = job
  BY DEF Inductive, TypeOK, Goto
<1>2. next \notin Running /\ next \notin {"idle", "items", "insert", "lookup", "reload", "save", "erase", "remove"}
  BY DEF Running, Ended
<1>3. held' = [held EXCEPT ![r] = held[r]] /\ held[r] \in Ids \cup Names \cup {None}
  BY DEF Inductive, TypeOK, Goto
<1>4. OpeningKnowsOwner(r)' /\ EditionHoldsName(r)' /\ EditionFoundRow(r)' /\ DeletionFoundRow(r)'
  BY <1>1, <1>2 DEF OpeningKnowsOwner, EditionHoldsName, EditionFoundRow, DeletionFoundRow
<1> QED
  BY <1>2, <1>3, <1>4, QuietStep DEF Goto

\* Which operation a statement belongs to.
LEMMA StatementBelongs ==
  ASSUME Inductive, NEW r \in Requests, pc[r] \in Running
  PROVE  /\ job[r] \in Asked /\ pc[r] \in DOMAIN Program(job[r])
         /\ job[r].op \in {"me", "create", "update", "delete", "get", "list"}
         /\ job[r].op = "create" => pc[r] \in {"reference", "items", "lookup", "insert", "refresh"}
         /\ job[r].op = "update" => pc[r] \in {"load", "lookup", "reload", "save", "refresh"}
         /\ job[r].op = "delete" => pc[r] \in {"load", "reload", "erase", "remove"}
         /\ job[r].op \in {"me", "get", "list"} => pc[r] \in {"load", "reference", "list"}
<1>1. job[r] \in Asked /\ pc[r] \in DOMAIN Program(job[r])
  BY DEF Inductive, OnItsWay
<1>2. pc[r] # "do"
  BY DEF Running
<1> QED
  BY <1>1, <1>2, AskedFits, CreationWay, EditionWay, DeletionWay, ReadingWay

-----------------------------------------------------------------------------
(***************************************************************************)
(* Each action keeps the invariant                                         *)
(***************************************************************************)
LEMMA IssueTokenKeeps ==
  ASSUME Inductive, NEW r \in Requests, IssueToken(r)
  PROVE  Inductive'
<1>1. PICK d \in Documents :
        /\ pc[r] = "idle" /\ job' = [job EXCEPT ![r] = [NoJob EXCEPT !.op = "token", !.by = d]]
        /\ \/ pc' = [pc EXCEPT ![r] = "ok"] /\ tokens' = tokens \cup {d}
           \/ pc' = [pc EXCEPT ![r] = "unauthorized"] /\ UNCHANGED tokens
        /\ UNCHANGED <<rows, held, done, contended>>
  BY DEF IssueToken
<1>2. PICK next \in {"ok", "unauthorized"} : pc' = [pc EXCEPT ![r] = next]
  BY <1>1
<1>3. [NoJob EXCEPT !.op = "token", !.by = d] \in Job /\ job'[r].op = "token"
  BY <1>1 DEF NoJob, Job, Tables, Inductive, TypeOK
<1>4. TypeOK'
  BY <1>1, <1>3 DEF Inductive, TypeOK, Ended
<1>5. pc'[r] \notin Running \cup {"idle"}
  BY <1>2 DEF Running, Inductive, TypeOK
<1>6. OwnPart(r)'
  BY <1>3, <1>5 DEF OwnPart, OnItsWay, OpeningKnowsOwner, EditionHoldsName, EditionFoundRow, DeletionFoundRow
<1>7. RegistryConsistent' /\ RowsKept(r) /\ pc[r] \notin Past /\ next \in Running \cup Ended
  BY <1>1 DEF Inductive, RegistryConsistent, RowsKept, Past, Ended
<1>8. \A q \in Requests \ {r} : job'[q] = job[q] /\ held'[q] = held[q]
  BY <1>1 DEF Inductive, TypeOK
<1> QED
  BY <1>2, <1>4, <1>6, <1>7, <1>8, OthersUndisturbed

LEMMA CallKeeps ==
  ASSUME Inductive, NEW r \in Requests, Call(r)
  PROVE  Inductive'
<1>1. PICK j \in Calls, d \in Presented :
        /\ pc[r] = "idle" /\ job' = [job EXCEPT ![r] = [j EXCEPT !.by = d]]
        /\ \/ /\ Authenticated(d) /\ pc' = [pc EXCEPT ![r] = Program(j).do]
              /\ contended' = contended \cup SharedEdits(r, j)
           \/ pc' = [pc EXCEPT ![r] = "unauthorized"] /\ UNCHANGED contended
        /\ UNCHANGED <<rows, tokens, held, done>>
  BY DEF Call
<1> DEFINE k == [j EXCEPT !.by = d]
<1>2. k \in Job /\ k.op = j.op /\ k.table = j.table /\ k.target = j.target /\ k.key = j.key
  BY RegistryAssumption DEF Job, Presented, Inductive, TypeOK
<1>3. job'[r] = k /\ (Authenticated(d) => k \in Asked)
  BY <1>1 DEF Inductive, TypeOK, Asked, Authenticated, Presented
<1>4. Program(k) = Program(j)
  BY <1>2, ProgramOfCopy
<1>5. PICK next : pc' = [pc EXCEPT ![r] = next] /\ (next = "unauthorized" \/ (k \in Asked /\ next = Program(k).do))
  BY <1>1, <1>3, <1>4
<1>6. \/ next = "unauthorized"
      \/ next = "ok" /\ k.op \in {"me", "get", "list"}
      \/ /\ k \in Asked /\ next \in DOMAIN Program(k) /\ next \in {"load", "reference", "list", "lookup", "insert"}
         /\ k.op = "create" /\ k.table = "order" => next = "reference"
         /\ k.op \in {"update", "delete"} => next = "load"
  <2> HIDE DEF k
  <2>1. CASE k \in Asked /\ k.op = "create" /\ next = Program(k).do
    BY <2>1, CreationWay
  <2>2. CASE k \in Asked /\ k.op = "update" /\ next = Program(k).do
    BY <2>2, EditionWay
  <2>3. CASE k \in Asked /\ k.op = "delete" /\ next = Program(k).do
    BY <2>3, DeletionWay
  <2>4. CASE k \in Asked /\ k.op \in {"me", "get", "list"} /\ next = Program(k).do
    BY <2>4, ReadingWay
  <2> QED
    BY <1>5, <2>1, <2>2, <2>3, <2>4, AskedFits
<1>7. next \in Running \cup Ended /\ pc'[r] = next
  BY <1>5, <1>6 DEF Running, Ended, Inductive, TypeOK
<1>8. contended' \subseteq Ids
  BY <1>1, RegistryAssumption DEF SharedEdits, Edits, Inductive, TypeOK
<1>9. TypeOK'
  BY <1>1, <1>2, <1>5, <1>7, <1>8 DEF Inductive, TypeOK
<1>10. held'[r] = None
  BY <1>1 DEF Inductive, EditionHoldsName
<1>11. OwnPart(r)'
  <2>1. OnItsWay(r)'
    BY <1>3, <1>6, <1>7 DEF OnItsWay, Running
  <2>2. OpeningKnowsOwner(r)'
    BY <1>3, <1>6, <1>7 DEF OpeningKnowsOwner
  <2>3. EditionHoldsName(r)'
    BY <1>3, <1>6, <1>7, <1>10 DEF EditionHoldsName
  <2>4. EditionFoundRow(r)' /\ DeletionFoundRow(r)'
    BY <1>3, <1>6, <1>7 DEF EditionFoundRow, DeletionFoundRow
  <2> QED
    BY <2>1, <2>2, <2>3, <2>4 DEF OwnPart
<1>12. RegistryConsistent' /\ RowsKept(r) /\ pc[r] \notin Past
  BY <1>1 DEF Inductive, RegistryConsistent, RowsKept, Past, Ended
<1>13. \A q \in Requests \ {r} : job'[q] = job[q] /\ held'[q] = held[q]
  BY <1>1 DEF Inductive, TypeOK
<1> QED
  BY <1>5, <1>7, <1>9, <1>11, <1>12, <1>13, OthersUndisturbed

LEMMA FindReferenceKeeps ==
  ASSUME Inductive, NEW r \in Requests, FindReference(r)
  PROVE  Inductive'
<1> DEFINE j == job[r]
<1>1. pc[r] = "reference" /\ pc[r] \in Running
  BY DEF FindReference, Running
<1>2. CASE Goto(r, "missing")
  BY <1>1, <1>2, EndingStep DEF Ended
<1>3. CASE Has(rows, TargetTable(j), j.target) /\ Carry(r, rows[j.target].client, After(r))
  <2>1. j \in Asked /\ j.op \in {"create", "list", "me", "get"} /\ pc[r] \in DOMAIN Program(j)
    BY <1>1, StatementBelongs
  <2>2. After(r) \in {"items", "lookup", "insert", "list", "ok"} /\ (After(r) # "ok" => After(r) \in DOMAIN Program(j))
    BY <1>1, <2>1, CreationWay, ReadingWay DEF After
  <2>3. After(r) \in Running \cup Ended
    BY <2>2 DEF Running, Ended
  <2>4. rows[j.target] \in Row /\ rows[j.target].client \in Ids \cup {None}
    BY <1>3 DEF Has, Inductive, TypeOK, Row, ClientRow, VehicleRow, ServiceTypeRow, PartRow, OrderRow
  <2>5. pc'[r] = After(r) /\ held'[r] = rows[j.target].client /\ UNCHANGED <<rows, job>>
    BY <1>3 DEF Carry, Inductive, TypeOK
  <2>6. OpeningKnowsOwner(r)'
    <3> SUFFICES ASSUME j.op = "create", j.table = "order"
                 PROVE  held'[r] \in Ids /\ Found(j.target, "vehicle")' /\ held'[r] = rows'[j.target].client
      BY <2>5 DEF OpeningKnowsOwner
    <3>1. Has(rows, "vehicle", j.target)
      BY <1>3 DEF TargetTable
    <3>2. rows[j.target].client \in Ids
      BY <2>4, <3>1 DEF Has, Row, ClientRow, VehicleRow, ServiceTypeRow, PartRow, OrderRow
    <3>3. j.target \in Requests => pc'[j.target] \in Past
      <4>1. j.target \in Requests => pc[j.target] \in Past
        BY <3>1 DEF Has, Inductive, RowsWereInserted
      <4>2. j.target # r
        BY <1>1, <3>1 DEF Has, Inductive, RowsWereInserted, Past, Ended
      <4> QED
        BY <1>3, <4>1, <4>2 DEF Carry, Inductive, TypeOK
    <3> QED
      BY <2>5, <3>1, <3>2, <3>3 DEF Found, Has
  <2>7. EditionHoldsName(r)' /\ EditionFoundRow(r)' /\ DeletionFoundRow(r)'
    BY <2>1, <2>2, <2>5 DEF EditionHoldsName, EditionFoundRow, DeletionFoundRow
  <2>8. After(r) \in Running => After(r) \in DOMAIN Program(j)
    BY <2>2 DEF Running
  <2> QED
    BY <1>1, <1>3, <2>3, <2>4, <2>6, <2>7, <2>8, QuietStep DEF Carry
<1> QED
  BY <1>2, <1>3 DEF FindReference

\* On to a statement that asks of the invariant no more than the last one did.
LEMMA NextStatement ==
  ASSUME Inductive, NEW r \in Requests, pc[r] \in Running, Goto(r, After(r)),
         After(r) \in Running /\ After(r) \in DOMAIN Program(job[r]),
         job[r].op = "create" /\ job[r].table = "order" /\ After(r) \in {"items", "insert"} =>
           pc[r] \in {"items", "insert"},
         job[r].op = "update" /\ After(r) \in {"lookup", "reload", "save"} => pc[r] \in {"lookup", "reload", "save"},
         job[r].op = "delete" /\ After(r) \in {"reload", "erase", "remove"} => pc[r] \in {"reload", "erase", "remove"},
         pc[r] # "refresh"
  PROVE  Inductive'
<1>1. pc'[r] = After(r) /\ job' = job /\ held' = held /\ rows' = rows
  BY DEF Inductive, TypeOK, Goto
<1>2. held' = [held EXCEPT ![r] = held[r]] /\ held[r] \in Ids \cup Names \cup {None}
  BY <1>1 DEF Inductive, TypeOK
<1>3. ASSUME NEW i, NEW t, Found(i, t)
      PROVE  Found(i, t)'
  <2>1. i \in Requests => pc[i] \in Past /\ i # r
    BY <1>3 DEF Found, Past, Running, Ended
  <2> QED
    BY <1>1, <1>3, <2>1 DEF Found, Goto, Inductive, TypeOK
<1>4. OpeningKnowsOwner(r)'
  BY <1>1, <1>3 DEF Inductive, OpeningKnowsOwner
<1>5. EditionHoldsName(r)'
  BY <1>1 DEF Inductive, EditionHoldsName, Running
<1>6. EditionFoundRow(r)'
  BY <1>1, <1>3 DEF Inductive, EditionFoundRow
<1>7. DeletionFoundRow(r)'
  BY <1>1, <1>3 DEF Inductive, DeletionFoundRow, Running
<1> QED
  BY <1>2, <1>4, <1>5, <1>6, <1>7, QuietStep DEF Goto

LEMMA FindItemKeeps ==
  ASSUME Inductive, NEW r \in Requests, FindItem(r)
  PROVE  Inductive'
<1>1. pc[r] = "items" /\ pc[r] \in Running
  BY DEF FindItem, Running
<1>2. CASE Goto(r, "missing")
  BY <1>1, <1>2, EndingStep DEF Ended
<1>3. CASE Goto(r, After(r))
  <2>1. job[r].op = "create" /\ After(r) \in {"items", "lookup", "insert"} \cap DOMAIN Program(job[r])
    BY <1>1, StatementBelongs, CreationWay DEF After
  <2> QED
    BY <1>1, <1>3, <2>1, NextStatement DEF Running
<1> QED
  BY <1>2, <1>3 DEF FindItem

LEMMA LookUpKeyKeeps ==
  ASSUME Inductive, NEW r \in Requests, LookUpKey(r)
  PROVE  Inductive'
<1>1. pc[r] = "lookup" /\ pc[r] \in Running
  BY DEF LookUpKey, Running
<1>2. CASE Goto(r, "conflict")
  BY <1>1, <1>2, EndingStep DEF Ended
<1>3. CASE Goto(r, After(r)) /\ job[r].op = "create"
  <2>1. After(r) \in {"items", "lookup", "insert"} \cap DOMAIN Program(job[r])
    BY <1>1, <1>3, StatementBelongs, CreationWay DEF After
  <2>2. job[r].table # "order"
    BY <1>1, <1>3, StatementBelongs, CreationWay
  <2> QED
    BY <1>1, <1>3, <2>1, <2>2, NextStatement DEF Running
<1>4. CASE Goto(r, After(r)) /\ job[r].op = "update"
  <2>1. After(r) \in {"reload"} \cap DOMAIN Program(job[r])
    BY <1>1, <1>4, StatementBelongs, EditionWay DEF After
  <2> QED
    BY <1>1, <1>4, <2>1, NextStatement DEF Running
<1>5. job[r].op \in {"create", "update"}
  BY <1>1, StatementBelongs
<1> QED
  BY <1>2, <1>3, <1>4, <1>5 DEF LookUpKey

LEMMA RefreshKeeps ==
  ASSUME Inductive, NEW r \in Requests, Refresh(r)
  PROVE  Inductive'
<1>1. pc[r] = "refresh" /\ pc[r] \in Running
  BY DEF Refresh, Running
<1>2. job[r].op \in {"create", "update"} /\ After(r) = "ok"
  BY <1>1, StatementBelongs, CreationWay, EditionWay DEF After
<1> QED
  BY <1>1, <1>2, EndingStep DEF Refresh, Ended

LEMMA ListKeeps ==
  ASSUME Inductive, NEW r \in Requests, List(r)
  PROVE  Inductive'
<1>1. pc[r] = "list" /\ pc[r] \in Running /\ Goto(r, After(r))
  BY DEF List, Running
<1>2. job[r].op \in {"me", "get", "list"} /\ (After(r) = "ok" \/ After(r) \in {"list"} \cap DOMAIN Program(job[r]))
  BY <1>1, StatementBelongs, ReadingWay DEF After, Running
<1>3. CASE After(r) = "ok"
  BY <1>1, <1>2, <1>3, EndingStep DEF Ended
<1>4. CASE After(r) \in {"list"} \cap DOMAIN Program(job[r])
  BY <1>1, <1>2, <1>4, NextStatement DEF Running
<1> QED
  BY <1>2, <1>3, <1>4

LEMMA CrashKeeps ==
  ASSUME Inductive, NEW r \in Requests, Crash(r)
  PROVE  Inductive'
BY EndingStep DEF Crash, Ended

LEMMA EraseKeeps ==
  ASSUME Inductive, NEW r \in Requests, Erase(r)
  PROVE  Inductive'
<1>1. pc[r] = "erase" /\ pc[r] \in Running
  BY DEF Erase, Running
<1>2. CASE Goto(r, "failed")
  BY <1>1, <1>2, EndingStep DEF Ended
<1>3. CASE Goto(r, After(r))
  <2>1. job[r].op = "delete" /\ After(r) \in {"remove"} \cap DOMAIN Program(job[r])
    BY <1>1, StatementBelongs, DeletionWay DEF After
  <2> QED
    BY <1>1, <1>3, <2>1, NextStatement DEF Running
<1> QED
  BY <1>2, <1>3 DEF Erase

LEMMA RowThereIsFound ==
  ASSUME Inductive, NEW r \in Requests, pc[r] \in {"load", "reload"}, NEW i, NEW t, Has(rows, t, i),
         NEW next \in Running \cup Ended, pc' = [pc EXCEPT ![r] = next], rows' = rows
  PROVE  Found(i, t)'
<1>1. i \in Requests => pc[i] \in Past
  BY DEF Has, Inductive, RowsWereInserted
<1>2. i # r
  BY <1>1 DEF Past, Ended
<1> QED
  BY <1>1, <1>2 DEF Found, Has, Inductive, TypeOK

LEMMA LoadKeeps ==
  ASSUME Inductive, NEW r \in Requests, Load(r)
  PROVE  Inductive'
<1> DEFINE j == job[r]
<1>1. pc[r] = "load" /\ pc[r] \in Running
  BY DEF Load, Running
<1>2. j \in Asked /\ j.op \in {"update", "delete", "me", "get", "list"} /\ "load" \in DOMAIN Program(j)
  BY <1>1, StatementBelongs
<1>3. CASE Goto(r, "missing")
  BY <1>1, <1>3, EndingStep DEF Ended
<1>4. CASE Has(rows, j.table, j.target) /\ j.op \notin {"update", "delete"} /\ Goto(r, After(r))
  <2>1. After(r) = "ok" \/ After(r) \in {"list"} \cap DOMAIN Program(j)
    BY <1>1, <1>2, <1>4, ReadingWay DEF After
  <2>2. CASE After(r) = "ok"
    BY <1>1, <1>4, <2>2, EndingStep DEF Ended
  <2>3. CASE After(r) \in {"list"} \cap DOMAIN Program(j)
    BY <1>1, <1>2, <1>4, <2>3, NextStatement DEF Running
  <2> QED
    BY <2>1, <2>2, <2>3
<1>5. CASE Has(rows, j.table, j.target) /\ j.op = "delete" /\ Goto(r, After(r))
  <2>1. After(r) = "reload" /\ "reload" \in DOMAIN Program(j) /\ "reload" \in Running
    BY <1>1, <1>2, <1>5, DeletionWay DEF After, Running
  <2>2. pc' = [pc EXCEPT ![r] = "reload"] /\ pc'[r] = "reload" /\ UNCHANGED <<rows, job, held>>
    BY <1>5, <2>1 DEF Goto, Inductive, TypeOK
  <2>3. Found(j.target, j.table)'
    BY <1>1, <1>5, <2>1, <2>2, RowThereIsFound
  <2>4. OpeningKnowsOwner(r)' /\ EditionHoldsName(r)' /\ EditionFoundRow(r)' /\ DeletionFoundRow(r)'
    BY <1>5, <2>2, <2>3 DEF OpeningKnowsOwner, EditionHoldsName, EditionFoundRow, DeletionFoundRow
  <2>5. held' = [held EXCEPT ![r] = held[r]] /\ held[r] \in Ids \cup Names \cup {None}
    BY <2>2 DEF Inductive, TypeOK
  <2> QED
    BY <1>1, <1>5, <2>1, <2>2, <2>4, <2>5, QuietStep DEF Goto
<1>6. ASSUME NEW next \in {"lookup", "reload"}, NEW v, Has(rows, j.table, j.target), j.op = "update",
             Carry(r, v, next), next \in DOMAIN Program(j),
             v = None \/ (j.table = "service" /\ v \in Names)
      PROVE  Inductive'
  <2>1. next \in Running
    BY DEF Running
  <2>2. pc' = [pc EXCEPT ![r] = next] /\ pc'[r] = next /\ held'[r] = v /\ UNCHANGED <<rows, job>>
    BY <1>6 DEF Carry, Inductive, TypeOK
  <2>3. Found(j.target, j.table)'
    BY <1>1, <1>6, <2>1, <2>2, RowThereIsFound
  <2>4. OpeningKnowsOwner(r)' /\ EditionHoldsName(r)' /\ EditionFoundRow(r)' /\ DeletionFoundRow(r)'
    BY <1>6, <2>2, <2>3 DEF OpeningKnowsOwner, EditionHoldsName, EditionFoundRow, DeletionFoundRow
  <2> QED
    BY <1>1, <1>6, <2>1, <2>2, <2>4, QuietStep DEF Carry
<1>7. CASE Has(rows, j.table, j.target) /\ j.op = "update" /\ j.table # "service" /\ Goto(r, After(r))
  <2>1. After(r) = "reload" /\ "reload" \in DOMAIN Program(j)
    BY <1>1, <1>2, <1>7, EditionWay DEF After
  <2>2. held[r] = None
    BY <1>1, <1>7 DEF Inductive, EditionHoldsName
  <2>3. Carry(r, None, "reload")
    BY <1>7, <2>1, <2>2 DEF Goto, Carry, Inductive, TypeOK
  <2> QED
    BY <1>6, <1>7, <2>1, <2>3
<1>8. CASE Has(rows, j.table, j.target) /\ j.op = "update" /\ j.table = "service"
             /\ RenameFound(r, rows[j.target].key)
  <2>1. rows[j.target].key \in Names
    BY <1>8 DEF Has, Inductive, TypeOK, Row, ClientRow, VehicleRow, ServiceTypeRow, PartRow, OrderRow
  <2>2. j.key \in Names \cup {None}
    BY <1>2, <1>8, AskedFits
  <2>3. {"lookup", "reload"} \subseteq DOMAIN Program(j)
    BY <1>2, <1>8, EditionWay
  <2>4. \/ \E v \in Names : Carry(r, v, "reload")
        \/ \E v \in Names : Carry(r, v, "lookup")
    BY <1>8, <2>1, <2>2, RegistryAssumption DEF RenameFound
  <2> QED
    BY <1>6, <1>8, <2>3, <2>4
<1> QED
  BY <1>2, <1>3, <1>4, <1>5, <1>7, <1>8 DEF Load

LEMMA ReloadKeeps ==
  ASSUME Inductive, NEW r \in Requests, Reload(r)
  PROVE  Inductive'
<1> DEFINE j == job[r]
<1>1. pc[r] = "reload" /\ pc[r] \in Running
  BY DEF Reload, Running
<1>2. j \in Asked /\ j.op \in {"update", "delete"} /\ "reload" \in DOMAIN Program(j)
  BY <1>1, StatementBelongs
<1>3. CASE Goto(r, "failed")
  BY <1>1, <1>3, EndingStep DEF Ended
<1>4. CASE Has(rows, j.table, j.target) /\ j.op = "delete" /\ Goto(r, After(r))
  <2>1. After(r) \in {"erase", "remove"} \cap DOMAIN Program(j)
    BY <1>1, <1>2, <1>4, DeletionWay DEF After
  <2> QED
    BY <1>1, <1>4, <2>1, NextStatement DEF Running
<1>5. CASE ~Has(rows, j.table, j.target) /\ j.op = "delete" /\ Goto(r, "ok")
  <2>1. Found(j.target, j.table)
    BY <1>1, <1>5 DEF Inductive, DeletionFoundRow
  <2>2. pc' = [pc EXCEPT ![r] = "ok"] /\ pc'[r] = "ok" /\ UNCHANGED <<rows, job, held>>
    BY <1>5 DEF Goto, Inductive, TypeOK
  <2>3. j.target \notin DOMAIN rows /\ (j.target \in Requests => pc'[j.target] \in Past)
    BY <1>5, <2>1, <2>2 DEF Found, Has, Inductive, TypeOK, Past, Ended
  <2>4. OpeningKnowsOwner(r)' /\ EditionHoldsName(r)' /\ EditionFoundRow(r)' /\ DeletionFoundRow(r)'
    BY <1>5, <2>2, <2>3 DEF OpeningKnowsOwner, EditionHoldsName, EditionFoundRow, DeletionFoundRow
  <2>5. held' = [held EXCEPT ![r] = held[r]] /\ held[r] \in Ids \cup Names \cup {None}
    BY <2>2 DEF Inductive, TypeOK
  <2>6. "ok" \in Ended /\ "ok" \notin Running
    BY DEF Running, Ended
  <2> QED
    BY <1>1, <1>5, <2>2, <2>4, <2>5, <2>6, QuietStep DEF Goto
<1>6. CASE /\ Has(rows, j.table, j.target) /\ j.op = "update"
           /\ Carry(r, IF held[r] = rows[j.target].key THEN None ELSE held[r], After(r))
  <2>1. PICK v \in {None, held[r]} : Carry(r, v, After(r))
    BY <1>6
  <2>2. After(r) = "save" /\ "save" \in DOMAIN Program(j) /\ "save" \in Running
    BY <1>1, <1>2, <1>6, EditionWay DEF After, Running
  <2>3. v = None \/ (j.table = "service" /\ v \in Names)
    BY <1>1, <1>6 DEF Inductive, EditionHoldsName
  <2>4. pc' = [pc EXCEPT ![r] = "save"] /\ pc'[r] = "save" /\ held'[r] = v /\ UNCHANGED <<rows, job>>
    BY <2>1, <2>2 DEF Carry, Inductive, TypeOK
  <2>5. Found(j.target, j.table)'
    BY <1>1, <1>6, <2>2, <2>4, RowThereIsFound
  <2>6. OpeningKnowsOwner(r)' /\ EditionHoldsName(r)' /\ EditionFoundRow(r)' /\ DeletionFoundRow(r)'
    BY <1>6, <2>3, <2>4, <2>5 DEF OpeningKnowsOwner, EditionHoldsName, EditionFoundRow, DeletionFoundRow
  <2> QED
    BY <1>1, <2>1, <2>2, <2>3, <2>6, QuietStep DEF Carry
<1> QED
  BY <1>2, <1>3, <1>4, <1>5, <1>6 DEF Reload

-----------------------------------------------------------------------------
(***************************************************************************)
(* The three statements that write                                         *)
(***************************************************************************)
LEMMA NewRowType ==
  ASSUME Inductive, NEW r \in Requests, pc[r] = "insert"
  PROVE  /\ job[r].op = "create" /\ NewRow(r) \in Row
         /\ NewRow(r).table = "order" => /\ NewRow(r).vehicle = job[r].target /\ NewRow(r).client = held[r]
                                         /\ job[r].table = "order"
<1> DEFINE j == job[r]
<1>1. j \in Asked /\ j.op = "create"
  BY StatementBelongs DEF Running
<1>2. j \in Job /\ j.table \in {"client", "vehicle", "service", "part", "order"}
  BY <1>1, AskedFits DEF Job, Tables
<1>3. CASE j.table = "client"
  <2>1. NewRow(r) = NewClient(j)
    BY <1>3 DEF NewRow
  <2> QED
    BY <1>1, <1>3, <2>1, AskedFits DEF NewClient, Row, ClientRow
<1>4. CASE j.table = "vehicle"
  <2>1. NewRow(r) = NewVehicle(j)
    BY <1>4 DEF NewRow
  <2> QED
    BY <1>1, <1>4, <2>1, AskedFits DEF NewVehicle, Row, VehicleRow
<1>5. CASE j.table = "service"
  <2>1. NewRow(r) = NewServiceType(j)
    BY <1>5 DEF NewRow
  <2> QED
    BY <1>1, <1>5, <2>1, AskedFits DEF NewServiceType, Row, ServiceTypeRow
<1>6. CASE j.table = "part"
  <2>1. NewRow(r) = NewPart(j)
    BY <1>6 DEF NewRow
  <2> QED
    BY <1>1, <1>6, <2>1 DEF NewPart, Row, PartRow
<1>7. CASE j.table = "order"
  <2>1. NewRow(r) = NewOrder(j, held[r])
    BY <1>7 DEF NewRow
  <2>2. held[r] \in Ids /\ j.target \in Ids /\ j.item \in Ids \cup {None}
    BY <1>1, <1>2, <1>7, AskedFits DEF Inductive, OpeningKnowsOwner, Job
  <2> QED
    BY <1>1, <1>7, <2>1, <2>2 DEF NewOrder, Row, OrderRow
<1> QED
  BY <1>2, <1>3, <1>4, <1>5, <1>6, <1>7

LEMMA OrderRefs ==
  ASSUME NEW w \in Row, w.table = "order"
  PROVE  w.vehicle \in Refs(w)
BY IdsAssumption DEF Row, ClientRow, VehicleRow, ServiceTypeRow, PartRow, OrderRow, Refs

\* A committed write of r leaves the rest of the invariant to the four facts below.
LEMMA CommitKeeps ==
  ASSUME Inductive, NEW r \in Requests, NEW new, NEW next \in {"refresh", "ok"}, Commit(r, new, next),
         pc[r] \in {"insert", "save", "remove"},
         DOMAIN new \subseteq Ids, \A i \in DOMAIN new : new[i] \in Row, Consistent(new),
         next = "refresh" => "refresh" \in DOMAIN Program(job[r]) /\ job[r].op # "delete",
         \A i \in DOMAIN new :
           \/ i = r /\ pc[r] = "insert"
           \/ i \in DOMAIN rows /\ new[i].table = rows[i].table /\ new[i].client = rows[i].client,
         next = "ok" => /\ job[r].target \notin DOMAIN new
                        /\ job[r].target \in Requests => pc[job[r].target] \in Past
  PROVE  Inductive'
<1>1. rows' = new /\ pc' = [pc EXCEPT ![r] = next] /\ pc'[r] = next /\ UNCHANGED <<tokens, job, held, contended>>
      /\ done' = done \cup {r}
  BY DEF Commit, Inductive, TypeOK
<1>2. next \in Running \cup Ended /\ next \in Past /\ pc[r] \notin Past /\ pc[r] \in Running
  BY DEF Running, Ended, Past
<1>3. TypeOK'
  BY <1>1, <1>2 DEF Inductive, TypeOK
<1>4. RegistryConsistent' /\ RowsKept(r)
  BY <1>1, <1>2 DEF RegistryConsistent, RowsKept
<1>5. OnItsWay(r)'
  <2>1. next \in Running => next = "refresh"
    BY DEF Running
  <2> QED
    BY <1>1, <1>2, <2>1 DEF Inductive, OnItsWay
<1>6. OpeningKnowsOwner(r)' /\ EditionFoundRow(r)'
  BY <1>1 DEF OpeningKnowsOwner, EditionFoundRow
<1>7. EditionHoldsName(r)'
  BY <1>1, <1>2 DEF Inductive, EditionHoldsName
<1>8. DeletionFoundRow(r)'
  BY <1>1, <1>2 DEF DeletionFoundRow, Inductive, TypeOK
<1> QED
  BY <1>1, <1>2, <1>3, <1>4, <1>5, <1>6, <1>7, <1>8, OthersUndisturbed DEF OwnPart

LEMMA InsertKeeps ==
  ASSUME Inductive, NEW r \in Requests, Insert(r)
  PROVE  Inductive'
<1> DEFINE w == NewRow(r)
           new == With(rows, r, w)
<1>1. pc[r] = "insert" /\ pc[r] \in Running
  BY DEF Insert, Running
<1>2. CASE Goto(r, "failed")
  BY <1>1, <1>2, EndingStep DEF Ended
<1>3. CASE Accepted(r, w) /\ Commit(r, new, After(r))
  <2>1. job[r].op = "create" /\ w \in Row
    BY <1>1, NewRowType
  <2>2. After(r) = "refresh" /\ "refresh" \in DOMAIN Program(job[r])
    BY <1>1, <2>1, StatementBelongs, CreationWay DEF After
  <2>3. r \notin DOMAIN rows
    BY <1>1 DEF Inductive, RowsWereInserted, Past, Ended
  <2>4. DOMAIN new = DOMAIN rows \cup {r} /\ new[r] = w /\ \A i \in DOMAIN rows : new[i] = rows[i]
    BY <2>3 DEF With
  <2>5. Refs(w) \subseteq DOMAIN rows /\ MayHold(rows, w.table, r, w.key)
    BY <1>3 DEF Accepted
  <2>6. Consistent(rows) /\ \A i \in DOMAIN rows : rows[i] \in Row
    BY DEF Inductive, RegistryConsistent, TypeOK
  <2> HIDE DEF new
  <2>7. UniqueKeys(new)
    BY <2>3, <2>4, <2>5, <2>6 DEF Consistent, UniqueKeys, MayHold
  <2>8. NoDanglingReference(new)
    BY <2>4, <2>5, <2>6 DEF Consistent, NoDanglingReference
  <2>9. OwnersAgree(new)
    <3> SUFFICES ASSUME NEW i \in DOMAIN new, new[i].table = "order"
                 PROVE  Has(new, "vehicle", new[i].vehicle) /\ new[new[i].vehicle].client = new[i].client
      BY DEF OwnersAgree
    <3>1. CASE i = r
      <4>1. w.vehicle = job[r].target /\ w.client = held[r] /\ job[r].table = "order"
        BY <1>1, <2>4, <3>1, NewRowType
      <4>2. w.vehicle \in DOMAIN rows
        BY <2>1, <2>4, <2>5, <3>1, OrderRefs
      <4>3. rows[w.vehicle].table = "vehicle" /\ rows[w.vehicle].client = w.client
        BY <1>1, <2>1, <4>1, <4>2 DEF Inductive, OpeningKnowsOwner, Found
      <4> QED
        BY <2>4, <3>1, <4>2, <4>3 DEF Has
    <3>2. CASE i \in DOMAIN rows
      <4>1. Has(rows, "vehicle", rows[i].vehicle) /\ rows[rows[i].vehicle].client = rows[i].client
        BY <2>4, <2>6, <3>2 DEF Consistent, OwnersAgree
      <4> QED
        BY <2>4, <3>2, <4>1 DEF Has
    <3> QED
      BY <2>4, <3>1, <3>2
  <2>10. DOMAIN new \subseteq Ids /\ \A i \in DOMAIN new : new[i] \in Row
    BY <2>1, <2>4, <2>6 DEF Inductive, TypeOK, Ids
  <2>11. \A i \in DOMAIN new :
           \/ i = r /\ pc[r] = "insert"
           \/ i \in DOMAIN rows /\ new[i].table = rows[i].table /\ new[i].client = rows[i].client
    BY <1>1, <2>4
  <2>12. Commit(r, new, "refresh")
    BY <1>3, <2>2
  <2> QED
    BY <1>1, <2>1, <2>2, <2>7, <2>8, <2>9, <2>10, <2>11, <2>12, CommitKeeps DEF Consistent
<1> QED
  BY <1>2, <1>3 DEF Insert

LEMMA SaveKeeps ==
  ASSUME Inductive, NEW r \in Requests, Save(r)
  PROVE  Inductive'
<1> DEFINE t == job[r].target
           new == IF held[r] = None THEN rows ELSE [rows EXCEPT ![t].key = held[r]]
<1>1. pc[r] = "save" /\ pc[r] \in Running
  BY DEF Save, Running
<1>2. CASE Goto(r, "failed")
  BY <1>1, <1>2, EndingStep DEF Ended
<1>3. CASE t \in DOMAIN rows /\ MayHold(rows, job[r].table, t, held[r]) /\ Commit(r, new, After(r))
  <2>1. job[r].op = "update" /\ After(r) = "refresh" /\ "refresh" \in DOMAIN Program(job[r])
    BY <1>1, StatementBelongs, EditionWay DEF After
  <2>2. Consistent(rows) /\ DOMAIN rows \subseteq Ids /\ \A i \in DOMAIN rows : rows[i] \in Row
    BY DEF Inductive, RegistryConsistent, TypeOK
  <2>3. rows[t].table = job[r].table /\ (held[r] = None \/ (job[r].table = "service" /\ held[r] \in Names))
    BY <1>1, <1>3, <2>1 DEF Inductive, EditionFoundRow, EditionHoldsName, Found
  <2>4. Commit(r, new, "refresh")
    BY <1>3, <2>1
  <2>5. CASE held[r] = None
    BY <1>1, <2>1, <2>2, <2>4, <2>5, CommitKeeps
  <2>6. CASE held[r] # None
    <3>1. new = [rows EXCEPT ![t].key = held[r]] /\ DOMAIN new = DOMAIN rows
      BY <2>6
    <3>2. rows[t] \in ServiceTypeRow
      BY <1>3, <2>2, <2>3, <2>6 DEF Row, ClientRow, VehicleRow, ServiceTypeRow, PartRow, OrderRow
    <3>3. new[t] \in ServiceTypeRow /\ new[t].key = held[r] /\ \A i \in DOMAIN rows \ {t} : new[i] = rows[i]
      BY <1>3, <2>3, <2>6, <3>1, <3>2 DEF ServiceTypeRow
    <3>4. \A i \in DOMAIN new : /\ new[i] \in Row
                                /\ new[i].table = rows[i].table /\ new[i].client = rows[i].client
                                /\ new[i].vehicle = rows[i].vehicle /\ new[i].item = rows[i].item
      BY <2>2, <3>1, <3>2, <3>3 DEF Row, ServiceTypeRow
    <3> HIDE DEF new
    <3>5. UniqueKeys(new)
      <4>1. \A i \in DOMAIN rows \ {t} : rows[i].table = rows[t].table => rows[i].key # held[r]
        BY <1>3, <2>3, <2>6 DEF MayHold
      <4> QED
        BY <2>2, <3>1, <3>3, <3>4, <4>1 DEF Consistent, UniqueKeys
    <3>6. NoDanglingReference(new)
      BY <2>2, <3>1, <3>4 DEF Consistent, NoDanglingReference, Refs
    <3>7. OwnersAgree(new)
      BY <2>2, <3>1, <3>4 DEF Consistent, OwnersAgree, Has
    <3> QED
      BY <1>1, <2>1, <2>2, <2>4, <3>1, <3>4, <3>5, <3>6, <3>7, CommitKeeps DEF Consistent
  <2> QED
    BY <2>5, <2>6
<1> QED
  BY <1>2, <1>3 DEF Save

LEMMA RemoveKeeps ==
  ASSUME Inductive, NEW r \in Requests, Remove(r)
  PROVE  Inductive'
<1> DEFINE t == job[r].target
           new == Without(rows, t)
<1>1. pc[r] = "remove" /\ pc[r] \in Running
  BY DEF Remove, Running
<1>2. CASE Goto(r, "failed")
  BY <1>1, <1>2, EndingStep DEF Ended
<1>3. CASE Deletable(t) /\ Commit(r, new, After(r))
  <2>1. job[r].op = "delete" /\ After(r) = "ok"
    BY <1>1, StatementBelongs, DeletionWay DEF After
  <2>2. Consistent(rows) /\ DOMAIN rows \subseteq Ids /\ \A i \in DOMAIN rows : rows[i] \in Row
    BY DEF Inductive, RegistryConsistent, TypeOK
  <2>3. DOMAIN new = DOMAIN rows \ {t} /\ \A i \in DOMAIN new : new[i] = rows[i]
    BY DEF Without
  <2>4. \A i \in DOMAIN rows : t \notin Refs(rows[i])
    BY <1>3 DEF Deletable, Referred
  <2>5. t \in Requests => pc[t] \in Past
    BY <1>1, <2>1 DEF Inductive, DeletionFoundRow, Found
  <2>6. Commit(r, new, "ok")
    BY <1>3, <2>1
  <2> HIDE DEF new
  <2>7. UniqueKeys(new)
    BY <2>2, <2>3 DEF Consistent, UniqueKeys
  <2>8. NoDanglingReference(new)
    BY <2>2, <2>3, <2>4 DEF Consistent, NoDanglingReference
  <2>9. OwnersAgree(new)
    <3> SUFFICES ASSUME NEW i \in DOMAIN new, new[i].table = "order"
                 PROVE  Has(new, "vehicle", new[i].vehicle) /\ new[new[i].vehicle].client = new[i].client
      BY DEF OwnersAgree
    <3>1. rows[i] \in Row /\ new[i] = rows[i] /\ i \in DOMAIN rows
      BY <2>2, <2>3
    <3>2. rows[i].vehicle # t
      BY <2>4, <3>1, OrderRefs
    <3>3. Has(rows, "vehicle", rows[i].vehicle) /\ rows[rows[i].vehicle].client = rows[i].client
      BY <2>2, <3>1 DEF Consistent, OwnersAgree
    <3> QED
      BY <2>3, <3>1, <3>2, <3>3 DEF Has
  <2>10. \A i \in DOMAIN new : new[i] \in Row
    BY <2>2, <2>3
  <2>11. \A i \in DOMAIN new : i \in DOMAIN rows /\ new[i].table = rows[i].table /\ new[i].client = rows[i].client
    BY <2>3
  <2> QED
    BY <1>1, <2>1, <2>2, <2>3, <2>5, <2>6, <2>7, <2>8, <2>9, <2>10, <2>11, CommitKeeps DEF Consistent
<1> QED
  BY <1>2, <1>3 DEF Remove

-----------------------------------------------------------------------------
(***************************************************************************)
(* The theorems                                                            *)
(***************************************************************************)
LEMMA InitInductive == Init => Inductive
<1> SUFFICES ASSUME Init
             PROVE  Inductive
  OBVIOUS
<1>1. Consistent(rows) /\ DOMAIN rows \subseteq Existing /\ \A i \in DOMAIN rows : rows[i] \in Row
  BY RegistryAssumption DEF Init
<1>2. NoJob \in Job /\ NoJob.op = "none"
  BY DEF NoJob, Job, Tables
<1>3. TypeOK
  BY <1>1, <1>2, RegistryAssumption DEF Init, TypeOK, Ids
<1>4. RowsWereInserted
  BY <1>1, IdsAssumption DEF RowsWereInserted
<1>5. \A r \in Requests : pc[r] = "idle" /\ job[r] = NoJob /\ held[r] = None
  BY DEF Init
<1>6. "idle" \notin Running
  BY DEF Running
<1>7. ASSUME NEW r \in Requests
      PROVE  OnItsWay(r) /\ OpeningKnowsOwner(r) /\ EditionHoldsName(r) /\ EditionFoundRow(r) /\ DeletionFoundRow(r)
  BY <1>2, <1>5, <1>6 DEF OnItsWay, OpeningKnowsOwner, EditionHoldsName, EditionFoundRow, DeletionFoundRow
<1> QED
  BY <1>1, <1>3, <1>4, <1>7 DEF Inductive, RegistryConsistent

LEMMA StepKeeps == Inductive /\ [Next]_vars => Inductive'
<1> SUFFICES ASSUME Inductive, [Next]_vars
             PROVE  Inductive'
  OBVIOUS
<1>1. CASE UNCHANGED vars
  BY <1>1 DEF vars, Inductive, TypeOK, RegistryConsistent, RowsWereInserted, OnItsWay, OpeningKnowsOwner,
              EditionHoldsName, EditionFoundRow, DeletionFoundRow, Found
<1>2. ASSUME NEW r \in Requests, IssueToken(r) \/ Call(r) \/ Step(r) \/ Crash(r)
      PROVE  Inductive'
  BY <1>2, IssueTokenKeeps, CallKeeps, FindReferenceKeeps, FindItemKeeps, LookUpKeyKeeps, InsertKeeps, RefreshKeeps,
     LoadKeeps, ListKeeps, ReloadKeeps, SaveKeeps, EraseKeeps, RemoveKeeps, CrashKeeps DEF Step
<1> QED
  BY <1>1, <1>2 DEF Next, AllEnded

LEMMA InductiveHolds == Spec => []Inductive
BY InitInductive, StepKeeps, PTL DEF Spec

\* The registry stays within its types: a vehicle is never saved with the name of a
\* service type, an order never with an owner that is not an id.
THEOREM TypeCorrectness == Spec => []TypeOK
<1>1. Inductive => TypeOK
  BY DEF Inductive
<1> QED
  BY <1>1, InductiveHolds, PTL

\* Whatever requests overlap or die, keys are unique, no row refers to a missing one, and
\* an order is billed to the client who owns its vehicle, for any number of requests and
\* rows: the owner read before the INSERT is still the owner then.
THEOREM RegistryStaysConsistent == Spec => []RegistryConsistent
<1>1. Inductive => RegistryConsistent
  BY DEF Inductive
<1> QED
  BY <1>1, InductiveHolds, PTL

\* The row of a deletion that was answered 204 is gone, and no request that had read it
\* brings it back.
THEOREM DeletionsAreFinal == Spec => []DeletedIsGone
<1>1. Inductive => DeletedIsGone
  BY DEF Inductive, DeletedIsGone, DeletionFoundRow
<1> QED
  BY <1>1, InductiveHolds, PTL

\* Without a client no token is issued and none is accepted, so nothing changes any more.
THEOREM LockOutStays == Spec => LockOutIsFinal
<1>1. ASSUME Inductive, Next, LockedOut
      PROVE  LockedOut' /\ rows' = rows /\ tokens' = tokens
  <2>1. \A d : ~Registered(d)
    BY <1>1 DEF LockedOut, Registered, Taken
  <2>2. ASSUME NEW r \in Requests, Step(r) \/ Crash(r)
        PROVE  FALSE
    <3>1. pc[r] \in Running
      BY <2>2 DEF Step, Crash, Running, FindReference, FindItem, LookUpKey, Insert, Refresh, Load, List, Reload, Save,
                  Erase, Remove
    <3> QED
      BY <1>1, <3>1 DEF LockedOut
  <2>3. ASSUME NEW r \in Requests, IssueToken(r) \/ Call(r)
        PROVE  pc' = [pc EXCEPT ![r] = "unauthorized"] /\ rows' = rows /\ tokens' = tokens
    BY <2>1, <2>3 DEF IssueToken, Call, Authenticated
  <2>4. ASSUME NEW r \in Requests, pc' = [pc EXCEPT ![r] = "unauthorized"], rows' = rows
        PROVE  LockedOut'
    BY <1>1, <2>4 DEF LockedOut, Running, Inductive, TypeOK
  <2>5. CASE AllEnded
    BY <1>1, <2>5 DEF AllEnded, vars, LockedOut
  <2> QED
    BY <1>1, <2>2, <2>3, <2>4, <2>5 DEF Next
<1>2. Inductive /\ [Next]_vars => [LockedOut => LockedOut' /\ rows' = rows /\ tokens' = tokens]_vars
  BY <1>1
<1> QED
  BY <1>2, InductiveHolds, PTL DEF Spec, LockOutIsFinal
=============================================================================
