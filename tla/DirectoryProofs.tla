-------------------------- MODULE DirectoryProofs --------------------------
(***************************************************************************)
(* Registry implements Directory, for any number of requests and rows: a   *)
(* request of several statements takes effect at the one that commits, or  *)
(* at the one that finds it cannot, and not at all when it fails or        *)
(* crashes before.                                                         *)
(***************************************************************************)
EXTENDS RegistryProofs

\* A transaction that committed is past its answer or about to read the row for it.
DoneIsPast ==
  \A r \in Requests :
    /\ r \in done => pc[r] \in {"refresh", "ok", "failed", "crashed"}
    /\ pc[r] = "refresh" => r \in done

\* Two edits of one service type that overlap make it contended.
OneEditor ==
  \A q, r \in Requests :
    q # r /\ pc[q] \in Running /\ pc[r] \in Running => Edits(job[q]) \cap Edits(job[r]) \subseteq contended

\* An edit that shares its service type with no other writes the name asked for, or
\* nothing if the row has it.
EditionKnowsName(r) ==
  LET t == job[r].target
      k == job[r].key
  IN t \in Edits(job[r]) /\ pc[r] \in {"lookup", "reload", "save"} =>
       /\ pc[r] = "lookup" => k # None
       /\ t \in DOMAIN rows \ contended =>
            /\ pc[r] = "lookup" => held[r] = k /\ rows[t].key # k
            /\ pc[r] = "reload" => held[r] = IF k = None THEN rows[t].key ELSE k
            /\ pc[r] = "save"   => held[r] = k \/ (held[r] = None /\ rows[t].key = k)

\* The database holds nothing but its rows.
RowsAreFunction == rows = [i \in DOMAIN rows |-> rows[i]]

\* What Directory's steps need to know of the requests in between.
Effective == DoneIsPast /\ OneEditor /\ (\A r \in Requests : EditionKnowsName(r)) /\ RowsAreFunction

-----------------------------------------------------------------------------
\* What a statement of r leaves of the others.
LEMMA OthersEffective ==
  ASSUME Inductive, Effective, NEW r \in Requests, NEW next \in Running \cup Ended,
         pc' = [pc EXCEPT ![r] = next], contended \subseteq contended',
         \A q \in Requests \ {r} : job'[q] = job[q] /\ held'[q] = held[q],
         \A i \in DOMAIN rows' :
           \/ i = r /\ pc[r] = "insert"
           \/ i \in DOMAIN rows /\ rows'[i].key = rows[i].key
           \/ i \in DOMAIN rows /\ pc[r] \in Running /\ i \in Edits(job[r]),
         OneEditor', EditionKnowsName(r)', RowsAreFunction',
         done' \subseteq done \cup {r},
         done \subseteq done',
         r \in done' <=> next \in {"refresh"} \/ (next \in {"ok", "failed", "crashed"} /\ r \in done')
  PROVE  Effective'
<1>1. \A q \in Requests \ {r} : pc'[q] = pc[q] /\ (q \in done' <=> q \in done)
  BY DEF Inductive, TypeOK
<1>2. pc'[r] = next
  BY DEF Inductive, TypeOK
<1>3. DoneIsPast'
  BY <1>1, <1>2 DEF Effective, DoneIsPast
<1>4. ASSUME NEW q \in Requests \ {r}
      PROVE  EditionKnowsName(q)'
  <2> DEFINE t == job[q].target
  <2>1. EditionKnowsName(q) /\ pc'[q] = pc[q] /\ job'[q] = job[q] /\ held'[q] = held[q]
    BY <1>1 DEF Effective
  <2> SUFFICES ASSUME t \in Edits(job[q]), pc[q] \in {"lookup", "reload", "save"}, t \in DOMAIN rows' \ contended'
               PROVE  t \in DOMAIN rows \ contended /\ rows'[t].key = rows[t].key
    BY <2>1 DEF EditionKnowsName
  <2>2. Found(t, job[q].table) /\ pc[q] \in Running
    BY DEF Inductive, EditionFoundRow, Edits, Running
  <2>3. ~(t = r /\ pc[r] = "insert")
    BY <2>2 DEF Found, Past, Ended
  <2>4. ~(pc[r] \in Running /\ t \in Edits(job[r]))
    BY <2>2 DEF Effective, OneEditor
  <2> QED
    BY <2>3, <2>4
<1> QED
  BY <1>3, <1>4 DEF Effective

\* A statement of a running request that writes nothing and ends it or goes on.
LEMMA QuietEffective ==
  ASSUME Inductive, Effective, NEW r \in Requests, NEW next \in Running \cup Ended,
         pc[r] \in Running, pc' = [pc EXCEPT ![r] = next],
         \A q \in Requests \ {r} : held'[q] = held[q],
         UNCHANGED <<rows, tokens, job, done, contended>>,
         next # "refresh", pc[r] = "refresh" => next \in {"ok", "failed", "crashed"},
         EditionKnowsName(r)'
  PROVE  Effective'
<1>1. pc'[r] = next /\ \A q \in Requests \ {r} : pc'[q] = pc[q]
  BY DEF Inductive, TypeOK
<1>2. OneEditor'
  BY <1>1 DEF Effective, OneEditor
<1>3. RowsAreFunction'
  BY DEF Effective, RowsAreFunction
<1>4. r \in done => pc[r] = "refresh"
  BY DEF Effective, DoneIsPast, Running
<1> QED
  BY <1>2, <1>3, <1>4, OthersEffective

-----------------------------------------------------------------------------
(***************************************************************************)
(* Statements as moves of the directory                                    *)
(***************************************************************************)

\* How each stage is decided: no two cases of Outcome meet.
LEMMA OutcomeOf ==
  ASSUME DoneIsPast, NEW r \in Requests
  PROVE  /\ pc[r] = "idle" => Outcome(r) = "idle"
         /\ pc[r] \in Running /\ r \notin done => Outcome(r) = "pending"
         /\ r \in done \/ pc[r] = "ok" => Outcome(r) = "done"
         /\ pc[r] \in {"unauthorized", "missing", "conflict"} => Outcome(r) = pc[r]
         /\ pc[r] \in {"failed", "crashed"} /\ r \notin done => Outcome(r) = "lost"
<1>1. r \in done => pc[r] \in {"refresh", "ok", "failed", "crashed"}
  BY DEF DoneIsPast
<1> QED
  BY <1>1 DEF Outcome, Running

\* The same after a step.
LEMMA OutcomeOfNext ==
  ASSUME DoneIsPast', NEW r \in Requests
  PROVE  /\ pc'[r] = "idle" => Outcome(r)' = "idle"
         /\ pc'[r] \in Running /\ r \notin done' => Outcome(r)' = "pending"
         /\ r \in done' \/ pc'[r] = "ok" => Outcome(r)' = "done"
         /\ pc'[r] \in {"unauthorized", "missing", "conflict"} => Outcome(r)' = pc'[r]
         /\ pc'[r] \in {"failed", "crashed"} /\ r \notin done' => Outcome(r)' = "lost"
<1>1. r \in done' => pc'[r] \in {"refresh", "ok", "failed", "crashed"}
  BY DEF DoneIsPast
<1> QED
  BY <1>1 DEF Outcome, Running

\* A statement of r decides r at most.
LEMMA Decides ==
  ASSUME Inductive, NEW r \in Requests, NEW next, pc' = [pc EXCEPT ![r] = next],
         NEW j, job' = [job EXCEPT ![r] = j], done' \in {done, done \cup {r}}
  PROVE  /\ Dir!Decide(r, Outcome(r), Outcome(r)')
         /\ UNCHANGED <<rows, job>> /\ Outcome(r)' = Outcome(r) => UNCHANGED Dir!directory
<1>1. ASSUME NEW q \in Requests \ {r}
      PROVE  Outcome(q)' = Outcome(q)
  <2>1. pc'[q] = pc[q] /\ (q \in done' <=> q \in done)
    BY DEF Inductive, TypeOK
  <2> QED
    BY <2>1 DEF Outcome
<1>2. [q \in Requests |-> Outcome(q)]' = [[q \in Requests |-> Outcome(q)] EXCEPT ![r] = Outcome(r)']
  BY <1>1
<1>3. job'[r] = j
  BY DEF Inductive, TypeOK
<1>4. Dir!Decide(r, Outcome(r), Outcome(r)')
  BY <1>2, <1>3 DEF Dir!Decide
<1>5. ASSUME Outcome(r)' = Outcome(r)
      PROVE  [q \in Requests |-> Outcome(q)]' = [q \in Requests |-> Outcome(q)]
  BY <1>1, <1>5
<1> QED
  BY <1>4, <1>5 DEF Dir!directory

\* What the directory may do in the step.
InDirectory == Dir!Next \/ UNCHANGED Dir!directory

\* A statement that writes nothing and neither answers nor fails is invisible.
LEMMA OnTheWay ==
  ASSUME Inductive, Effective, Effective', NEW r \in Requests, NEW next \in Running \ {"refresh"},
         pc[r] \in Running, pc' = [pc EXCEPT ![r] = next], UNCHANGED <<rows, job, done>>
  PROVE  InDirectory
<1>1. pc'[r] = next /\ job' = [job EXCEPT ![r] = job[r]]
  BY DEF Inductive, TypeOK
<1>2. r \notin done'
  BY <1>1 DEF Effective, DoneIsPast, Running
<1>3. Outcome(r) = "pending" /\ Outcome(r)' = "pending"
  BY <1>1, <1>2, OutcomeOf, OutcomeOfNext DEF Effective
<1> QED
  BY <1>1, <1>3, Decides DEF InDirectory

\* A statement that answers, fails or commits: the directory decides the request.
LEMMA Decided ==
  ASSUME Inductive, Effective, Effective', NEW r \in Requests, NEW next,
         pc[r] \in Running \ {"refresh"}, pc' = [pc EXCEPT ![r] = next], UNCHANGED job,
         \/ done' = done /\ next \in {"ok", "missing", "conflict", "failed", "crashed"}
         \/ done' = done \cup {r} /\ next \in {"refresh", "ok"}
  PROVE  /\ next \in {"ok", "refresh"} => Dir!Decide(r, "pending", "done")
         /\ next = "missing" => Dir!Decide(r, "pending", "missing")
         /\ next = "conflict" => Dir!Decide(r, "pending", "conflict")
         /\ next \in {"failed", "crashed"} => Dir!Decide(r, "pending", "lost")
<1>1. pc'[r] = next /\ job' = [job EXCEPT ![r] = job[r]]
  BY DEF Inductive, TypeOK
<1>2. r \notin done
  BY DEF Effective, DoneIsPast, Running
<1>3. Outcome(r) = "pending"
  BY <1>2, OutcomeOf DEF Effective
<1>4. Dir!Decide(r, "pending", Outcome(r)')
  BY <1>1, <1>3, Decides
<1>5. /\ next \in {"ok", "refresh"} => Outcome(r)' = "done"
      /\ next \in {"missing", "conflict"} => Outcome(r)' = next
      /\ next \in {"failed", "crashed"} => Outcome(r)' = "lost"
  BY <1>1, <1>2, OutcomeOfNext DEF Effective
<1> QED
  BY <1>4, <1>5

\* A request that fails before it has written is lost.
LEMMA Lost ==
  ASSUME Inductive, Effective, Effective', NEW r \in Requests, NEW next \in {"failed", "crashed"},
         pc[r] \in Running \ {"refresh"}, Goto(r, next)
  PROVE  InDirectory
<1>1. Dir!Decide(r, "pending", "lost")
  BY Decided DEF Goto
<1> QED
  BY <1>1 DEF Goto, Dir!Lose, Dir!Next, InDirectory

\* What a request does to the rows, and what it is told, as the directory has it.
LEMMA CarriedOut ==
  ASSUME NEW r \in Requests, Dir!Decide(r, "pending", "done"), UNCHANGED job,
         Dir!Create(r) \/ Dir!Rename(r) \/ Dir!Remove(r) \/ Dir!Read(r)
  PROVE  InDirectory
BY DEF Dir!CarryOut, Dir!Next, InDirectory

\* "Missing" is a right answer where the row looked for, or the service type of the first
\* line, is not there (NotFoundError).
LEMMA SaidMissing ==
  ASSUME NEW r \in Requests, Dir!Decide(r, "pending", "missing"), UNCHANGED <<rows, job>>,
         \/ job[r].target # None /\ ~Has(rows, TargetTable(job[r]), job[r].target)
         \/ job[r].item # None /\ ~Has(rows, "service", job[r].item)
  PROVE  InDirectory
<1>1. \A t, i : Dir!Has(rows, t, i) <=> Has(rows, t, i)
  BY DEF Dir!Has, Has
<1>2. Dir!TargetTable(job[r]) = TargetTable(job[r])
  BY DEF Dir!TargetTable, TargetTable
<1> QED
  BY <1>1, <1>2 DEF Dir!NotFound, Dir!Next, InDirectory

\* "Conflict" is a right answer where another row holds the key (ConflictError).
LEMMA SaidConflict ==
  ASSUME NEW r \in Requests, Dir!Decide(r, "pending", "conflict"), UNCHANGED <<rows, job>>,
         NEW i, i = (IF job[r].op = "update" THEN job[r].target ELSE r),
         job[r].key # None, NEW q \in DOMAIN rows \ {i}, rows[q].table = job[r].table, rows[q].key = job[r].key
  PROVE  InDirectory
<1>1. ~Dir!MayHold(rows, job[r].table, i, job[r].key)
  BY DEF Dir!MayHold
<1> QED
  BY <1>1 DEF Dir!Conflict, Dir!Next, InDirectory

-----------------------------------------------------------------------------
(***************************************************************************)
(* What is asked, and the way, in more detail                              *)
(***************************************************************************)
LEMMA AskedExactly ==
  ASSUME NEW j \in Asked
  PROVE  /\ j.op = "create" => /\ j.table \in {"order", "part"} => j.key = None
                               /\ j.table # "order" => j.item = None
                               /\ j.table \in {"client", "vehicle", "service"} => j.key \in Keys
         /\ j.op = "update" /\ j.table # "service" => j.key = None
         /\ j.op = "list" => j.table # "order" /\ (j.target = None \/ j.table = "vehicle")
         /\ j.table \in {"client", "vehicle", "service", "part", "order"}
<1>1. PICK k \in Calls, d \in Documents : j = [k EXCEPT !.by = d]
  BY DEF Asked
<1>2. k \in Job
  BY RegistryAssumption
<1>3. /\ j.op = k.op /\ j.table = k.table /\ j.target = k.target /\ j.key = k.key /\ j.item = k.item
      /\ k.table \in {"client", "vehicle", "service", "part", "order"}
  BY <1>1, <1>2 DEF Job, Tables
<1>4. k.op = "create" => /\ k.table \in {"order", "part"} => k.key = None
                         /\ k.table # "order" => k.item = None
                         /\ k.table \in {"client", "vehicle", "service"} => k.key \in Keys
  BY RegistryAssumption DEF Keys
<1>5. /\ k.op = "update" /\ k.table # "service" => k.key = None
      /\ k.op = "list" => k.table # "order" /\ (k.target = None \/ k.table = "vehicle")
  BY RegistryAssumption
<1> QED
  BY <1>3, <1>4, <1>5

\* Which statement follows which in a create and a list.
LEMMA WayExactly ==
  ASSUME NEW j \in Asked
  PROVE  /\ j.op = "create" /\ "lookup" \in DOMAIN Program(j) =>
              j.table \in {"client", "vehicle", "service"} /\ Program(j)["lookup"] = "insert"
         /\ "reference" \in DOMAIN Program(j) =>
              /\ \/ j.op = "create" /\ j.table \in {"vehicle", "order"}
                 \/ j.op = "list" /\ j.target # None
              /\ Program(j)["reference"] \in {"items", "lookup", "list"}
         /\ "items" \in DOMAIN Program(j) => j.op = "create" /\ Program(j)["items"] = "insert"
         /\ "list" \in DOMAIN Program(j) => j.op = "list" /\ Program(j)["list"] = "ok"
         /\ "load" \in DOMAIN Program(j) => j.op \in {"update", "delete", "get"}
         /\ j.op = "get" => Program(j) = GetOne
         /\ Program(j).do = "ok" => j.op = "me"
<1>1. j.table \in {"client", "vehicle", "service", "part", "order"}
  BY AskedExactly
<1>2. CASE j.op = "create"
  <2>1. Program(j) \in {CreateClient, CreateVehicle, CreateServiceType, CreatePart, OpenServiceOrder}
        /\ (j.table = "client" => Program(j) = CreateClient)
        /\ (j.table = "vehicle" => Program(j) = CreateVehicle)
        /\ (j.table = "service" => Program(j) = CreateServiceType)
        /\ (j.table = "part" => Program(j) = CreatePart)
        /\ (j.table = "order" => Program(j) = OpenServiceOrder)
    BY <1>1, <1>2 DEF Program, ClientRoutes, VehicleRoutes, ServiceTypeRoutes, PartRoutes
  <2>2. CASE j.table = "client"
    BY <1>2, <2>1, <2>2 DEF CreateClient
  <2>3. CASE j.table = "vehicle"
    BY <1>2, <2>1, <2>3 DEF CreateVehicle
  <2>4. CASE j.table = "service"
    BY <1>2, <2>1, <2>4 DEF CreateServiceType
  <2>5. CASE j.table = "part"
    BY <1>2, <2>1, <2>5 DEF CreatePart
  <2>6. CASE j.table = "order"
    BY <1>2, <2>1, <2>6 DEF OpenServiceOrder
  <2> QED
    BY <1>1, <2>2, <2>3, <2>4, <2>5, <2>6
<1>3. CASE j.op = "update"
  BY <1>3, EditionWay
<1>4. CASE j.op = "delete"
  BY <1>4, DeletionWay
<1>5. CASE j.op = "get"
  <2>1. Program(j) = GetOne
    BY <1>5, AskedFits DEF Program, ClientRoutes, VehicleRoutes, ServiceTypeRoutes
  <2> QED
    BY <1>5, <2>1 DEF GetOne
<1>6. CASE j.op = "me"
  <2>1. Program(j) = [do |-> "ok"]
    BY <1>6 DEF Program
  <2> QED
    BY <1>6, <2>1
<1>7. CASE j.op = "list"
  <2>1. Program(j) = ListAll \/ (Program(j) = ListVehiclesByClient /\ j.target # None)
    <3>1. CASE j.table = "client"
      BY <1>7, <3>1 DEF Program, ClientRoutes
    <3>2. CASE j.table = "vehicle"
      <4>1. Program(j) = VehicleRoutes(j)
        BY <1>7, <3>2 DEF Program
      <4> QED
        BY <1>7, <4>1 DEF VehicleRoutes
    <3>3. CASE j.table = "service"
      BY <1>7, <3>3 DEF Program, ServiceTypeRoutes
    <3>4. CASE j.table = "part"
      BY <1>7, <3>4 DEF Program, PartRoutes
    <3> QED
      BY <1>1, <1>7, <3>1, <3>2, <3>3, <3>4, AskedExactly
  <2>2. CASE Program(j) = ListAll
    BY <1>7, <2>2 DEF ListAll
  <2>3. CASE Program(j) = ListVehiclesByClient /\ j.target # None
    BY <1>7, <2>3 DEF ListVehiclesByClient
  <2> QED
    BY <2>1, <2>2, <2>3
<1> QED
  BY <1>2, <1>3, <1>4, <1>5, <1>6, <1>7, AskedFits

-----------------------------------------------------------------------------
(***************************************************************************)
(* Each action is a move of the directory, or none                         *)
(***************************************************************************)
LEMMA IssueTokenMoves ==
  ASSUME Inductive, Effective, NEW r \in Requests, IssueToken(r)
  PROVE  Effective' /\ InDirectory
<1>1. PICK d \in Documents :
        /\ pc[r] = "idle" /\ job' = [job EXCEPT ![r] = [NoJob EXCEPT !.op = "token", !.by = d]]
        /\ IF d \in Cpfs /\ Registered(d)
             THEN pc' = [pc EXCEPT ![r] = "ok"] /\ tokens' = tokens \cup {d}
             ELSE pc' = [pc EXCEPT ![r] = "unauthorized"] /\ UNCHANGED tokens
        /\ UNCHANGED <<rows, held, done, contended>>
  BY Zenon DEF IssueToken
<1>2. PICK next \in {"ok", "unauthorized"} :
        pc' = [pc EXCEPT ![r] = next] /\ (next = "ok" <=> d \in Cpfs /\ Registered(d))
  BY <1>1
<1>3. /\ pc'[r] = next /\ next \notin Running /\ next \in Ended /\ r \notin done
      /\ \A q \in Requests \ {r} : pc'[q] = pc[q] /\ job'[q] = job[q] /\ held'[q] = held[q]
      /\ job'[r].op = "token" /\ job'[r].by = d
  BY <1>1, <1>2 DEF Inductive, TypeOK, Running, Ended, Effective, DoneIsPast, NoJob
<1>4. OneEditor' /\ EditionKnowsName(r)' /\ RowsAreFunction'
  BY <1>1, <1>3 DEF Effective, OneEditor, EditionKnowsName, RowsAreFunction, Running
<1>5. Effective'
  BY <1>1, <1>2, <1>3, <1>4, OthersEffective
<1>6. Outcome(r) = "idle" /\ (next = "ok" => Outcome(r)' = "done") /\ (next = "unauthorized" => Outcome(r)' = "unauthorized")
  BY <1>1, <1>3, <1>5, OutcomeOf, OutcomeOfNext DEF Effective
<1>7. Dir!Decide(r, "idle", Outcome(r)')
  BY <1>1, <1>2, <1>6, Decides
<1>10. Dir!Entitled(job'[r]) <=> d \in Cpfs /\ Registered(d)
  BY <1>3, IdsAssumption DEF Dir!Entitled, Dir!Taken, Registered, Taken, Keys
<1>8. CASE next = "ok"
  BY <1>1, <1>2, <1>3, <1>5, <1>6, <1>7, <1>8, <1>10 DEF Dir!Greet, Dir!Next, InDirectory
<1>9. CASE next = "unauthorized"
  BY <1>1, <1>2, <1>5, <1>6, <1>7, <1>9, <1>10 DEF Dir!TurnAway, Dir!Next, InDirectory
<1> QED
  BY <1>2, <1>8, <1>9

\* Where each program starts.
LEMMA StartsAt ==
  ASSUME NEW j \in Asked
  PROVE  /\ Program(j).do \in {"load", "reference", "list", "lookup", "insert"} \/ (Program(j).do = "ok" /\ j.op = "me")
         /\ j.op = "update" => Program(j).do = "load"
<1>1. j.op = "create" => Program(j).do \in {"reference", "lookup", "insert"}
  BY CreationWay
<1>2. j.op = "update" => Program(j).do = "load"
  BY EditionWay
<1>3. j.op = "delete" => Program(j).do = "load"
  BY DeletionWay
<1>4. j.op \in {"me", "get", "list"} => Program(j).do = "ok" \/ Program(j).do \in {"load", "reference", "list"}
  BY ReadingWay
<1>5. Program(j).do = "ok" => j.op = "me"
  BY WayExactly
<1> QED
  BY <1>1, <1>2, <1>3, <1>4, <1>5, AskedFits

\* A call that arrives, or is turned away by its token (get_current_user).
LEMMA CallMoves ==
  ASSUME Inductive, Effective, NEW r \in Requests, Call(r)
  PROVE  Effective' /\ InDirectory
<1>1. PICK j \in Calls, d \in Presented :
        /\ pc[r] = "idle" /\ job' = [job EXCEPT ![r] = [j EXCEPT !.by = d]]
        /\ \/ /\ Authenticated(d) /\ pc' = [pc EXCEPT ![r] = Program(j).do]
              /\ contended' = contended \cup SharedEdits(r, j)
           \/ /\ ~Authenticated(d) /\ pc' = [pc EXCEPT ![r] = "unauthorized"]
              /\ UNCHANGED contended
        /\ UNCHANGED <<rows, tokens, held, done>>
  BY DEF Call
<1> DEFINE k == [j EXCEPT !.by = d]
<1>2. k.op = j.op /\ k.table = j.table /\ k.target = j.target /\ k.by = d
  BY RegistryAssumption DEF Job
<1>3. job'[r] = k /\ (Authenticated(d) => k \in Asked)
  BY <1>1 DEF Inductive, TypeOK, Asked, Authenticated, Presented
<1>4. Program(k) = Program(j) /\ Edits(k) = Edits(j)
  BY <1>2, ProgramOfCopy DEF Edits
<1>5. PICK next : /\ pc' = [pc EXCEPT ![r] = next]
                  /\ \/ next = "unauthorized" /\ ~Authenticated(d)
                     \/ /\ Authenticated(d) /\ k \in Asked /\ next = Program(k).do
                        /\ contended' = contended \cup SharedEdits(r, j)
  BY <1>1, <1>3, <1>4
<1> HIDE DEF k
<1>6. \/ next = "unauthorized" /\ ~Authenticated(d)
      \/ /\ Authenticated(d) /\ contended' = contended \cup SharedEdits(r, j)
         /\ \/ next = "ok" /\ k.op = "me"
            \/ next \in {"load", "reference", "list", "lookup", "insert"} /\ (k.op = "update" => next = "load")
  BY <1>5, StartsAt
<1>7. /\ pc'[r] = next /\ next \in Running \cup Ended /\ r \notin done /\ contended \subseteq contended'
      /\ \A q \in Requests \ {r} : pc'[q] = pc[q] /\ job'[q] = job[q] /\ held'[q] = held[q]
  BY <1>1, <1>5, <1>6 DEF Running, Ended, Inductive, TypeOK, Effective, DoneIsPast
<1>8. EditionKnowsName(r)' /\ RowsAreFunction'
  <2>1. k.op = "update" => next \notin {"lookup", "reload", "save"}
    BY <1>6
  <2>2. Edits(k) # {} => k.op = "update"
    BY DEF Edits
  <2>3. EditionKnowsName(r)'
    BY <1>3, <1>7, <2>1, <2>2 DEF EditionKnowsName
  <2>4. RowsAreFunction'
    BY <1>1 DEF Effective, RowsAreFunction
  <2> QED
    BY <2>3, <2>4
<1>9. OneEditor'
  <2>1. ASSUME NEW q \in Requests \ {r}, pc'[q] \in Running, pc'[r] \in Running
        PROVE  Edits(job'[q]) \cap Edits(job'[r]) \subseteq contended'
    <3>1. contended' = contended \cup SharedEdits(r, j)
      BY <1>6, <1>7, <2>1 DEF Running
    <3> QED
      BY <1>3, <1>4, <1>7, <2>1, <3>1 DEF SharedEdits
  <2>2. ASSUME NEW p \in Requests \ {r}, NEW q \in Requests \ {r}, p # q, pc'[p] \in Running, pc'[q] \in Running
        PROVE  Edits(job'[p]) \cap Edits(job'[q]) \subseteq contended'
    BY <1>7, <2>2 DEF Effective, OneEditor
  <2> QED
    BY <2>1, <2>2 DEF OneEditor
<1>10. Effective'
  BY <1>1, <1>5, <1>6, <1>7, <1>8, <1>9, OthersEffective
<1>11. Outcome(r) = "idle" /\ Dir!Decide(r, "idle", Outcome(r)')
  BY <1>1, <1>5, <1>10, OutcomeOf, Decides DEF Effective
<1>14. Dir!Entitled(job'[r]) <=> Authenticated(d)
  <2>1. k.op # "token"
    BY <1>1, <1>2, RegistryAssumption
  <2> QED
    BY <1>2, <1>3, <2>1 DEF Dir!Entitled, Dir!Taken, Authenticated, Registered, Taken
<1>12. CASE next = "unauthorized"
  <2>1. Outcome(r)' = "unauthorized"
    BY <1>7, <1>10, <1>12, OutcomeOfNext DEF Effective
  <2>2. ~Dir!Entitled(job'[r])
    BY <1>6, <1>12, <1>14
  <2> QED
    BY <1>1, <1>10, <1>11, <2>1, <2>2 DEF Dir!TurnAway, Dir!Next, InDirectory
<1>13. CASE next # "unauthorized"
  <2>1. Dir!Entitled(job'[r])
    BY <1>6, <1>13, <1>14
  <2>2. CASE next = "ok" /\ k.op = "me"
    <3>1. Outcome(r)' = "done"
      BY <1>7, <1>10, <2>2, OutcomeOfNext DEF Effective
    <3> QED
      BY <1>1, <1>3, <1>10, <1>11, <2>1, <2>2, <3>1 DEF Dir!Greet, Dir!Next, InDirectory
  <2>3. CASE next \in {"load", "reference", "list", "lookup", "insert"}
    <3>1. Outcome(r)' = "pending"
      BY <1>1, <1>7, <1>10, <2>3, OutcomeOfNext DEF Effective, Running
    <3> QED
      BY <1>1, <1>10, <1>11, <2>1, <3>1 DEF Dir!Admit, Dir!Next, InDirectory
  <2> QED
    BY <1>6, <1>13, <2>2, <2>3
<1> QED
  BY <1>12, <1>13

\* A statement that ends the request without writing, or goes on to one that no edit of a
\* service type runs.
LEMMA QuietMoves ==
  ASSUME Inductive, Effective, NEW r \in Requests, NEW next \in (Running \cup Ended) \ {"refresh"},
         pc[r] \in Running, pc' = [pc EXCEPT ![r] = next],
         \A q \in Requests \ {r} : held'[q] = held[q],
         UNCHANGED <<rows, tokens, job, done, contended>>,
         pc[r] = "refresh" => next \in {"ok", "failed", "crashed"},
         next \in {"lookup", "reload", "save"} => job[r].op # "update"
  PROVE  Effective' /\ (next \in Running => InDirectory)
<1>1. Edits(job[r]) # {} => job[r].op = "update"
  BY DEF Edits
<1>2. pc'[r] = next /\ job'[r] = job[r]
  BY DEF Inductive, TypeOK
<1>3. EditionKnowsName(r)'
  BY <1>1, <1>2 DEF EditionKnowsName
<1>4. Effective'
  BY <1>3, QuietEffective
<1>5. next \in Running => pc[r] # "refresh"
  BY DEF Running
<1> QED
  BY <1>4, <1>5, OnTheWay

\* The statements that find the row a creation, a list or an opening refers to.
LEMMA FindReferenceMoves ==
  ASSUME Inductive, Effective, NEW r \in Requests, FindReference(r)
  PROVE  Effective' /\ InDirectory
<1> DEFINE j == job[r]
<1>1. pc[r] = "reference" /\ pc[r] \in Running /\ j \in Asked /\ pc[r] \in DOMAIN Program(j)
  BY StatementBelongs DEF FindReference, Running
<1>2. After(r) \in {"items", "lookup", "list"} /\ j.op \in {"create", "list"}
  BY <1>1, WayExactly DEF After
<1>3. CASE ~Has(rows, TargetTable(j), j.target) /\ Goto(r, "missing")
  <2>1. Effective'
    BY <1>1, <1>3, QuietMoves DEF Goto, Ended
  <2>2. j.target # None
    BY <1>1, WayExactly, AskedFits, IdsAssumption
  <2>3. Dir!Decide(r, "pending", "missing") /\ UNCHANGED <<rows, job>>
    BY <1>1, <1>3, <2>1, Decided DEF Goto
  <2> QED
    BY <1>3, <2>1, <2>2, <2>3, SaidMissing
<1>4. CASE Carry(r, rows[j.target].client, After(r))
  <2>1. \A q \in Requests \ {r} : held'[q] = held[q]
    BY <1>4 DEF Carry, Inductive, TypeOK
  <2>2. After(r) \in Running \ {"refresh"}
    BY <1>2 DEF Running
  <2> QED
    BY <1>1, <1>2, <1>4, <2>1, <2>2, QuietMoves DEF Carry
<1> QED
  BY <1>3, <1>4 DEF FindReference

\* The order's service type is looked up (CreateServiceOrderUseCase).
LEMMA FindItemMoves ==
  ASSUME Inductive, Effective, NEW r \in Requests, FindItem(r)
  PROVE  Effective' /\ InDirectory
<1> DEFINE j == job[r]
<1>1. pc[r] = "items" /\ pc[r] \in Running /\ j \in Asked /\ pc[r] \in DOMAIN Program(j)
  BY StatementBelongs DEF FindItem, Running
<1>2. After(r) = "insert" /\ After(r) \in Running
  BY <1>1, WayExactly DEF After, Running
<1>3. CASE ~(j.item = None \/ Has(rows, "service", j.item)) /\ Goto(r, "missing")
  <2>1. Effective'
    BY <1>1, <1>3, QuietMoves DEF Goto, Ended
  <2>2. Dir!Decide(r, "pending", "missing") /\ UNCHANGED <<rows, job>>
    BY <1>1, <1>3, <2>1, Decided DEF Goto
  <2> QED
    BY <1>3, <2>1, <2>2, SaidMissing
<1>4. CASE Goto(r, After(r))
  BY <1>1, <1>2, <1>4, QuietMoves DEF Goto
<1> QED
  BY <1>3, <1>4 DEF FindItem

\* The look-up of a key: what it finds is a conflict at that moment, since an edit looks a
\* name up that its own row does not have.
LEMMA LookUpKeyMoves ==
  ASSUME Inductive, Effective, NEW r \in Requests, LookUpKey(r)
  PROVE  Effective' /\ (contended' = {} => InDirectory)
<1> DEFINE j == job[r]
<1>1. pc[r] = "lookup" /\ pc[r] \in Running /\ j \in Asked /\ pc[r] \in DOMAIN Program(j) /\ j.op \in {"create", "update"}
  BY StatementBelongs DEF LookUpKey, Running
<1>2. j.op = "update" => /\ j.table = "service" /\ After(r) = "reload" /\ Edits(j) = {j.target}
                         /\ Found(j.target, "service")
  <2> SUFFICES ASSUME j.op = "update"
               PROVE  /\ j.table = "service" /\ After(r) = "reload" /\ Edits(j) = {j.target}
                      /\ Found(j.target, "service")
    OBVIOUS
  <2>1. j.table = "service" /\ After(r) = "reload"
    BY <1>1, EditionWay DEF After
  <2> QED
    BY <1>1, <2>1 DEF Edits, Inductive, EditionFoundRow
<1>3. j.op = "create" => After(r) = "insert" /\ j.key # None
  BY <1>1, WayExactly, AskedExactly, IdsAssumption DEF After
<1>4. j.op = "update" => /\ j.key # None
                         /\ j.target \in DOMAIN rows \ contended => held[r] = j.key /\ rows[j.target].key # j.key
  BY <1>1, <1>2 DEF Effective, EditionKnowsName
<1>5. CASE Taken(rows, j.table, j.key) /\ Goto(r, "conflict")
  <2>1. Effective'
    BY <1>1, <1>5, QuietMoves DEF Goto, Ended
  <2>2. Dir!Decide(r, "pending", "conflict") /\ UNCHANGED <<rows, job, contended>>
    BY <1>1, <1>5, <2>1, Decided DEF Goto
  <2>3. ASSUME contended' = {}
        PROVE  InDirectory
    <3>1. PICK q \in DOMAIN rows : rows[q].table = j.table /\ rows[q].key = j.key
      BY <1>5 DEF Taken
    <3>2. CASE j.op = "create"
      <4>1. r \notin DOMAIN rows
        BY <1>1 DEF Inductive, RowsWereInserted, Past, Ended
      <4> QED
        BY <1>3, <2>2, <3>1, <3>2, <4>1, SaidConflict
    <3>3. CASE j.op = "update"
      BY <1>4, <2>2, <2>3, <3>1, <3>3, SaidConflict
    <3> QED
      BY <1>1, <3>2, <3>3
  <2> QED
    BY <2>1, <2>3
<1>6. CASE Goto(r, After(r)) /\ j.op = "create"
  BY <1>1, <1>3, <1>6, QuietMoves DEF Goto, Running
<1>7. CASE Goto(r, After(r)) /\ j.op = "update"
  <2>1. pc' = [pc EXCEPT ![r] = "reload"] /\ pc'[r] = "reload" /\ "reload" \in Running
        /\ UNCHANGED <<rows, job, held, tokens, done, contended>>
    BY <1>2, <1>7 DEF Goto, Inductive, TypeOK, Running
  <2>2. EditionKnowsName(r)'
    BY <1>2, <1>4, <1>7, <2>1 DEF EditionKnowsName
  <2>3. Effective'
    BY <1>1, <2>1, <2>2, QuietEffective
  <2> QED
    BY <1>1, <2>1, <2>3, OnTheWay
<1> QED
  BY <1>1, <1>5, <1>6, <1>7 DEF LookUpKey

\* The row is read again for the answer: the request was decided at its commit.
LEMMA RefreshMoves ==
  ASSUME Inductive, Effective, NEW r \in Requests, Refresh(r)
  PROVE  Effective' /\ InDirectory
<1>1. pc[r] = "refresh" /\ pc[r] \in Running /\ r \in done
  BY DEF Refresh, Running, Effective, DoneIsPast
<1>2. job[r].op \in {"create", "update"} /\ After(r) = "ok"
  BY <1>1, StatementBelongs, CreationWay, EditionWay DEF After
<1>3. PICK next \in {"ok", "failed"} : Goto(r, next)
  BY <1>2 DEF Refresh
<1>4. Effective'
  BY <1>1, <1>3, QuietMoves DEF Goto, Ended
<1>5. Outcome(r) = "done" /\ Outcome(r)' = "done"
  BY <1>1, <1>3, <1>4, OutcomeOf, OutcomeOfNext DEF Goto, Effective
<1>6. job' = [job EXCEPT ![r] = job[r]]
  BY <1>3 DEF Goto, Inductive, TypeOK
<1> QED
  BY <1>3, <1>4, <1>5, <1>6, Decides DEF Goto, InDirectory

\* A list answers (list of each repository).
LEMMA ListMoves ==
  ASSUME Inductive, Effective, NEW r \in Requests, List(r)
  PROVE  Effective' /\ InDirectory
<1>1. pc[r] = "list" /\ pc[r] \in Running /\ Goto(r, "ok") /\ job[r].op = "list"
  BY StatementBelongs, WayExactly DEF List, Running, After
<1>2. Effective'
  BY <1>1, QuietMoves DEF Goto, Ended
<1>3. Dir!Decide(r, "pending", "done") /\ UNCHANGED <<rows, job>>
  BY <1>1, <1>2, Decided DEF Goto
<1> QED
  BY <1>1, <1>2, <1>3, CarriedOut DEF Dir!Read

\* A request that ends before its commit is lost; after it, it was decided.
LEMMA FailureMoves ==
  ASSUME Inductive, Effective, NEW r \in Requests, NEW next \in {"failed", "crashed"}, pc[r] \in Running, Goto(r, next)
  PROVE  Effective' /\ InDirectory
<1>1. Effective'
  BY QuietMoves DEF Goto, Ended
<1>2. CASE pc[r] # "refresh"
  BY <1>1, <1>2, Lost
<1>3. CASE pc[r] = "refresh"
  <2>1. Outcome(r) = "done" /\ Outcome(r)' = "done"
    BY <1>1, <1>3, OutcomeOf, OutcomeOfNext DEF Goto, Effective, DoneIsPast
  <2>2. job' = [job EXCEPT ![r] = job[r]]
    BY DEF Goto, Inductive, TypeOK
  <2> QED
    BY <1>1, <2>1, <2>2, Decides DEF Goto, InDirectory
<1> QED
  BY <1>2, <1>3

\* The rows below the one to delete: nothing the directory sees yet.
LEMMA EraseMoves ==
  ASSUME Inductive, Effective, NEW r \in Requests, Erase(r)
  PROVE  Effective' /\ InDirectory
<1>1. pc[r] = "erase" /\ pc[r] \in Running
  BY DEF Erase, Running
<1>2. After(r) = "remove" /\ After(r) \in Running
  BY <1>1, StatementBelongs, DeletionWay DEF After, Running
<1>3. CASE Goto(r, "failed")
  BY <1>1, <1>3, FailureMoves
<1>4. CASE Goto(r, After(r))
  BY <1>1, <1>2, <1>4, QuietMoves DEF Goto
<1> QED
  BY <1>3, <1>4 DEF Erase

\* The row is found, or the request ends as missing.
LEMMA LoadMoves ==
  ASSUME Inductive, Effective, NEW r \in Requests, Load(r)
  PROVE  Effective' /\ InDirectory
<1> DEFINE j == job[r]
<1>1. pc[r] = "load" /\ pc[r] \in Running /\ j \in Asked /\ pc[r] \in DOMAIN Program(j)
      /\ j.op \in {"update", "delete", "me", "get", "list"}
  BY StatementBelongs DEF Load, Running
<1>2. CASE ~Has(rows, j.table, j.target) /\ Goto(r, "missing")
  <2>1. Effective'
    BY <1>1, <1>2, QuietMoves DEF Goto, Ended
  <2>2. j.op \in {"update", "delete", "get"}
    BY <1>1, WayExactly
  <2>3. j.target # None /\ TargetTable(j) = j.table
    BY <1>1, <2>2, AskedFits, IdsAssumption DEF TargetTable
  <2>4. Dir!Decide(r, "pending", "missing") /\ UNCHANGED <<rows, job>>
    BY <1>1, <1>2, <2>1, Decided DEF Goto
  <2> QED
    BY <1>2, <2>1, <2>3, <2>4, SaidMissing
<1>3. CASE Has(rows, j.table, j.target) /\ j.op = "get" /\ Goto(r, After(r))
  <2>1. After(r) = "ok"
    BY <1>1, <1>3, WayExactly DEF After, GetOne
  <2>2. Effective'
    BY <1>1, <1>3, <2>1, QuietMoves DEF Goto, Ended
  <2>3. Dir!Decide(r, "pending", "done") /\ UNCHANGED <<rows, job>>
    BY <1>1, <1>3, <2>1, <2>2, Decided DEF Goto
  <2>4. Dir!Read(r)
    BY <1>3, <2>3 DEF Dir!Read, Dir!Has, Has
  <2> QED
    BY <2>2, <2>3, <2>4, CarriedOut
<1>4. CASE j.op = "delete" /\ Goto(r, After(r))
  <2>1. After(r) = "reload" /\ After(r) \in Running
    BY <1>1, <1>4, DeletionWay DEF After, Running
  <2> QED
    BY <1>1, <1>4, <2>1, QuietMoves DEF Goto
<1>5. CASE j.op = "update" /\ j.table # "service" /\ Goto(r, After(r))
  <2>1. After(r) = "reload" /\ After(r) \in Running /\ Edits(j) = {}
    BY <1>1, <1>5, EditionWay DEF After, Running, Edits
  <2>2. EditionKnowsName(r)'
    BY <1>5, <2>1 DEF EditionKnowsName, Goto
  <2>3. Effective'
    BY <1>1, <1>5, <2>1, <2>2, QuietEffective DEF Goto
  <2> QED
    BY <1>1, <1>5, <2>1, <2>3, OnTheWay DEF Goto
<1>6. CASE j.op = "update" /\ j.table = "service" /\ RenameFound(r, rows[j.target].key)
  <2>1. PICK v, next :
          /\ next \in {"lookup", "reload"} /\ Carry(r, v, next)
          /\ next = "lookup" => j.key # None /\ v = j.key /\ rows[j.target].key # j.key
          /\ next = "reload" => v = IF j.key = None THEN rows[j.target].key ELSE j.key
    BY <1>6 DEF RenameFound
  <2>2. /\ pc'[r] = next /\ held'[r] = v /\ UNCHANGED <<rows, job, tokens, done, contended>> /\ next \in Running
        /\ pc' = [pc EXCEPT ![r] = next]
        /\ \A q \in Requests \ {r} : held'[q] = held[q]
    BY <2>1 DEF Carry, Inductive, TypeOK, Running
  <2>3. EditionKnowsName(r)'
    BY <2>1, <2>2 DEF EditionKnowsName
  <2>4. Effective'
    BY <1>1, <2>1, <2>2, <2>3, QuietEffective
  <2> QED
    BY <1>1, <2>1, <2>2, <2>4, OnTheWay
<1> QED
  BY <1>2, <1>3, <1>4, <1>5, <1>6 DEF Load

-----------------------------------------------------------------------------
\* The second SELECT: a deletion that finds nothing was carried out by another request.
LEMMA ReloadMoves ==
  ASSUME Inductive, Effective, NEW r \in Requests, Reload(r)
  PROVE  Effective' /\ InDirectory
<1> DEFINE j == job[r]
           t == job[r].target
<1>1. pc[r] = "reload" /\ pc[r] \in Running /\ j \in Asked /\ pc[r] \in DOMAIN Program(j) /\ j.op \in {"update", "delete"}
  BY StatementBelongs DEF Reload, Running
<1>2. CASE j.op = "delete" /\ Has(rows, j.table, t) /\ Goto(r, After(r))
  <2>1. After(r) \in {"erase", "remove"} /\ After(r) \in Running
    BY <1>1, <1>2, DeletionWay DEF After, Running
  <2> QED
    BY <1>1, <1>2, <2>1, QuietMoves DEF Goto
<1>3. CASE j.op = "delete" /\ ~Has(rows, j.table, t) /\ Goto(r, "ok")
  <2>1. t \notin DOMAIN rows
    BY <1>1, <1>3 DEF Inductive, DeletionFoundRow, Found, Has
  <2>2. Effective'
    BY <1>1, <1>3, QuietMoves DEF Goto, Ended
  <2>3. Dir!Decide(r, "pending", "done") /\ UNCHANGED <<rows, job>>
    BY <1>1, <1>3, <2>2, Decided DEF Goto
  <2>4. ~Dir!Referred(rows, t)
    <3>1. \A i \in DOMAIN rows : t \notin Refs(rows[i])
      BY <2>1 DEF Inductive, RegistryConsistent, Consistent, NoDanglingReference
    <3> QED
      BY <3>1 DEF Dir!Referred, Dir!Refs, Refs
  <2>5. rows' = Dir!Without(rows, t)
    BY <2>1, <2>3 DEF Dir!Without, Effective, RowsAreFunction
  <2> QED
    BY <1>3, <2>1, <2>2, <2>3, <2>4, <2>5, CarriedOut DEF Dir!Remove
<1>4. CASE j.op = "update" /\ ~Has(rows, j.table, t) /\ Goto(r, "failed")
  BY <1>1, <1>4, FailureMoves
<1>5. CASE /\ j.op = "update" /\ Has(rows, j.table, t)
           /\ Carry(r, IF held[r] = rows[t].key THEN None ELSE held[r], After(r))
  <2>1. After(r) = "save" /\ After(r) \in Running
    BY <1>1, <1>5, EditionWay DEF After, Running
  <2>2. /\ pc' = [pc EXCEPT ![r] = "save"] /\ pc'[r] = "save" /\ UNCHANGED <<rows, job, tokens, done, contended>>
        /\ held'[r] = IF held[r] = rows[t].key THEN None ELSE held[r]
        /\ \A q \in Requests \ {r} : held'[q] = held[q]
    BY <1>5, <2>1 DEF Carry, Inductive, TypeOK
  <2>3. EditionKnowsName(r)
    BY DEF Effective
  <2>4. EditionKnowsName(r)'
    BY <1>1, <2>2, <2>3 DEF EditionKnowsName
  <2>5. Effective'
    BY <1>1, <2>1, <2>2, <2>4, QuietEffective
  <2> QED
    BY <1>1, <2>1, <2>2, <2>5, OnTheWay
<1> QED
  BY <1>1, <1>2, <1>3, <1>4, <1>5 DEF Reload

\* A commit of r touches the key of no row but the one it edits.
LEMMA CommitEffective ==
  ASSUME Inductive, Effective, NEW r \in Requests, pc[r] \in {"insert", "save", "remove"}, NEW new,
         NEW next \in {"refresh", "ok"}, Commit(r, new, next), new = [i \in DOMAIN new |-> new[i]],
         \A i \in DOMAIN new :
           \/ i = r /\ pc[r] = "insert"
           \/ i \in DOMAIN rows /\ new[i].key = rows[i].key
           \/ i \in DOMAIN rows /\ i \in Edits(job[r])
  PROVE  Effective' /\ Dir!Decide(r, "pending", "done") /\ UNCHANGED job
<1>1. /\ pc'[r] = next /\ pc' = [pc EXCEPT ![r] = next] /\ rows' = new /\ UNCHANGED <<job, held, contended>>
      /\ done' = done \cup {r} /\ pc[r] \in Running /\ next \in Running \cup Ended
      /\ \A q \in Requests \ {r} : pc'[q] = pc[q]
  BY DEF Commit, Inductive, TypeOK, Running, Ended
<1>2. OneEditor'
  BY <1>1 DEF Effective, OneEditor
<1>3. EditionKnowsName(r)' /\ RowsAreFunction'
  BY <1>1 DEF EditionKnowsName, RowsAreFunction
<1>4. Effective'
  BY <1>1, <1>2, <1>3, OthersEffective
<1>5. Dir!Decide(r, "pending", "done")
  BY <1>1, <1>4, Decided
<1> QED
  BY <1>1, <1>4, <1>5

\* The delete commits, or the database refuses it for the rows that refer to the row.
LEMMA RemoveMoves ==
  ASSUME Inductive, Effective, NEW r \in Requests, Remove(r)
  PROVE  Effective' /\ InDirectory
<1> DEFINE t == job[r].target
           new == Without(rows, t)
<1>1. pc[r] = "remove" /\ pc[r] \in Running
  BY DEF Remove, Running
<1>2. job[r].op = "delete" /\ After(r) = "ok" /\ Found(t, job[r].table)
  BY <1>1, StatementBelongs, DeletionWay DEF After, Inductive, DeletionFoundRow
<1>3. CASE Goto(r, "failed")
  BY <1>1, <1>3, FailureMoves
<1>4. CASE Deletable(t) /\ Commit(r, new, "ok")
  <2>1. new = [i \in DOMAIN new |-> new[i]] /\ \A i \in DOMAIN new : i \in DOMAIN rows /\ new[i].key = rows[i].key
    BY DEF Without
  <2>2. Effective' /\ Dir!Decide(r, "pending", "done") /\ UNCHANGED job
    <3> HIDE DEF new
    <3> QED
      BY <1>1, <1>4, <2>1, CommitEffective
  <2>3. Dir!Remove(r)
    BY <1>2, <1>4 DEF Dir!Remove, Dir!Referred, Dir!Refs, Dir!Without, Without, Deletable, Referred, Refs, Commit, Found
  <2> QED
    BY <2>2, <2>3, CarriedOut
<1> QED
  BY <1>2, <1>3, <1>4 DEF Remove

\* The edit commits what the session holds.
LEMMA SaveMoves ==
  ASSUME Inductive, Effective, NEW r \in Requests, Save(r)
  PROVE  Effective' /\ (contended' = {} => InDirectory)
<1> DEFINE t == job[r].target
           k == job[r].key
           new == IF held[r] = None THEN rows ELSE [rows EXCEPT ![t].key = held[r]]
<1>1. pc[r] = "save" /\ pc[r] \in Running
  BY DEF Save, Running
<1>2. job[r] \in Asked /\ job[r].op = "update" /\ After(r) = "refresh" /\ Found(t, job[r].table)
  BY <1>1, StatementBelongs, EditionWay DEF After, Inductive, EditionFoundRow
<1>3. CASE Goto(r, "failed")
  BY <1>1, <1>3, FailureMoves
<1>4. CASE t \in DOMAIN rows /\ MayHold(rows, job[r].table, t, held[r]) /\ Commit(r, new, "refresh")
  <2>1. held[r] = None \/ job[r].table = "service"
    BY <1>1, <1>2 DEF Inductive, EditionHoldsName
  <2>2. held[r] # None => Edits(job[r]) = {t}
    BY <1>2, <2>1 DEF Edits
  <2>3. rows = [i \in DOMAIN rows |-> rows[i]]
    BY DEF Effective, RowsAreFunction
  <2>4. DOMAIN new = DOMAIN rows /\ new = [i \in DOMAIN new |-> new[i]]
        /\ \A i \in DOMAIN new : new[i].key = rows[i].key \/ (held[r] # None /\ i = t)
    BY <2>3
  <2>5. Effective' /\ Dir!Decide(r, "pending", "done") /\ UNCHANGED job
    <3>1. \A i \in DOMAIN new : \/ i \in DOMAIN rows /\ new[i].key = rows[i].key
                                \/ i \in DOMAIN rows /\ i \in Edits(job[r])
      BY <2>2, <2>4
    <3> HIDE DEF new
    <3> QED
      BY <1>1, <1>4, <2>4, <3>1, CommitEffective
  <2>6. ASSUME contended' = {}
        PROVE  InDirectory
    <3>1. contended = {} /\ rows' = new
      BY <1>4, <2>6 DEF Commit
    <3>2. held[r] = k \/ (held[r] = None /\ rows[t].key = k)
      <4>1. CASE job[r].table = "service"
        <5>1. t \in Edits(job[r]) /\ EditionKnowsName(r)
          BY <1>2, <4>1 DEF Edits, Effective
        <5> QED
          BY <1>1, <1>4, <3>1, <5>1 DEF EditionKnowsName
      <4>2. CASE job[r].table # "service"
        BY <1>2, <2>1, <4>2, AskedExactly
      <4> QED
        BY <4>1, <4>2
    <3>3. rows[t].table = job[r].table
      BY <1>2, <1>4 DEF Found
    <3>4. Dir!MayHold(rows, job[r].table, t, k)
      <4>1. CASE held[r] = k
        BY <1>4, <4>1 DEF Dir!MayHold, MayHold
      <4>2. CASE rows[t].key = k /\ k # None
        <5>1. UniqueKeys(rows)
          BY DEF Inductive, RegistryConsistent, Consistent
        <5> QED
          BY <1>4, <3>3, <4>2, <5>1 DEF Dir!MayHold, UniqueKeys
      <4>3. CASE k = None
        BY <4>3 DEF Dir!MayHold
      <4> QED
        BY <3>2, <4>1, <4>2, <4>3
    <3>5. new = IF k = None THEN rows ELSE [rows EXCEPT ![t].key = k]
      <4>1. CASE held[r] = k
        BY <4>1
      <4>2. CASE held[r] = None /\ rows[t].key = k /\ k # None
        <5>1. rows[t] \in Row
          BY <1>4 DEF Inductive, TypeOK
        <5>2. [rows[t] EXCEPT !.key = k] = rows[t]
          BY <4>2, <5>1 DEF Row, ClientRow, VehicleRow, ServiceTypeRow, PartRow, OrderRow
        <5>3. [rows EXCEPT ![t].key = k] = rows
          BY <1>4, <2>3, <5>2
        <5> QED
          BY <4>2, <5>3
      <4> QED
        BY <3>2, <4>1, <4>2
    <3>6. Dir!Rename(r)
      <4> HIDE DEF new
      <4> QED
        BY <1>2, <1>4, <3>1, <3>3, <3>4, <3>5 DEF Dir!Rename, Dir!Has
    <3> QED
      BY <2>5, <3>6, CarriedOut
  <2> QED
    BY <2>5, <2>6
<1> QED
  BY <1>2, <1>3, <1>4 DEF Save

\* What an INSERT writes, as the directory has it.
LEMMA NewRowIs ==
  ASSUME NEW r \in Requests, job[r] \in Asked, job[r].op = "create", NEW owner,
         job[r].table = "order" => owner = held[r]
  PROVE  NewRow(r) = [table   |-> job[r].table, key |-> job[r].key, item |-> job[r].item,
                      client  |-> CASE job[r].table = "vehicle" -> job[r].target
                                    [] job[r].table = "order"   -> owner
                                    [] OTHER                    -> None,
                      vehicle |-> IF job[r].table = "order" THEN job[r].target ELSE None]
<1> DEFINE j == job[r]
<1>1. /\ j.table \in {"client", "vehicle", "service", "part", "order"}
      /\ j.table \in {"order", "part"} => j.key = None
      /\ j.table # "order" => j.item = None
  BY AskedExactly
<1>2. CASE j.table = "client"
  <2>1. NewRow(r) = NewClient(j)
    BY <1>2 DEF NewRow
  <2> QED
    BY <1>1, <1>2, <2>1 DEF NewClient
<1>3. CASE j.table = "vehicle"
  <2>1. NewRow(r) = NewVehicle(j)
    BY <1>3 DEF NewRow
  <2> QED
    BY <1>1, <1>3, <2>1 DEF NewVehicle
<1>4. CASE j.table = "service"
  <2>1. NewRow(r) = NewServiceType(j)
    BY <1>4 DEF NewRow
  <2> QED
    BY <1>1, <1>4, <2>1 DEF NewServiceType
<1>5. CASE j.table = "part"
  <2>1. NewRow(r) = NewPart(j)
    BY <1>5 DEF NewRow
  <2> QED
    BY <1>1, <1>5, <2>1 DEF NewPart
<1>6. CASE j.table = "order"
  <2>1. NewRow(r) = NewOrder(j, held[r])
    BY <1>6 DEF NewRow
  <2> QED
    BY <1>1, <1>6, <2>1 DEF NewOrder
<1> QED
  BY <1>1, <1>2, <1>3, <1>4, <1>5, <1>6

\* The INSERT: the vehicle that an opening found is still there, or the foreign key
\* refuses, and its owner is the one that was read.
LEMMA InsertMoves ==
  ASSUME Inductive, Effective, NEW r \in Requests, Insert(r)
  PROVE  Effective' /\ InDirectory
<1> DEFINE j == job[r]
           w == NewRow(r)
           new == With(rows, r, w)
<1>1. pc[r] = "insert" /\ pc[r] \in Running
  BY DEF Insert, Running
<1>2. j \in Asked /\ j.op = "create" /\ After(r) = "refresh"
  BY <1>1, StatementBelongs, CreationWay DEF After
<1>3. r \notin DOMAIN rows
  BY <1>1 DEF Inductive, RowsWereInserted, Past, Ended
<1>4. CASE Goto(r, "failed")
  BY <1>1, <1>4, FailureMoves
<1>5. CASE Accepted(r, w) /\ Commit(r, new, "refresh")
  <2>1. new = [i \in DOMAIN new |-> new[i]]
        /\ \A i \in DOMAIN new : i = r \/ (i \in DOMAIN rows /\ new[i].key = rows[i].key)
    BY DEF With
  <2>2. Effective' /\ Dir!Decide(r, "pending", "done") /\ UNCHANGED job
    <3> HIDE DEF new
    <3> QED
      BY <1>1, <1>5, <2>1, CommitEffective
  <2>3. j.table = "order" => /\ j.target \in DOMAIN rows /\ rows[j.target].table = "vehicle"
                             /\ rows[j.target].client = held[r]
    <3> SUFFICES ASSUME j.table = "order"
                 PROVE  /\ j.target \in DOMAIN rows /\ rows[j.target].table = "vehicle"
                        /\ rows[j.target].client = held[r]
      OBVIOUS
    <3>1. w \in Row /\ w.table = "order" /\ w.vehicle = j.target
      <4>1. w = NewOrder(j, held[r])
        BY DEF NewRow
      <4> QED
        BY <1>1, <4>1, NewRowType DEF NewOrder
    <3>2. j.target \in DOMAIN rows
      BY <1>5, <3>1, OrderRefs DEF Accepted
    <3> QED
      BY <1>1, <1>2, <3>2 DEF Inductive, OpeningKnowsOwner, Found
  <2>4. PICK owner : owner = Dir!Owner(j.target)
    OBVIOUS
  <2>5. w = [table   |-> j.table, key |-> j.key, item |-> j.item,
             client  |-> CASE j.table = "vehicle" -> j.target
                           [] j.table = "order"   -> owner
                           [] OTHER               -> None,
             vehicle |-> IF j.table = "order" THEN j.target ELSE None]
    <3>1. j.table = "order" => owner = held[r]
      BY <2>3, <2>4 DEF Dir!Owner
    <3> QED
      BY <1>2, <3>1, NewRowIs
  <2>6. w.table = j.table /\ w.key = j.key
    BY <2>5
  <2> HIDE DEF w
  <2>7. Dir!Refs(w) \subseteq DOMAIN rows /\ Dir!MayHold(rows, j.table, r, j.key)
    BY <1>5, <2>6 DEF Accepted, Refs, MayHold, Dir!Refs, Dir!MayHold
  <2>8. rows' = Dir!With(rows, r, w)
    BY <1>5 DEF Commit, With, Dir!With
  <2>9. j.table = "order" => Dir!Has(rows, "vehicle", j.target)
    BY <2>3 DEF Dir!Has
  <2>10. Dir!Create(r)
    BY <1>2, <1>3, <2>4, <2>5, <2>7, <2>8, <2>9 DEF Dir!Create
  <2> QED
    BY <2>2, <2>10, CarriedOut
<1> QED
  BY <1>2, <1>4, <1>5 DEF Insert

-----------------------------------------------------------------------------
\* The start of the one is a start of the other.
LEMMA InitEffective == Init => Effective /\ Dir!Init
<1> SUFFICES ASSUME Init
             PROVE  Effective /\ Dir!Init
  OBVIOUS
<1>1. Consistent(rows) /\ RowsAreFunction
  BY RegistryAssumption DEF Init, RowsAreFunction
<1>2. DoneIsPast /\ OneEditor /\ \A r \in Requests : EditionKnowsName(r)
  BY DEF Init, DoneIsPast, OneEditor, EditionKnowsName, Running
<1>3. \A r \in Requests : Outcome(r) = "idle"
  BY <1>2, OutcomeOf DEF Init
<1>4. Dir!Consistent(rows)
  BY <1>1 DEF Dir!Consistent, Dir!UniqueKeys, Dir!NoDanglingReference, Dir!OwnersAgree, Dir!Refs, Dir!Has,
              Consistent, UniqueKeys, NoDanglingReference, OwnersAgree, Refs, Has
<1> QED
  BY <1>1, <1>2, <1>3, <1>4 DEF Effective, Dir!Init

\* Every step is one of the directory, or none, while no service type is contended.
LEMMA DirectoryStep ==
  ASSUME Inductive, Effective, [Next]_vars
  PROVE  Effective' /\ (contended' = {} => InDirectory)
<1>1. CASE UNCHANGED vars
  <2>1. Effective'
    BY <1>1 DEF vars, Effective, DoneIsPast, OneEditor, EditionKnowsName, RowsAreFunction
  <2>2. UNCHANGED Dir!directory
    <3>1. \A r \in Requests : Outcome(r)' = Outcome(r)
      BY <1>1 DEF vars, Outcome
    <3> QED
      BY <1>1, <3>1 DEF vars, Dir!directory
  <2> QED
    BY <2>1, <2>2 DEF InDirectory
<1>2. ASSUME NEW r \in Requests, Step(r)
      PROVE  Effective' /\ (contended' = {} => InDirectory)
  BY <1>2, FindReferenceMoves, FindItemMoves, LookUpKeyMoves, InsertMoves, RefreshMoves, LoadMoves, ListMoves,
     ReloadMoves, SaveMoves, EraseMoves, RemoveMoves DEF Step
<1>3. ASSUME NEW r \in Requests, IssueToken(r) \/ Call(r) \/ Crash(r)
      PROVE  Effective' /\ InDirectory
  BY <1>3, IssueTokenMoves, CallMoves, FailureMoves DEF Crash
<1> QED
  BY <1>1, <1>2, <1>3 DEF Next, AllEnded

\* Until two edits of one service type overlap, every request of the registry takes
\* effect at one moment between its arrival and its answer, and is answered as that
\* moment demands, for any number of requests and rows, whatever crashes.
THEOREM RequestsAreAtomic == Spec => ImplementsDirectory
<1> DEFINE Kept == contended' = {} => Dir!Next \/ UNCHANGED Dir!directory
<1>1. Spec => Dir!Init
  BY InitEffective DEF Spec
<1>2. Inductive /\ Effective /\ [Next]_vars => Effective' /\ Kept
  BY DirectoryStep DEF InDirectory
<1>3. Init => Effective
  BY InitEffective
<1>4. Spec => []Effective
  BY <1>2, <1>3, InductiveHolds, PTL DEF Spec
<1>5. Inductive /\ Effective /\ [Next]_vars => [Kept]_vars
  BY <1>2
<1>6. Spec => [][Kept]_vars
  BY <1>4, <1>5, InductiveHolds, PTL DEF Spec
<1> QED
  BY <1>1, <1>6 DEF ImplementsDirectory
=============================================================================
