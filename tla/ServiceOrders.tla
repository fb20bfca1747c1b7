---------------------------- MODULE ServiceOrders ----------------------------
(***************************************************************************)
(* The core of the workshop API: HTTP requests that open service orders,   *)
(* advance them, decide their budgets and maintain the parts in stock, run *)
(* by any number of replicas over one PostgreSQL database.                 *)
(*                                                                         *)
(* A request is a member of Requests and runs one handler once.  Its       *)
(* handler advances one database statement at a time, because an await on  *)
(* the database is where the event loop, or another replica, may run       *)
(* another request.  PostgreSQL runs at READ COMMITTED: a SELECT sees what *)
(* is committed at that instant plus what its own transaction wrote.       *)
(*                                                                         *)
(* The ORM writes the stock as an ABSOLUTE value computed from the value   *)
(* it read, never as `stock - n'.  The assignment stays in the session     *)
(* (dirty) until the next SELECT of the session flushes it; the flushed    *)
(* UPDATE holds the row's lock until the transaction ends.                 *)
(***************************************************************************)
EXTENDS ServiceOrderStatus, Integers, Sequences, FiniteSets, FiniteSetsExt

CONSTANTS
  Requests,         \* the HTTP requests of a behaviour
  Existing,         \* the orders opened before the behaviour starts
  Parts,            \* the parts of the catalogue
  Days,             \* the dates a replica's clock may show when it numbers an order
  None,             \* "no value": an unset column, a free lock
  Past,             \* the mark of an instant before the behaviour starts
  Operations,       \* the handlers the requests may call
  OpenLines,        \* the part lines an opening may ask for
  Deltas,           \* the quantities a stock adjustment may carry
  InitialStatuses,  \* the statuses the existing orders may start in
  InitialStock,     \* the stock of each part at the start
  ExistingLines,    \* the part lines of each existing order
  ExistingNumber,   \* the number of each existing order
  StockChecked      \* whether the schema has CHECK (stock_quantity >= 0)

OrderIds == Requests \cup Existing   \* request r opens order r
Line     == [part : Parts, qty : Int]
Numbers  == [day : Days, seq : Nat]
Marks    == Requests \cup {None, Past}

AllOperations == {"open", "update", "approve", "adjust", "edit", "delete"}

ASSUME RequestsAssumption ==
  /\ IsFiniteSet(Requests) /\ IsFiniteSet(Existing)
  /\ Requests \cap Existing = {}
  /\ None \notin Requests \cup Existing \cup Int \cup Numbers \cup {Past}
  /\ None \notin Statuses \cup [part : Parts, value : Int]
  /\ Parts \cap OrderIds = {}

ASSUME InputsAssumption ==
  /\ Operations \subseteq AllOperations
  /\ OpenLines \subseteq Seq(Line)
  /\ Deltas \subseteq Int
  /\ InitialStatuses \subseteq Statuses
  /\ InitialStock \in [Parts -> Int]
  /\ ExistingLines \in [Existing -> Seq(Line)]
  /\ StockChecked \in BOOLEAN

\* The existing orders were numbered by this program: no suffix is above their count.
ASSUME NumbersAssumption ==
  /\ ExistingNumber \in [Existing -> Numbers]
  /\ \A o \in Existing : ExistingNumber[o].seq <= Cardinality(Existing)

VARIABLES
  opened,     \* DB: the ids of the orders committed
  row,        \* DB: the mutable columns of each order
  stock,      \* DB: the committed stock_quantity of each part
  live,       \* DB: the parts whose row exists
  lock,       \* DB: the request whose transaction holds each part row's lock
  pc,         \* where each request's handler is, or how it ended
  job,        \* what each request asked for
  number,     \* the number each opening computed for its order
  session,    \* each request's handler locals and ORM session
  notices,    \* the requests whose notification was handed to the channel
  counted,    \* the requests counted by each business metric
  contended,  \* history: parts and orders that overlapping requests shared
  seen,       \* history: the statuses each order ever had
  committed   \* history: the requests whose transaction committed

database == <<opened, row, stock, live>>
history  == <<contended, seen, committed>>
effects  == <<notices, counted>>
vars == <<database, lock, pc, job, number, session, effects, history>>

-----------------------------------------------------------------------------
(***************************************************************************)
(* Requests, sessions and rows                                             *)
(***************************************************************************)
Job(op, order, target, lines) ==
  [op |-> op, order |-> order, target |-> target, lines |-> lines]

Jobs == [op : AllOperations \cup {"none"}, order : OrderIds \cup {None},
         target : Statuses, lines : Seq(Line)]

NoJob == Job("none", None, "RECEBIDA", <<>>)

NewRow == [status |-> "RECEBIDA", started |-> None, completed |-> None, delivered |-> None]

\* The row of an order that the requests of the past took to status s, one at a time.
RowAt(s) ==
  [status    |-> s,
   started   |-> IF s \in {"EM_EXECUCAO", "FINALIZADA", "ENTREGUE"} THEN Past ELSE None,
   completed |-> IF s \in {"FINALIZADA", "ENTREGUE"} THEN Past ELSE None,
   delivered |-> IF s = "ENTREGUE" THEN Past ELSE None]

Flags   == [status : BOOLEAN, started : BOOLEAN, completed : BOOLEAN, delivered : BOOLEAN]
NoFlags == [status |-> FALSE, started |-> FALSE, completed |-> FALSE, delivered |-> FALSE]

Sessions ==
  [line    : Nat \ {0},                                      \* next part line of the loop
   held    : Int,                                            \* stock of the loaded Part entity
   entity  : Row(Marks),                                     \* the loaded ServiceOrder entity
   changed : Flags,                                          \* its columns the ORM will write
   dirty   : [part : Parts, value : Int] \cup {None},        \* the assignment not flushed yet
   flushed : [Parts -> Int \cup {None}]]                     \* this transaction's UPDATEs

NoSession == [line |-> 1, held |-> 0, entity |-> NewRow, changed |-> NoFlags,
              dirty |-> None, flushed |-> [p \in Parts |-> None]]

Reading  == {"check", "take", "return", "reloadOrder", "saveOrder",
             "reloadPart", "savePart", "reloadDelete", "erase"}   \* before the commit
Replying == {"respond", "notify", "refresh"}                      \* after it
Ended    == {"ok", "rejected", "failed", "crashed"}

Lines(o)  == IF o \in Requests THEN job[o].lines ELSE ExistingLines[o]
Number(o) == IF o \in Requests THEN number[o] ELSE ExistingNumber[o]
PartsOf(lines) == {lines[i].part : i \in DOMAIN lines}

TypeOK ==
  /\ opened \in SUBSET OrderIds
  /\ row \in [OrderIds -> Row(Marks)]
  /\ stock \in [Parts -> Int]
  /\ live \in SUBSET Parts
  /\ lock \in [Parts -> Requests \cup {None}]
  /\ pc \in [Requests -> {"idle"} \cup Reading \cup Replying \cup Ended]
  /\ job \in [Requests -> Jobs]
  /\ number \in [Requests -> Numbers \cup {None}]
  /\ session \in [Requests -> Sessions]
  /\ notices \in SUBSET Requests
  /\ counted \in [{"opened", "transition", "approval", "duration"} -> SUBSET Requests]
  /\ contended \in SUBSET (Parts \cup OrderIds)
  /\ seen \in [OrderIds -> SUBSET Statuses]
  /\ committed \in SUBSET Requests

Init ==
  /\ opened = Existing
  /\ \E s \in [Existing -> InitialStatuses] :
       /\ row  = [o \in OrderIds |-> IF o \in Existing THEN RowAt(s[o]) ELSE NewRow]
       /\ seen = [o \in OrderIds |-> IF o \in Existing THEN {s[o]} ELSE {}]
  /\ stock = InitialStock
  /\ live = Parts
  /\ lock = [p \in Parts |-> None]
  /\ pc = [r \in Requests |-> "idle"]
  /\ job = [r \in Requests |-> NoJob]
  /\ number = [r \in Requests |-> None]
  /\ session = [r \in Requests |-> NoSession]
  /\ notices = {}
  /\ counted = [m \in {"opened", "transition", "approval", "duration"} |-> {}]
  /\ contended = {}
  /\ committed = {}

-----------------------------------------------------------------------------
(***************************************************************************)
(* The database as a transaction sees it                                   *)
(***************************************************************************)

\* The rows two requests may not touch together without a lost update.
Footprint(j) == (IF j.op = "delete" THEN {} ELSE PartsOf(j.lines))
                  \cup (IF j.op \in {"update", "approve"} THEN {j.order} ELSE {})

Overlap(r, j) == Footprint(j) \cap UNION {Footprint(job[q]) : q \in {q \in Requests \ {r} : pc[q] \in Reading}}

\* A request waits when its pending UPDATE needs a row another transaction wrote.
Blocked(r) == /\ session[r].dirty # None
              /\ lock[session[r].dirty.part] \notin {None, r}

\* The pending UPDATE finds no row (StaleDataError) or breaks the CHECK (IntegrityError).
FlushFails(r) == /\ session[r].dirty # None
                 /\ \/ session[r].dirty.part \notin live
                    \/ StockChecked /\ session[r].dirty.value < 0

FlushOK(r) == ~Blocked(r) /\ ~FlushFails(r)

Flushed(r) == LET d == session[r].dirty IN
              IF d = None THEN session[r].flushed ELSE [session[r].flushed EXCEPT ![d.part] = d.value]

LockFlushed(r) == LET d == session[r].dirty IN IF d = None THEN lock ELSE [lock EXCEPT ![d.part] = r]

\* What the SELECT of a part returns to r, once r's pending UPDATE is flushed.
StockSeenBy(r, p) == IF Flushed(r)[p] # None THEN Flushed(r)[p] ELSE stock[p]

\* Assigning a column the value it has is no change: nothing will be flushed.
Pending(p, old, new) == IF new = old THEN None ELSE [part |-> p, value |-> new]

Free(r) == [p \in Parts |-> IF lock[p] = r THEN None ELSE lock[p]]

(***************************************************************************)
(* How a request starts and how its transaction ends                       *)
(***************************************************************************)
Start(r, j, next) ==
  /\ pc[r] = "idle" /\ j.op \in Operations
  /\ job' = [job EXCEPT ![r] = j]
  /\ pc' = [pc EXCEPT ![r] = next]
  /\ contended' = IF next = "rejected" THEN contended ELSE contended \cup Overlap(r, j)
  /\ UNCHANGED <<database, lock, number, notices, seen, committed>>

\* The handler moves on inside its transaction, with s as its session.
Continue(r, next, s) ==
  /\ pc' = [pc EXCEPT ![r] = next]
  /\ session' = [session EXCEPT ![r] = s]
  /\ UNCHANGED <<database, job, effects, history>>

\* Mutant of Rollback: an error leaves the handler with its session open.
RollbackLeavesLocks(r, outcome) ==
  /\ pc' = [pc EXCEPT ![r] = outcome]
  /\ session' = [session EXCEPT ![r] = NoSession]
  /\ UNCHANGED <<database, lock, job, number, effects, history>>

\* The session closes without commit: PostgreSQL undoes the UPDATEs and frees the rows.
Rollback(r, outcome) ==
  /\ pc' = [pc EXCEPT ![r] = outcome]
  /\ session' = [session EXCEPT ![r] = NoSession]
  /\ lock' = Free(r)
  /\ UNCHANGED <<database, job, number, effects, history>>

\* The last flush and the COMMIT, one step: every lock the flush takes is freed by the COMMIT.
Commit(r, next) ==
  /\ FlushOK(r)
  /\ pc' = [pc EXCEPT ![r] = next]
  /\ stock' = [p \in Parts |-> StockSeenBy(r, p)]
  /\ session' = [session EXCEPT ![r] = NoSession]
  /\ lock' = Free(r)
  /\ committed' = committed \cup {r}
  /\ UNCHANGED <<job, number, effects, contended>>

-----------------------------------------------------------------------------
(***************************************************************************)
(* POST /service-orders: OpenServiceOrderUseCase.execute                   *)
(***************************************************************************)

\* The vehicle is found, or the request ends with 404.  So it does when one of its
\* service types is missing: neither lookup reads anything kept here.
OpenServiceOrder(r) ==
  \E lines \in OpenLines, next \in {"check", "rejected"} :
    /\ Start(r, Job("open", r, "RECEBIDA", lines), next)
    /\ UNCHANGED <<session, counted>>

\* Mutant of CheckPart: any stock is enough.
CheckPartAnyStock(r) ==
  LET s == session[r]
      l == job[r].lines[s.line]
  IN /\ pc[r] = "check" /\ s.line <= Len(job[r].lines)
     /\ IF l.part \in live /\ stock[l.part] > 0
          THEN Continue(r, "check", [s EXCEPT !.line = @ + 1]) /\ UNCHANGED <<lock, number>>
          ELSE Rollback(r, "rejected")

\* One turn of the loop over the part lines: 404, InsufficientStockError, or the next line.
CheckPart(r) ==
  LET s == session[r]
      l == job[r].lines[s.line]
  IN /\ pc[r] = "check" /\ s.line <= Len(job[r].lines)
     /\ IF l.part \in live /\ stock[l.part] >= l.qty
          THEN Continue(r, "check", [s EXCEPT !.line = @ + 1]) /\ UNCHANGED <<lock, number>>
          ELSE Rollback(r, "rejected")

\* Mutant of CountOrders: one is added twice.
CountOrdersTwice(r) ==
  /\ pc[r] = "check" /\ session[r].line > Len(job[r].lines)
  /\ \E d \in Days : number' = [number EXCEPT ![r] = [day |-> d, seq |-> Cardinality(opened) + 2]]
  /\ Continue(r, "take", [session[r] EXCEPT !.line = 1])
  /\ UNCHANGED lock

\* The number is the date and the count of the orders plus one, as of this SELECT.
CountOrders(r) ==
  /\ pc[r] = "check" /\ session[r].line > Len(job[r].lines)
  /\ \E d \in Days : number' = [number EXCEPT ![r] = [day |-> d, seq |-> Cardinality(opened) + 1]]
  /\ Continue(r, "take", [session[r] EXCEPT !.line = 1])
  /\ UNCHANGED lock

\* Mutant of AssignStock: the new value is computed from the committed stock, blind to
\* what this transaction already took.
AssignStockFromCommitted(r, sign) ==
  LET s == session[r]
      l == job[r].lines[s.line]
  IN /\ s.line <= Len(job[r].lines) /\ FlushOK(r)
     /\ Continue(r, pc[r],
          [s EXCEPT !.line = @ + 1, !.flushed = Flushed(r),
                    !.dirty = IF l.part \in live
                                THEN Pending(l.part, stock[l.part], stock[l.part] + sign * l.qty)
                                ELSE None])
     /\ lock' = LockFlushed(r)
     /\ UNCHANGED number

\* Both gateways' stock writes: the SELECT flushes what is pending, then the row it
\* returns is assigned.  A part deleted meanwhile is skipped in silence.
AssignStock(r, sign) ==
  LET s == session[r]
      l == job[r].lines[s.line]
      old == StockSeenBy(r, l.part)
  IN /\ s.line <= Len(job[r].lines) /\ FlushOK(r)
     /\ Continue(r, pc[r],
          [s EXCEPT !.line = @ + 1, !.flushed = Flushed(r),
                    !.dirty = IF l.part \in live THEN Pending(l.part, old, old + sign * l.qty)
                                                 ELSE None])
     /\ lock' = LockFlushed(r)
     /\ UNCHANGED number

DecrementStock(r) == pc[r] = "take" /\ AssignStock(r, -1)

\* INSERT of the order and its lines: UNIQUE(number) and the lines' foreign keys decide.
PartsExist(r) == PartsOf(job[r].lines) \subseteq live

Insertable(r) == (\A o \in opened : Number(o) # number[r]) /\ PartsExist(r)

\* Mutant of CommitOpen: the order is added before the loop of decrements is done.
CommitOpenEarly(r) ==
  /\ pc[r] = "take" /\ Insertable(r)
  /\ Commit(r, "respond")
  /\ opened' = opened \cup {r}
  /\ row' = [row EXCEPT ![r] = NewRow]
  /\ seen' = [seen EXCEPT ![r] = {"RECEBIDA"}]
  /\ UNCHANGED live

CommitOpen(r) ==
  /\ pc[r] = "take" /\ session[r].line > Len(job[r].lines) /\ Insertable(r)
  /\ Commit(r, "respond")
  /\ opened' = opened \cup {r}
  /\ row' = [row EXCEPT ![r] = NewRow]
  /\ seen' = [seen EXCEPT ![r] = {"RECEBIDA"}]
  /\ UNCHANGED live

InsertFails(r) ==
  /\ pc[r] = "take" /\ session[r].line > Len(job[r].lines) /\ FlushOK(r) /\ ~Insertable(r)
  /\ Rollback(r, "failed")

\* Mutant of RespondOpened: the counter without labels is given the status.
RespondOpenedByStatus(r) ==
  /\ pc[r] = "respond"
  /\ counted' = [counted EXCEPT !["opened"] = @ \cup {job[r].target}]
  /\ pc' = [pc EXCEPT ![r] = "ok"]
  /\ UNCHANGED <<database, lock, job, number, session, notices, history>>

\* The controller's metrics, and the 201.
RespondOpened(r) ==
  /\ pc[r] = "respond"
  /\ counted' = [counted EXCEPT !["opened"] = @ \cup {r}, !["transition"] = @ \cup {r}]
  /\ pc' = [pc EXCEPT ![r] = "ok"]
  /\ UNCHANGED <<database, lock, job, number, session, notices, history>>

(***************************************************************************)
(* PATCH /service-orders/{id}/status and POST .../budget-approval          *)
(***************************************************************************)

\* Mutants of CanTransition: only a repeated status is refused; only a closed order is.
CanTransitionAnywhere(o, new) == o \in opened /\ new # row[o].status
CanTransitionUnlessClosed(o, new) == o \in opened /\ row[o].status \notin TERMINAL_STATUSES

\* get_by_id and transition_to: 404, 422, or the entity in its new status.
CanTransition(o, new) == o \in opened /\ new \in VALID_TRANSITIONS[row[o].status]

Load(r, o, new) ==
  session' = [session EXCEPT ![r].entity = TransitionTo(row[o], new, r)]

\* The time spent in the status left is recorded here, before anything is written.
UpdateStatus(r) ==
  \E o \in OrderIds, new \in Statuses :
    IF CanTransition(o, new)
      THEN /\ Start(r, Job("update", o, new, <<>>), "reloadOrder")
           /\ Load(r, o, new)
           /\ counted' = [counted EXCEPT !["duration"] = @ \cup {r}]
      ELSE /\ Start(r, Job("update", o, new, <<>>), "rejected")
           /\ UNCHANGED <<session, counted>>

\* Approval goes straight to the write of the order; refusal first returns every line.
ApproveBudget(r) ==
  \E o \in OrderIds, approved \in BOOLEAN :
    LET new == IF approved THEN "EM_EXECUCAO" ELSE "ORCAMENTO_RECUSADO" IN
    IF CanTransition(o, new)
      THEN /\ Start(r, Job("approve", o, new, IF approved THEN <<>> ELSE Lines(o)),
                    IF approved THEN "reloadOrder" ELSE "return")
           /\ Load(r, o, new)
           /\ UNCHANGED counted
      ELSE /\ Start(r, Job("approve", o, new, <<>>), "rejected")
           /\ UNCHANGED <<session, counted>>

\* Mutant of IncrementStock: the refusal calls the other gateway operation.
IncrementStockTakes(r) == pc[r] = "return" /\ AssignStock(r, -1)

IncrementStock(r) == pc[r] = "return" /\ AssignStock(r, 1)

Differ(a, b) ==
  [status |-> a.status # b.status, started |-> a.started # b.started,
   completed |-> a.completed # b.completed, delivered |-> a.delivered # b.delivered]

\* update(): a second SELECT of the order, onto which the entity is assigned.  The
\* ORM will write the columns in which the two differ.
ReloadOrder(r) ==
  LET s == session[r] IN
  /\ \/ pc[r] = "reloadOrder"
     \/ pc[r] = "return" /\ s.line > Len(job[r].lines)
  /\ FlushOK(r)
  /\ Continue(r, "saveOrder",
       [s EXCEPT !.flushed = Flushed(r), !.dirty = None,
                 !.changed = Differ(s.entity, row[job[r].order])])
  /\ lock' = LockFlushed(r)
  /\ UNCHANGED number

Merged(r) ==
  LET old == row[job[r].order]
      new == session[r].entity
      c   == session[r].changed
  IN [status    |-> IF c.status    THEN new.status    ELSE old.status,
      started   |-> IF c.started   THEN new.started   ELSE old.started,
      completed |-> IF c.completed THEN new.completed ELSE old.completed,
      delivered |-> IF c.delivered THEN new.delivered ELSE old.delivered]

\* Mutant of CommitOrder: update() returns without its commit.
CommitOrderForgotten(r) == pc[r] = "saveOrder" /\ Rollback(r, "notify")

CommitOrder(r) ==
  /\ pc[r] = "saveOrder"
  /\ Commit(r, "notify")
  /\ row' = [row EXCEPT ![job[r].order] = Merged(r)]
  /\ seen' = [seen EXCEPT ![job[r].order] = @ \cup {Merged(r).status}]
  /\ UNCHANGED <<opened, live>>

\* The client is looked up and told; then the controller counts and answers.  Sent,
\* skipped and failed deliveries all return; an address no header accepts raises.
NotifyStatusChange(r) ==
  /\ pc[r] = "notify"
  /\ \/ /\ pc' = [pc EXCEPT ![r] = "ok"]
        /\ notices' = notices \cup {r}
        /\ counted' = [counted EXCEPT !["transition"] = @ \cup {r},
                         !["approval"] = IF job[r].op = "approve" THEN @ \cup {r} ELSE @]
     \/ /\ pc' = [pc EXCEPT ![r] = "failed"]
        /\ UNCHANGED effects
  /\ UNCHANGED <<database, lock, job, number, session, history>>

(***************************************************************************)
(* POST /parts/{id}/stock, PATCH /parts/{id} and DELETE /parts/{id}         *)
(***************************************************************************)

\* AdjustPartStockUseCase: the entity takes the new stock unless it would be negative.
AdjustPartStock(r) ==
  \E p \in Parts, d \in Deltas :
    LET j == Job("adjust", None, "RECEBIDA", <<[part |-> p, qty |-> d]>>) IN
    /\ IF p \in live /\ stock[p] + d >= 0
         THEN Start(r, j, "reloadPart") /\ session' = [session EXCEPT ![r].held = stock[p] + d]
         ELSE Start(r, j, "rejected") /\ UNCHANGED session
    /\ UNCHANGED counted

\* UpdatePartUseCase: name, price or unit change; the entity carries the stock along.
UpdatePart(r) ==
  \E p \in Parts :
    LET j == Job("edit", None, "RECEBIDA", <<[part |-> p, qty |-> 0]>>) IN
    /\ IF p \in live
         THEN Start(r, j, "reloadPart") /\ session' = [session EXCEPT ![r].held = stock[p]]
         ELSE Start(r, j, "rejected") /\ UNCHANGED session
    /\ UNCHANGED counted

\* update(): the whole entity is assigned onto a second SELECT of the part; without a
\* row the assignment raises AttributeError.
ReloadPart(r) ==
  LET p == job[r].lines[1].part IN
  /\ pc[r] = "reloadPart"
  /\ IF p \in live
       THEN /\ Continue(r, "savePart",
                 [session[r] EXCEPT !.dirty = Pending(p, stock[p], session[r].held)])
            /\ UNCHANGED <<lock, number>>
       ELSE Rollback(r, "failed")

CommitPart(r) ==
  /\ pc[r] = "savePart"
  /\ IF job[r].lines[1].part \in live
       THEN Commit(r, "refresh") /\ UNCHANGED <<opened, row, live, seen>>
       ELSE ~Blocked(r) /\ Rollback(r, "failed")

\* refresh() after the commit: the part may be gone by now.
RefreshPart(r) ==
  /\ pc[r] = "refresh"
  /\ pc' = [pc EXCEPT ![r] = IF job[r].lines[1].part \in live THEN "ok" ELSE "failed"]
  /\ UNCHANGED <<database, lock, job, number, session, effects, history>>

DeletePart(r) ==
  \E p \in Parts :
    /\ Start(r, Job("delete", None, "RECEBIDA", <<[part |-> p, qty |-> 0]>>),
             IF p \in live THEN "reloadDelete" ELSE "rejected")
    /\ UNCHANGED <<session, counted>>

\* delete(): a second SELECT; a part gone meanwhile is no error.
ReloadDelete(r) ==
  /\ pc[r] = "reloadDelete"
  /\ IF job[r].lines[1].part \in live
       THEN Continue(r, "erase", session[r]) /\ UNCHANGED <<lock, number>>
       ELSE Rollback(r, "ok")

\* The DELETE waits for the row's lock; an order's line that refers to the part forbids it.
CommitDelete(r) ==
  LET p == job[r].lines[1].part IN
  /\ pc[r] = "erase" /\ lock[p] = None
  /\ IF \E o \in opened : p \in PartsOf(Lines(o))
       THEN Rollback(r, "failed")
       ELSE Commit(r, "ok") /\ live' = live \ {p} /\ UNCHANGED <<opened, row, seen>>

(***************************************************************************)
(* What the handlers do not choose                                         *)
(***************************************************************************)

\* A pending UPDATE fails: 500, and nothing of the transaction stays.
FlushError(r) ==
  /\ pc[r] \in {"take", "return", "savePart"}
  /\ ~Blocked(r) /\ FlushFails(r)
  /\ Rollback(r, "failed")

\* PostgreSQL's deadlock detector aborts a transaction of a cycle of waits.
Holder(r) == lock[session[r].dirty.part]

Deadlocked(r) ==
  \E S \in SUBSET Requests :
    /\ r \in S
    /\ \A q \in S : Blocked(q)
    /\ {Holder(q) : q \in S} = S

DeadlockVictim(r) == Deadlocked(r) /\ Rollback(r, "failed")

\* The pod dies or the connection drops, before the commit or after it.
Crash(r) == pc[r] \in Reading \cup Replying /\ Rollback(r, "crashed")

-----------------------------------------------------------------------------
Arrive(r) ==
  \/ OpenServiceOrder(r) \/ UpdateStatus(r) \/ ApproveBudget(r)
  \/ AdjustPartStock(r) \/ UpdatePart(r) \/ DeletePart(r)

Proceed(r) ==
  \/ CheckPart(r) \/ CountOrders(r) \/ DecrementStock(r) \/ CommitOpen(r)
  \/ InsertFails(r) \/ RespondOpened(r)
  \/ IncrementStock(r) \/ ReloadOrder(r) \/ CommitOrder(r) \/ NotifyStatusChange(r)
  \/ ReloadPart(r) \/ CommitPart(r) \/ RefreshPart(r)
  \/ ReloadDelete(r) \/ CommitDelete(r)
  \/ FlushError(r) \/ DeadlockVictim(r)

\* Every request has been answered or lost: the behaviour may rest.
AllEnded == (\A r \in Requests : pc[r] \in Ended) /\ UNCHANGED vars

Next == (\E r \in Requests : Arrive(r) \/ Proceed(r) \/ Crash(r)) \/ AllEnded

Spec == Init /\ [][Next]_vars

\* The event loop resumes every handler whose statement has returned, and PostgreSQL
\* grants a freed lock and breaks a deadlock.  Nothing makes a request arrive or crash.
FairSpec == Spec /\ \A r \in Requests : WF_vars(Proceed(r))

-----------------------------------------------------------------------------
(***************************************************************************)
(* Safety                                                                  *)
(***************************************************************************)

Asked(lines, p) ==
  MapThenSumSet(LAMBDA i : lines[i].qty, {i \in DOMAIN lines : lines[i].part = p})

\* What request r, once committed, was to add to the stock of p.
Effect(r, p) ==
  CASE job[r].op = "open"                -> -Asked(job[r].lines, p)
    [] job[r].op \in {"approve", "adjust"} -> Asked(job[r].lines, p)
    [] OTHER                             -> 0

\* The stock of every part that no two overlapping requests wrote is the initial stock
\* plus what the committed requests were to add: openings take every line, refusals
\* return every line, adjustments add their quantity, edits add nothing, and a request
\* that was rejected, failed or crashed before its commit leaves no trace.
\* (decrement_stock, increment_stock, PartRepository.update, one commit per handler.)
StockAccountedFor ==
  \A p \in live \ contended :
    stock[p] = InitialStock[p] + MapThenSumSet(LAMBDA r : Effect(r, p), committed)

RepeatsPart(lines, p) == \E i, j \in DOMAIN lines : i # j /\ lines[i].part = p /\ lines[j].part = p

AsksBelowZero(lines, p) == \E i \in DOMAIN lines : lines[i].part = p /\ lines[i].qty < 0

\* Without the schema's CHECK the handlers' own tests keep the stock of a part from
\* going negative, unless it started so, requests that overlapped wrote it, one order
\* named it on two lines, or a refused order had asked for less than nothing of it, which
\* no schema forbids.  (open_service_order.py's test of each line, Part.adjust_stock.)
StockCoversOrders ==
  \A p \in live \ contended :
    /\ InitialStock[p] >= 0
    /\ \A r \in committed : /\ ~RepeatsPart(job[r].lines, p)
                            /\ job[r].op = "approve" => ~AsksBelowZero(job[r].lines, p)
    => stock[p] >= 0

\* However requests interleave, an order's history skips no stage: each status it ever
\* had but the first was reached from another it had had, by a transition the domain
\* allows.  (transition_to's guard, evaluated on the row some earlier commit wrote.)
NoStageSkipped ==
  \A o \in opened : \E first \in seen[o] :
    \A s \in seen[o] \ {first} : \E q \in seen[o] : s \in VALID_TRANSITIONS[q]

\* What a client is told, and what the transition counter counts, has happened: the
\* status named was committed for that order, even when requests raced for it.
\* (notify_status_change and record_status_transition come after update().)
ToldStatusHappened ==
  \A r \in notices \cup counted["transition"] : job[r].target \in seen[job[r].order]

\* The marks that order o may carry of stage s: none, one of the past, or those of the
\* given requests that took it there.
MarksOf(o, s, requests) ==
  {None} \cup {m \in {Past} : o \in Existing}
         \cup {r \in requests : job[r].order = o /\ job[r].target = s}

InstantsOf(w, o, requests) ==
  /\ w.started   \in MarksOf(o, "EM_EXECUCAO", requests)
  /\ w.completed \in MarksOf(o, "FINALIZADA", requests)
  /\ w.delivered \in MarksOf(o, "ENTREGUE", requests)

\* However racing updates mix their columns in one row, each instant it carries was
\* committed by a request that took that order to that stage: never by one that failed or
\* crashed, by another stage or for another order.  (transition_to stamps the entity before
\* anything is written; update() writes the columns that differ from a later SELECT.)
InstantsHappened == \A o \in opened : InstantsOf(row[o], o, committed)

\* An order that no two overlapping requests wrote carries exactly the instants of the
\* stages it passed: what get_completed_with_times selects for the average time.
MarksMatchStatus ==
  \A o \in opened \ contended :
    LET w == row[o] IN
    /\ w.started # None   <=> w.status \in {"EM_EXECUCAO", "FINALIZADA", "ENTREGUE"}
    /\ w.completed # None <=> w.status \in {"FINALIZADA", "ENTREGUE"}
    /\ w.delivered # None <=> w.status = "ENTREGUE"

\* An opening whose count is still the number of orders has a number nobody holds: only
\* an order committed since can make its INSERT fail on UNIQUE(number).
\* (open_service_order.py's count() + 1.)
FreshNumberIsFree ==
  \A r \in Requests :
    pc[r] = "take" /\ number[r].seq = Cardinality(opened) + 1 => \A o \in opened : Number(o) # number[r]

\* Of an order that no two overlapping requests wrote, every commit changes the status
\* along VALID_TRANSITIONS only.
StatusMovesLegally ==
  [][\A o \in opened : \/ o \in contended'
                       \/ row'[o].status = row[o].status
                       \/ row'[o].status \in VALID_TRANSITIONS[row[o].status]]_vars

\* The rows a transaction has written and not committed are its own: whoever waits for
\* one waits for a transaction that is still running, or the wait would never end.
LocksHaveOwners ==
  \A p \in Parts : lock[p] # None =>
    /\ pc[lock[p]] \in {"take", "return", "saveOrder"}
    /\ session[lock[p]].flushed[p] # None

(***************************************************************************)
(* Liveness                                                                *)
(***************************************************************************)

\* Every request that arrives is answered or lost: waits for rows end, those in a cycle
\* by the abort of one of its transactions.
EveryRequestEnds == \A r \in Requests : pc[r] # "idle" ~> pc[r] \in Ended

(***************************************************************************)
(* Refinement                                                              *)
(***************************************************************************)

Book == INSTANCE OrderBook WITH
  status <- [o \in OrderIds |-> IF o \in opened THEN row[o].status ELSE None],
  sheet  <- [o \in OrderIds |-> IF o \in opened THEN Lines(o) ELSE <<>>]

\* Until two requests that overlap in time share an order or a part, the handlers, with
\* all their awaits, failures and crashes, do what the order book promises: each commit
\* is one of its operations, and nothing else changes it.
ImplementsOrderBook ==
  Book!Init /\ [][contended' = {} => Book!Next \/ UNCHANGED Book!book]_vars
=============================================================================
