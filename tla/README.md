# AutoGiro: a TLA+ model of the workshop API

AutoGiro (`src/app`) is the HTTP API of a network of car workshops: FastAPI handlers
written as use cases, SQLAlchemy (async) under them, one PostgreSQL database behind any
number of replicas. This directory holds TLA+ modules that follow that code statement by
statement where it matters, the TLC runs that check them on small instances, and TLAPS
proofs of what holds on every instance. Four parts are modelled:

- the **core**: orders and the stock of parts, as handlers that interleave at every statement;
- the **registry**: clients, vehicles, service types, and who may change them;
- the **HTTP pipeline** of one replica: middlewares, router, exceptions, metrics and log;
- the **pure rules**: documents, plates, the work list, the average time, settings.

## 1. Inventory

| Component | State it keeps | Operations | Hard behaviour | What makes it correct | Modelled in |
|---|---|---|---|---|---|
| Status machine (`domain/value_objects/service_order_status.py`, `domain/entities/service_order.py`) | status and three instants of an order | `transition_to` | none by itself | only listed transitions; instants fit the status | core |
| Service orders (`use_cases/open_service_order.py`, `update_service_order_status.py`, `approve_budget.py`, the order repository and gateways) | rows of orders, their part lines, stock of parts | open, advance, decide the budget | other requests run at every `await`; absolute writes of stock; two SELECTs of one order; UNIQUE number from a count; failures after partial work | stock follows the orders; status moves along the machine; all or nothing; every request ends | core |
| Parts (`use_cases/part.py`, part repository) | rows of parts | create, edit, adjust, delete, read | an edit writes the stock it read; a part disappears between two statements | stock is never lost, never negative; a used part stays | core; creation and reading in the registry |
| Notifier (`infrastructure/notifications/notifier.py`) | none | tell the client | raises or swallows after the commit | tells only what happened; never fails the request | core, its choice in the pure rules; partly |
| Business metrics (`infrastructure/observability/metrics.py`) | counters in the process | count | counted before or after the commit | counters agree with the database | core; partly |
| Registry: clients, vehicles, service types | rows with unique document, plate, name | create, edit, delete, read | look-up then insert; deletion of rows others refer to; stale write-back | uniqueness; no dangling reference; answers that fit | registry |
| Authentication, users | users, tokens in circulation | log in by document, present a token | a token outlives its client | a token only for a client; no client, no way in | registry; partly |
| CPF, CNPJ, plates | none | validate, normalise | several implementations and forms | they agree with the definition and with each other | pure rules |
| Middleware | in-progress gauge, counters, request id context, log | wrap a request | requests interleave in one event loop; the label changes on the way; exceptions | gauge and counters are exact; log lines carry their own id | pipeline |
| Listing, average time, reading | none | read | empty and partial data, ties, rounding | order of the list; average over complete rows | pure rules |
| Start-up, health, configuration, DSN | tables | create tables, probe | replicas start together; the database stops | DSN translation keeps the meaning; probes answer | pipeline and pure rules; partly |
| Exception handlers, schemas | none | map exceptions, validate | what is not mapped | each exception answered and counted once | pipeline and pure rules; partly |
| Deployment, monitoring, scripts | none | none | pods stop at any moment | outside the program | not modelled |

Interaction: a request passes the layers of one replica (`HttpPipeline`) and reaches a
controller, which builds one use case over one session (`get_db`). So a request is one
sequential process, and requests share nothing but the database and, within a replica, the
event loop, the counters and the log. Protected routes first look the caller up among the
clients. Orders and parts meet in the stock. The registry is read by an opening (vehicle,
owner, service types). The notifier and the business counters are called by the handler
after the commit.

`PROJECT.json` lists under `hazards` where each of these can go wrong in a way a test
hardly reaches.

## 2. Plan

1. **Core (done):** modules, claims, the refinement of `OrderBook`; eleven theorems, the refinement
   among them.
2. **Registry (done):** modules, the refinement of `Directory`; five theorems, the refinement
   among them.
3. **Pure rules (done):** bounded inputs against reference definitions; five theorems.
4. **Middleware (done):** modules, liveness; four theorems.
5. **Left to prove:** no safety property that a run checks. Liveness and `ENABLED` stay with TLC.
6. **Left to model:** the race of two start-ups, if PostgreSQL's catalogue is ever modelled;
   per-channel results of notifications.

Modules that hold theorems use no `RECURSIVE` operator; each operation is one action;
constants carry named assumptions.

## 3. Modules

| Module | Models | Builds on |
|---|---|---|
| `ServiceOrderStatus` | the seven statuses, `VALID_TRANSITIONS`, what `transition_to` assigns | |
| `ServiceOrders` | the handlers of orders and parts over one database | `ServiceOrderStatus` |
| `OrderBook` | what the workshop promises, each operation in one step | `ServiceOrderStatus` |
| `DocumentedClaims` | what documents and comments say without a condition | `ServiceOrders` |
| `MCServiceOrders` | lines, quantities, stock and symmetry for TLC | `DocumentedClaims` |
| `ServiceOrdersProofs` | typing lemmas and the type invariant | `ServiceOrders` |
| `OrderHistoryProofs` | histories, notices and numbers; locks; orders that no two overlapping requests shared | `ServiceOrdersProofs` |
| `SumFacts` | sums over finite sets: what the folds of the library compute | |
| `StockProofs` | the stock; the handlers implement `OrderBook` | `OrderHistoryProofs`, `SumFacts` |
| `RegistryRows` | rows, keys, references and the constraints of the schema | |
| `Directory` | what the registry promises, each request in one step | `RegistryRows` |
| `Registry` | the routes of the registry, statement by statement, and log-in | `RegistryRows`, `Directory` |
| `MCRegistry` | starting rows and calls for TLC | `Registry` |
| `RegistryProofs` | its invariants | `Registry` |
| `DirectoryProofs` | `Registry` implements `Directory` | `RegistryProofs` |
| `RouteLabels` | routing, and the label a request is measured under | |
| `HttpPipeline` | the layers of one replica around a handler | `RouteLabels` |
| `MCHttpPipeline` | routes and targets for TLC | `HttpPipeline` |
| `HttpPipelineProofs` | its theorems | `HttpPipeline` |
| `Subsequences` | what a filter leaves of a sequence | |
| `DocumentRules` | check digits and forms of CPFs, CNPJs and plates | `Subsequences` |
| `QueryRules` | the work list and the average time | `ServiceOrderStatus` |
| `SettingsRules` | the connection string and the channel | `Subsequences` |
| `PureRules` | one question per behaviour, and the reference definitions | the three above |
| `MCPureRules` | the inputs | `PureRules` |
| `PureRulesProofs` | its theorems | `PureRules`, `SumFacts` |

### State of `ServiceOrders`

| Variable | In the program |
|---|---|
| `opened`, `row` | the rows of `service_orders`: which exist, and their mutable columns. Request `r` opens order `r`. An instant is the mark of the request that set it |
| `stock`, `live` | the committed `stock_quantity` of each part, and which parts exist |
| `lock` | the row locks of `parts` that uncommitted UPDATEs hold |
| `pc`, `job` | the `await` each handler stands at, and what it was asked |
| `number` | the number an opening computed: a date and a count |
| `session` | the locals of the handler and its ORM session: the loaded entity, the columns to write (`changed`), an assignment not flushed yet (`dirty`), the UPDATEs of this transaction (`flushed`) |
| `notices`, `counted` | notifications handed over, and the increments of the counters, by request |
| `contended`, `seen`, `committed` | history: rows that overlapping requests shared, the statuses an order ever had, the requests that committed |

| Request | Actions in order |
|---|---|
| `POST /service-orders` | `OpenServiceOrder`, `CheckPart` per line, `CountOrders`, `DecrementStock` per line, `CommitOpen` or `InsertFails`, `RespondOpened` |
| `PATCH /service-orders/{id}/status` | `UpdateStatus`, `ReloadOrder`, `CommitOrder`, `NotifyStatusChange` |
| `POST /service-orders/{id}/budget-approval` | `ApproveBudget`, `IncrementStock` per line of a refusal, `ReloadOrder`, `CommitOrder`, `NotifyStatusChange` |
| `POST /parts/{id}/stock` | `AdjustPartStock`, `ReloadPart`, `CommitPart`, `RefreshPart` |
| `PATCH /parts/{id}` | `UpdatePart`, `ReloadPart`, `CommitPart`, `RefreshPart` |
| `DELETE /parts/{id}` | `DeletePart`, `ReloadDelete`, `CommitDelete` |

`FlushError`, `DeadlockVictim` and `Crash` may end any of them in between. A step is the work
from one database statement to the next, because there the event loop, or another replica,
may run another request.

### State of `Registry`

| Variable | In the program |
|---|---|
| `rows` | the committed rows of `clients`, `vehicles`, `service_types`, `parts` and `service_orders`: of each its unique key and its foreign keys. Request `r` inserts row `r`: PostgreSQL draws ids from sequences, which repeat none |
| `tokens` | the documents named by tokens in circulation |
| `pc`, `job` | the statement each handler is about to run, and what it was asked, with the document of the token |
| `held` | what a handler carries from one statement to a later one: the owner of a vehicle, or the name that an edit will write |
| `done`, `contended` | history: the requests that committed; the service types that overlapping edits shared |

Each route is a program of statements, and each kind of statement an action:

| Request | Actions in order |
|---|---|
| `POST /auth/token` | `IssueToken` |
| any protected route | `Call`: the guard `get_current_client`, then the program below; `GET /auth/me` has none |
| create a client or a service type | `LookUpKey`, `Insert`, `Refresh` |
| create a vehicle | `FindReference` (the client), `LookUpKey`, `Insert`, `Refresh` |
| create a part | `Insert`, `Refresh` |
| open an order | `FindReference` (the vehicle, whose owner it keeps), `FindItem`, `Insert`, `Refresh` |
| edit a client or a vehicle | `Load`, `Reload`, `Save`, `Refresh` |
| edit a service type | `Load`, `LookUpKey` if the name is new, `Reload`, `Save`, `Refresh` |
| delete a client or a vehicle | `Load`, `Reload`, `Erase` (the flush loads the related rows), `Remove` |
| delete a service type | `Load`, `Reload`, `Remove` |
| read one; list; list the vehicles of a client | `Load`; `List`; `FindReference`, `List` |

An order has one item at most and its stock is in `ServiceOrders`, which in turn takes the vehicle
of an opening for granted. A constraint that refuses a write raises `IntegrityError`, which no
exception handler maps: the request ends as `failed`, a 500. `Crash` may end any request. The
order of an opening is committed by `add()`, and only then read again for the answer (`Refresh`).

### State of `HttpPipeline`

| Variable | In the program |
|---|---|
| `database` | external: whether the database answers |
| `pc` | the layer each request is about to run |
| `target`, `supplied` | method and path; the `X-Request-ID` that the caller sent |
| `request_id`, `context`, `copied` | `request.state.request_id`; `request_id_ctx` in the middleware's task; the copy of it in the tasks below |
| `provisional` | the label under which the request was counted as in progress |
| `response` | status and headers on the way out; none while an exception is |
| `log` | the lines written, with the id they carry |
| `in_progress`, `requests_total`, `exceptions_total`, `durations` | the collectors of `metrics.py` |

A request passes `Receive` (a CORS preflight is answered there), `TagRequest`, `StartMeasuring`,
`Route`, `Handle` (`HandleStatic`, `HandleReadiness` or `HandleApi`), `SecureResponse`, `Count` and
`Finish`; an exception skips `SecureResponse` and ends in `AnswerError`. `DatabaseChanges` may stop
or restore the database between any two. The framework's layers are external. Included routers
may or may not match one by one in `_match_route`, by the version of the framework, so `MatchRoute`
allows both outcomes for a route under a prefix.

### `PureRules`

A behaviour is one question (a document, a plate, a set of orders, settings) and the answer of the
code's functions. The state only keeps the two, so that an invariant compares them with a
reference: the rules of the Receita Federal for check digits, the definition of the work list, the
range of an average.

### How the database and the ORM are modelled

The code under `src/` uses PostgreSQL and SQLAlchemy; both are external, and modelled from how
they are used.

- READ COMMITTED, the default nothing in the code changes: a SELECT sees what is committed at
  its instant plus the writes of its own transaction (`StockSeenBy`).
- Autoflush: an assignment is sent by the next SELECT of the session or by the commit, as an
  UPDATE with the absolute value. An assignment of the value already there sends nothing
  (`Pending`, `Differ`).
- An UPDATE waits for the row's lock and keeps it to the end of the transaction. A cycle of
  waits is broken by aborting one of its members, any of them.
- A session that closes without commit rolls back (`Rollback`): so do an exception, a lost
  connection and the end of a pod.
- An entity read by one statement is not held across the next (the mappers copy it and nothing
  else refers to it), so a second SELECT returns what is committed by then and not the cached
  object. `expire_on_commit=False` leaves nothing else to reload.
- The last flush and the COMMIT are one step, since no lock the flush takes outlives it. Two
  transactions that wait for each other inside that flush (on the unique index of numbers, or
  on an order's row) end as one that commits and one that fails, which `InsertFails` and
  `Crash` already give. In `Registry` the writes are all of this kind, so it has no locks.
- A DELETE of a part takes the row's lock and is refused while a line of an order refers to it.
- Foreign keys are enforced, as PostgreSQL does. The SQLite file of the default configuration
  would not enforce them without a pragma that nothing sets.
- A DELETE that matches no row is a warning to the ORM; an UPDATE that matches none is an error.

Left out of the core: prices, totals, notes, `updated_at` and the text of numbers; the schema's two
CHECKs on instants, which clocks that agree never break; authentication (the budget webhook has
none); an adjustment of zero or an edit does not lock the part in the model, while in the code an
edit does write its name or price and would wait for the lock. Quantities are integers, negative ones
too: no schema of the application asks them to be positive, so an opening may add to the stock, and
the refusal of its budget then takes from it (`StockCoversOrders` has the condition). An adjustment whose part is deleted between its SELECT
and its UPDATE fails.

## 4. Runs

| Run | Instance | Shows |
|---|---|---|
| `race` | 2 requests of any of the six kinds on orders and parts, existing order in any status, no CHECK on the stock (what `create_all` makes) | well typed; locks have running owners; on rows that no two overlapping requests shared, stock accounts for every committed request and covers the orders, marks and status agree and status moves along the machine; until then the handlers implement `OrderBook` |
| `orders` | 3 requests that open, advance or decide, one part, two dates | histories skip no stage, nothing is told that did not happen, a fresh number is free, every instant in a row was committed by a request of its stage, whatever the races |
| `stock` | 2 requests of any kind, existing order awaiting approval, CHECK on the stock | accounting survives failed flushes and deadlocks; every request ends |
| `registry` | 3 requests from an empty registry, one with a client, one with client, vehicle and service type; two documents of which one is a CPF | keys stay unique, references whole and owners right; a deletion is final; a lock-out is final; each answer fits one moment between arrival and answer (`Directory`) |
| `http` | 2 requests, seven targets: an order read, an order changed, readiness, metrics, documentation, an unknown path that begins like documentation, a preflight; database up or down | gauge and counters are exact, lines carry their request, every request is answered |
| `rules` | CPFs over two values with every pair of check digits, CNPJs, both masked, repeated digits, wrong lengths; plates in both forms, cases and paddings; up to three orders; up to three parameters of the connection string, of libpq's, the driver's and both | the code that only computes agrees with its definitions |
| `claim_lost_update` | 2 openings of one part, two dates | a decrement is lost |
| `claim_transitions` | 2 budget decisions | a status changes against the machine |
| `claim_returned_once` | 2 budget decisions | parts return twice |
| `claim_unavailable` | 2 openings | one part on two lines takes more than there is, already in one of them |
| `claim_notifier` | 1 change of status | the request fails after its commit |
| `claim_duplicate` | 2 registry requests | a duplicate is answered 500, not 409 |

The claims expect a violation: each refutes one sentence of a document, a comment or a test, quoted
in `PROJECT.json` under `findings`, and in `DocumentedClaims` or at the end of `Registry`. They are the
other half of `race`: its properties leave out the rows that overlapping requests shared, because
there the code promises nothing, and the claims show what it then does with the stock
(`claim_lost_update`, `claim_returned_once`, `claim_unavailable`) and the status (`claim_transitions`).
What holds of shared rows too is in `orders`.

Why the bounds are enough:

- *Core.* A lost update, a stale decision, a deadlock and a duplicate number each need two
  requests, and a request can hold at most one assignment unflushed and wait for one lock. Two
  parts, with two units each, and lines in either order give crossed locks; adjustments of -2 and
  +1 reach zero and below, and one line asks for -1. Three requests in `orders` let a third act on the result of a race of
  two. Two dates are midnight.
- *Registry.* One request reads a row, a second deletes or changes it, and a third acts on what
  that left, such as a freed key; a row created, referred to and deleted in one behaviour needs
  three as well. Two names and the empty one let two edits collide with each other and with a row.
- *Pipeline.* Requests meet only in collectors and the log, so two under one label, or under
  two, show every interference. The targets cover each kind of route, with and without a prefix.
- *Rules.* All ten values of both check digits are tried on every base; a sum of three orders
  already rounds up, down and to a tie.

Nothing else is bounded: a request runs once, so behaviours are finite but for the database that
comes and goes and the final stuttering step `AllEnded`. Requests are symmetric in `race`, `orders`
and `registry`, which check no liveness. `rules` stops after its one step, and alone switches the
deadlock check off.

On one date two overlapping openings count the same number of orders and the UNIQUE constraint
makes the later one fail, which hides the lost decrement by accident: the claim needs the date
to change between the two counts, or another order to be committed there.

**Contention.** `contended` in `ServiceOrders` holds the orders and parts that two requests which
overlap in time both touched; in `Registry`, the service types that two overlapping edits shared.
Properties conditioned on it are what the code does promise without locks, and the claims show
that the condition cannot be dropped. Requests that do not overlap may share anything.

**Fairness.** `FairSpec` (run `stock`): weak fairness of each handler's next step. The event loop
resumes a coroutine whose statement returned; PostgreSQL grants a freed lock and aborts a member
of a cycle of waits. No fairness makes a request arrive or a pod crash. `HttpPipeline`'s `Fairness`:
weak fairness of each request's next layer. The event loop runs every task that is ready, and a
query returns or fails. Nothing makes the database come back.

## 5. Proofs

| Module | Theorem | States |
|---|---|---|
| `ServiceOrdersProofs` | `TypeCorrect` | `Spec => []TypeOK` |
| `OrderHistoryProofs` | `StagesNeverSkipped` | `Spec => []NoStageSkipped` |
| | `ToldIsTrue` | `Spec => []ToldStatusHappened` |
| | `FreshNumbersAreFree` | `Spec => []FreshNumberIsFree` |
| | `InstantsAreTrue` | `Spec => []InstantsHappened` |
| | `NoLockIsLost` | `Spec => []LocksHaveOwners` |
| | `MarksFollowStatus` | `Spec => []MarksMatchStatus` |
| | `TransitionsAreLegal` | `Spec => StatusMovesLegally` |
| `StockProofs` | `StockIsAccountedFor` | `Spec => []StockAccountedFor` |
| | `StockIsCovered` | `Spec => []StockCoversOrders` |
| | `HandlersImplementTheBook` | `Spec => ImplementsOrderBook` |
| `RegistryProofs` | `TypeCorrectness` | `Spec => []TypeOK` |
| | `RegistryStaysConsistent` | `Spec => []RegistryConsistent` |
| | `DeletionsAreFinal` | `Spec => []DeletedIsGone` |
| | `LockOutStays` | `Spec => LockOutIsFinal` |
| `DirectoryProofs` | `RequestsAreAtomic` | `Spec => ImplementsDirectory` |
| `HttpPipelineProofs` | `LabelsComeFromRoutes` | `Spec => []TypeOK` |
| | `GaugeIsExact` | `Spec => []GaugeMatchesRequests` |
| | `LogCanBeFollowed` | `Spec => []LinesCarryTheirRequest` |
| | `CountersAreExact` | `Spec => []CountersMatchAnswers` |
| `PureRulesProofs` | `RegistrationAndLogInAgree` | `Spec => []DocumentRulesAgree` |
| | `EveryThingHasOneKey` | `Spec => []OneKeyPerThing` |
| | `WorkListIsSorted` | `Spec => []WorkListInOrder` |
| | `AverageIsAMean` | `Spec => []AverageWithinRange` |
| | `SettingsAreUsable` | `Spec => []SettingsUsable` |

So every safety property that a passing run checks holds for every finite set of requests and every
input. The assumptions are on constants alone:

- `RequestsAssumption`, `InputsAssumption`, `NumbersAssumption` (`ServiceOrders`): identifiers are
  distinct from each other and from `None`, inputs have their types, and existing orders were
  numbered by this program, so no suffix exceeds their count.
- `IdsAssumption` (`RegistryRows`), `RegistryAssumption` (`Registry`): the same of ids, keys and calls;
  a call fills the fields that its route has and no other; the rows at the start satisfy the schema.
- `PipelineAssumption` (`HttpPipeline`): targets and routes have their types, a prefix holds no
  parameter and a template is not empty, the ids that callers send are not those generated, and
  `Errors` are exceptions that the table of statuses names.
- `LettersAssumption` (`PureRules`): digits, superscripts, letters and separators are told apart, and
  texts are made of them. `OrdersAssumption`: a delivered order has both instants, as `transition_to` sets them on
  the way there (`MarksMatchStatus` says so of the core). `DsnsAssumption`: the query of a connection
  string holds any keys and values, and the driver has an argument named `ssl`.

**Core.** A handler moves in four ways: it starts, it continues inside its transaction, it
rolls back, or it commits. Each way has a lemma, and the step of an action cites the lemma of
its way.

- `TypeOK` needs `JobsFit` to be inductive: handlers of parts carry exactly one line, and handlers
  of orders an order. Otherwise `job[r].lines[1]` has no type.
- `NoStageSkipped` and `ToldStatusHappened` are not inductive: a commit writes a status decided
  from a row read long before. `HistoryInv` adds `UnderwayAt`, which keeps for each handler under
  way a status the order has had from which the target is allowed, and `SeenFollowsRow`, which
  ties `seen` to the rows. A race may change the row, never the history, so the witness stays.
- `FreshNumberIsFree` follows from `NumbersBounded`: the suffix of every committed order is at
  most the number of orders, so one more than that number is new. It rests on the cardinality of
  `opened`, which grows by one with each insert.
- `InstantsHappened` needs `InstantsInv`: what a handler that decides holds are instants of its own stage
  and of requests that had committed when it read the row, and a commit writes, column by column, one
  of those or leaves the one there was. So a race may mix instants, but only true ones.
- `LocksHaveOwners` is inductive given the types. A step of `r` disturbs only locks of `r`
  (`OwnersKept`): it takes one with the flush that records the write (`FlushOwners`) or frees all
  with the end of the transaction (`FreeOwners`).
- `MarksMatchStatus` and `StatusMovesLegally` need `Alone(r)`, the heart of `IsolationInv`: a handler
  that decides on an order nobody else shares is the only one on it, what it holds is the row one
  transition on, and at the commit the columns to write are exactly those that differ. A second
  handler that arrives makes the order contended, so the condition of the properties fails first.
- `StockAccountedFor` and `StockCoversOrders` need `RunInv`, which says of a handler in the middle of
  its transaction what it has done so far. On a part nobody else shares its session sees the
  committed stock plus its share (`Share`), the sum of the lines that its loop has passed
  (`AskedBefore`); what an adjustment will write is the stock plus the adjustment; and every line that
  an opening has tested is still covered (`Covered`). A turn of the loop adds one line to the share;
  at the commit the share is all that was asked, and the sum over committed requests gains that
  one summand; a rollback leaves the committed stock, of which no share was ever part.
- `ImplementsOrderBook`: a commit is the one step that maps to an operation of `OrderBook`, with the
  lines and the status that `RunInv` and `Alone` know the handler to hold; every other step changes
  nothing the book sees. The refinement is conditioned on contention, so the proof is of the steps
  that leave `contended` empty.

**Sums.** `SumFunctionOnSet`, `MapThenSumSet` and the like are recursive functions over finite sets, and
the library's induction theorems take the claim as an operator, which no backend can instantiate.
`SumFacts` takes the set of those subsets for which the claim holds in place of the claim
(`SubsetInduction`): a least counterexample exists because strict inclusion is well-founded on the
subsets of a finite set, and that is a theorem without such a parameter. From it come the sum of the
empty set, of one element more and of functions that agree; the bounds of a sum are in
`PureRulesProofs` (`SumAtLeast`).

**Registry.** A handler acts on a row found some statements before. Ids are not reused, so such a
row is there unchanged, but for its key, or gone for good (`Found`); `Inductive` says that of every
row a handler still relies on, with the owner an opening holds (`OpeningKnowsOwner`) and the rows a
request has inserted (`RowsWereInserted`). Uniqueness and references then follow from what the
constraints refuse, `OwnersAgree` from the owner that cannot change, `DeletedIsGone` from the id that
cannot return. `LockOutIsFinal` needs that no step of `IssueToken` or `Call` gets in without a client.

`ImplementsDirectory` maps each step to the operation of `Directory` that takes effect there or to a
stutter: a request takes effect at its commit, or where it finds that it cannot be done. `Effective`
supplies what that takes: a request that committed only waits for its answer (`DoneIsPast`), two edits
of one service type that overlap make it contended (`OneEditor`), and an edit that shares its service
type with no other writes the name asked for, or none if the row has it (`EditionKnowsName`).

**Pipeline.** `TypeInv` adds to `TypeOK` that a request past the router carries a target, a
provisional label if it is measured (`Labelled`), and a route if it is handled (`Underway`). The label
of a request is the full template of its route because counting segments from the end finds the
prefix (`RouteFits`, `LabelIsTemplate`). The gauge is a cardinality: each step adds one request to
the holders of a label, or takes one away, or leaves them. The log needs `Traced`: the
contexts of a request hold its id from `TagRequest` to the reset.

`CountersMatchAnswers` compares each collector with a tally of the requests that were counted
(`Tally`): one member more is one increment of its key (`TallyGrows`). `Settling` says
which statuses and labels those keys can be: only the outermost layer answers 500, and only a
request without a response reaches it, so what raised is counted as the 500 its caller gets; and a
request whose path fits no route is in progress under the one label for those.

**Pure rules.** The invariant is `Answered`, the answer is what the rules compute of the question, and
the work is in what they compute.

- *Filters.* `Only` (`Subsequences`) is a recursive function over positions, chosen by its equation:
  a solution exists and all solutions agree, by induction over sequences with the set of good ones in
  place of the claim (`SequenceInduction`). It filters by a set, because the prover cannot look inside
  the operator passed to `SelectSeq`.
- *Check digits.* The total of the reference, a recursion over positions, is the library's sum of the
  same terms. Ten times a total modulo eleven, folded, is eleven less its remainder, folded: this is
  where the forms meet, the remainder of ten included. The weights of the CNPJ are those of the
  reference, position by position.
- *Forms.* A masked CPF is its four groups joined by marks, and a filter of a concatenation is the
  concatenation of the filters. A plate that is accepted has no space inside, so that stripping its
  ends and removing every space are the same (`OnlyTheMiddle`).
- *Work list.* `ListOpenOrdered` is a CHOOSE: a sorted list exists (`SortedListExists`), because a finite
  set that is not empty has a last element in the order of the query (`LastExists`), which is total on
  distinct ids. Its ranks are the statuses that the workshop acts on (`RankIsPriority`).
- *Average.* A sum lies between the number of its summands times the least and times the greatest.
- *Settings.* A translated parameter is clean: not on the list, not `sslmode`, and `require` or `disable`
  if it came from there. Clean parameters translate to themselves, so translating twice changes nothing.
  A filter keeps apart what was apart (`OnlyKeepsApart`) and invents nothing, and only `ssl` and `sslmode`
  get one key: so no key is there twice if none was and the two were not given together. Of such a
  string the driver accepts the translation if it knows every key that is passed on (`Accepts`).

`JobsFit`, `HistoryInv`, `IsolationInv`, `RunInv`, `Inductive`, `Effective`, `Settling` and the other
invariants of the pipeline were model-checked on the instances of the runs before they were proved.

Only model-checked: liveness under fairness (`EveryRequestEnds`, `EveryRequestAnswered`) and with it
`ENABLED`, which the prover does not support. The claims of `DocumentedClaims`
and `DuplicateAnswered409` are false, and stay with the runs that refute them.

## 6. Disagreements met and not given a run

- `03-sequencia-abertura-de-os.md:133` calls `FINALIZADA` a status without exit; the table lets
  it go to `ENTREGUE`, as the diagram above that line does.
- The same document answers 409 to an invalid transition and to insufficient stock; the
  exception handlers answer 422.
- `PATCH .../status` accepts `ORCAMENTO_RECUSADO` and returns no part to the stock; only the
  budget webhook does. It also accepts `EM_EXECUCAO` without the client's approval.
- RFC-002 lists CHECK constraints; `create_all` in `main.py` does not make them. This is why
  `StockChecked` is a constant.
- `metrics.py:70` asks how long an order stayed in each status; `approve_budget.py` drops the duration
  that `transition_to` returns, so a stay that the webhook ends is not observed.
- `tests/integration/test_health.py:56` says each request makes a line in the log. One whose handler
  raises something not mapped makes no access line, and its 500 carries neither `X-Request-ID` nor
  the security headers: those middlewares are passed by the exception.
- An edit of a service type that gives no name writes back the name it read
  (`service_type.py:54`), and so undoes a rename committed meanwhile. `ImplementsDirectory` is
  conditioned on it.
- Every route that registers a client wants a registered client (`dependencies.py:52`): the API cannot
  register its first one, and deleting the last one locks everybody out. `LockOutIsFinal` says so.
- `database.py:36` calls `require` the equivalent of `sslmode`; every mode but `disable` becomes it, so
  `verify-full` loses the verification and `prefer` becomes a demand, though asyncpg knows both.
  `SettingsUsable` says no more of a mode than whether TLS is off.
- The list of incompatible parameters drops `target_session_attrs`, which asyncpg 0.30 takes.
- `database.py:22-24` promises to make libpq's strings usable by asyncpg, and `test_database_dsn.py:49-55`
  counts `application_name` among the parameters asyncpg accepts. Every key outside the list but `sslmode`
  is passed on, and `connect()` of asyncpg 0.30 has no `application_name`, `sslrootcert` or `keepalives`: it
  raises. `SettingsUsable` promises acceptance only of keys that the code or the driver knows.
- A string with both `ssl` and `sslmode` yields two pairs named `ssl`, which reach the driver as a tuple;
  `SettingsUsable` promises acceptance only where TLS is named once.
- A mode that asyncpg does not know is passed on under `ssl`.
- Editing a part's name or price writes back the stock read with it (`part_repository.py:44`) and undoes an
  opening's decrement that committed in between: `StockFollowsOrders` again, with `edit` in its run's
  `Operations`.
- Two openings of the last units of a part both commit if one does so between the other's test and its
  decrement (`open_service_order.py:51`): `StockNeverNegative` again, which RFC-002:136 says.
- "OSs finalizadas não podem ser alteradas retroativamente" (Domain Storytelling, line 284): two updates to
  `FINALIZADA` both read the order in execution, and the later one writes another `completed_at`.
- `metrics.py:121` records how long an order was in the status "que acabou de deixar". The stay is observed
  before anything is written, so two updates that leave one status both observe it.
- A client registered with a CNPJ can never log in: `POST /auth/token` takes CPFs only.
- Listing the vehicles of a client deleted between the two SELECTs answers an empty list, not 404.

## 7. Not modelled

- Registration of users and log-in by password: use cases that no route calls.
- Expiry of tokens, JWT signatures, password hashing: libraries. In the model a token never expires.
- SMTP, the thread it runs in, and the results counted per channel; labels and buckets of business
  metrics; the loss of counters at a restart of a replica.
- 405 and trailing-slash redirects of the router, the headers of CORS, the values of the security
  headers, the buckets of the histograms.
- The shapes of request bodies, which the framework checks before a handler runs; letters
  outside ASCII. Of digits outside ASCII the superscripts are there (`isdigit` keeps them, `\D` removes
  them); the decimal digits of other scripts, which both keep and the checksum reads as numbers, are not.
- A limit on how long a query takes. The code sets none; the pipeline assumes that a query returns or
  fails, and `EveryRequestAnswered` rests on that.
- The race of two replicas in `create_all` (`main.py:44`): which CREATE TABLE fails, and how, is
  PostgreSQL's; the loser ends, is restarted and finds the tables.
- Kubernetes, docker-compose, Grafana and scripts, which are configuration, and the external
  gateway and Lambda of the documents, whose code is not in this repository.
