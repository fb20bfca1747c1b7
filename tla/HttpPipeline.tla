---------------------------- MODULE HttpPipeline ----------------------------
(***************************************************************************)
(* The way of a request through one replica: the error and CORS layers of  *)
(* the framework, the RequestId, Metrics and SecurityHeaders middlewares,  *)
(* the router, the handler and the exception handlers, and back.  One      *)
(* event loop runs every request; each layer runs the next one in a task   *)
(* of its own, so requests interleave between layers, and share the        *)
(* collectors of the metrics and the log.                                  *)
(***************************************************************************)
EXTENDS RouteLabels, FiniteSets, Bags

CONSTANTS
  Requests,   \* the requests of a behaviour
  Segments,   \* the segments of paths and templates
  DocsSegments, \* those that begin as a path of the documentation does: docs, redoc, openapi.json
  Targets,    \* [method, path] of what they may ask for
  Traces,     \* the ids that callers send as X-Request-ID
  Routes,     \* the routes: [prefix, template, kind], in the order they are mounted
  Errors      \* the exceptions that handlers raise, of those in MappedTo

MetricsPath == <<"metrics">>
Unmatched   == <<"unmatched">>

\* register_exception_handlers.
MappedTo ==
  [NotFoundError |-> 404, ConflictError |-> 409, UnauthorizedError |-> 401,
   BusinessRuleError |-> 422, InsufficientStockError |-> 422, InvalidStatusTransitionError |-> 422]

Statuses == {200, 400, 401, 404, 409, 422, 500, 503}

\* The prefix of a route is a constant of the code: "/api/v1", or nothing.
ASSUME PipelineAssumption ==
  /\ IsFiniteSet(Requests) /\ Requests \cap Traces = {}
  /\ None \notin Requests \cup Traces \cup Statuses \cup Seq(Segments)
  /\ Targets \subseteq [method : STRING, path : Seq(Segments)]
  /\ Routes \in Seq([prefix : Seq(Segments \ {Param}), template : Seq(Segments) \ {<<>>},
                     kind : {"api", "readiness", "static"}])
  /\ \A i \in DOMAIN Routes : Routes[i] # None
  /\ Errors \subseteq DOMAIN MappedTo

VARIABLES
  database,               \* external: whether the database answers
  pc,                     \* the layer each request is about to run
  target, supplied,       \* what each request asks for, and the id its caller sent
  request_id,             \* request.state.request_id
  context,                \* request_id_ctx in the task of the RequestId middleware
  copied,                 \* request_id_ctx in the tasks started below it
  provisional,            \* the label under which a request is in progress
  response,               \* the response on its way out: status and headers
  log,                    \* the lines written: [request, logger, id]
  in_progress,            \* http_requests_in_progress
  requests_total,         \* http_requests_total: a bag of <<label, status>>
  exceptions_total,       \* http_exceptions_total: a bag of labels
  durations               \* http_request_duration_seconds, its count: a bag of labels

collectors == <<in_progress, requests_total, exceptions_total, durations>>
tracing    == <<request_id, context, copied, log>>
vars == <<database, pc, target, supplied, provisional, response, tracing, collectors>>

Methods == {t.method : t \in Targets} \ {"OPTIONS"}
Labels  ==
  Methods \X ({Unmatched} \cup {Routes[i].template : i \in DOMAIN Routes}
                          \cup {Routes[i].prefix \o Routes[i].template : i \in DOMAIN Routes})

NoTarget   == [method |-> "GET", path |-> <<>>]
NoResponse == [status |-> None, headers |-> {}]
Layers     == {"tag", "meter", "route", "handle", "secure", "count", "finish", "error"}

TypeOK ==
  /\ database \in {"up", "down"}
  /\ pc \in [Requests -> {"idle", "answered"} \cup Layers]
  /\ target \in [Requests -> Targets \cup {NoTarget}]
  /\ \A f \in {supplied, request_id, context, copied} : f \in [Requests -> Requests \cup Traces \cup {None}]
  /\ provisional \in [Requests -> Labels \cup {None}]
  /\ response \in [Requests -> [status : Statuses \cup {None},
                                headers : SUBSET {"security", "policy", "request_id"}]]
  /\ log \subseteq [request : Requests, logger : {"handler", "access"}, id : Requests \cup Traces \cup {None}]
  /\ in_progress \in [Labels -> Int]
  /\ IsABag(requests_total) /\ BagToSet(requests_total) \subseteq Labels \X Statuses
  /\ \A counter \in {exceptions_total, durations} : IsABag(counter) /\ BagToSet(counter) \subseteq Labels

Init ==
  /\ database = "up"
  /\ pc = [r \in Requests |-> "idle"] /\ target = [r \in Requests |-> NoTarget]
  /\ \E none \in {[r \in Requests |-> None]} :
       supplied = none /\ request_id = none /\ context = none /\ copied = none /\ provisional = none
  /\ response = [r \in Requests |-> NoResponse] /\ log = {}
  /\ in_progress = [l \in Labels |-> 0]
  /\ requests_total = EmptyBag /\ exceptions_total = EmptyBag /\ durations = EmptyBag

Goto(r, layer) == pc' = [pc EXCEPT ![r] = layer]

Respond(r, status) == response' = [response EXCEPT ![r] = [status |-> status, headers |-> {}]]

\* A line in the log, with the id that the context of the task holds (RequestIdFilter).
Write(r, logger, id) == log' = log \cup {[request |-> r, logger |-> logger, id |-> id]}

\* A response that is on its way out; an exception has none.
HasResponse(r) == response[r].status # None

-----------------------------------------------------------------------------
(***************************************************************************)
(* On the way in                                                           *)
(***************************************************************************)

\* The CORS layer answers a preflight itself, by whether the origin is allowed.
Receive(r) ==
  /\ pc[r] = "idle"
  /\ \E t \in Targets, id \in Traces \cup {None} :
       /\ target' = [target EXCEPT ![r] = t] /\ supplied' = [supplied EXCEPT ![r] = id]
       /\ \/ t.method = "OPTIONS" /\ Goto(r, "answered") /\ \E s \in {200, 400} : Respond(r, s)
          \/ t.method # "OPTIONS" /\ Goto(r, "tag") /\ UNCHANGED response
  /\ UNCHANGED <<database, provisional, tracing, collectors>>

\* RequestIdMiddleware, before call_next: the caller's id or a fresh one, which r stands for.
TagRequest(r) ==
  LET id == IF supplied[r] = None THEN r ELSE supplied[r] IN
  /\ pc[r] = "tag"
  /\ request_id' = [request_id EXCEPT ![r] = id]
  /\ context' = [context EXCEPT ![r] = id] /\ copied' = [copied EXCEPT ![r] = id]
  /\ Goto(r, "meter")
  /\ UNCHANGED <<database, target, supplied, provisional, response, log, collectors>>

Measured(r) == target[r].path # MetricsPath

\* _match_route: the bare template of the route, when the framework lets its included
\* routes be matched one by one; else nothing.
MatchRoute(path) ==
  LET route == RouteOf(Routes, path) IN
  IF route = None THEN {None} ELSE IF route.prefix = <<>> THEN {route.template} ELSE {route.template, None}

\* MetricsMiddleware, before call_next.
StartMeasuring(r) ==
  /\ pc[r] = "meter" /\ Goto(r, "route")
  /\ IF Measured(r)
       THEN \E template \in MatchRoute(target[r].path) :
              LET label == <<target[r].method, IF template = None THEN Unmatched ELSE template>> IN
              /\ provisional' = [provisional EXCEPT ![r] = label]
              /\ in_progress' = [in_progress EXCEPT ![label] = @ + 1]
       ELSE UNCHANGED <<provisional, in_progress>>
  /\ UNCHANGED <<database, target, supplied, response, tracing, requests_total, exceptions_total, durations>>

Route(r) ==
  /\ pc[r] = "route"
  /\ IF RouteOf(Routes, target[r].path) = None
       THEN Respond(r, 404) /\ Goto(r, "secure")
       ELSE Goto(r, "handle") /\ UNCHANGED response
  /\ UNCHANGED <<database, target, supplied, provisional, tracing, collectors>>

-----------------------------------------------------------------------------
(***************************************************************************)
(* The handlers                                                            *)
(***************************************************************************)

DatabaseChanges ==
  /\ database' = (IF database = "up" THEN "down" ELSE "up")
  /\ UNCHANGED <<pc, target, supplied, provisional, response, tracing, collectors>>

\* A handler raised, and no exception handler takes it: there is no response.
Raises(r) == Goto(r, "count") /\ UNCHANGED <<response, log>>

\* health, liveness, metrics, and the pages of the documentation.
HandleStatic(r) == Respond(r, 200) /\ Goto(r, "secure") /\ UNCHANGED log

HandleReadiness(r) ==
  Respond(r, IF database = "up" THEN 200 ELSE 503) /\ Goto(r, "secure") /\ UNCHANGED log

\* Mutant of HandleApi: the handler waits until the database answers.
HandleApiWaiting(r) ==
  /\ database = "up"
  /\ Write(r, "handler", copied[r])
  /\ \E s \in {200} \cup {MappedTo[e] : e \in Errors} : Respond(r, s)
  /\ Goto(r, "secure")

\* A handler of a controller writes lines, answers, or raises: what register_exception_handlers
\* maps becomes a response, and a database that does not answer is not mapped.
HandleApi(r) ==
  \/ /\ database = "up"
     /\ Write(r, "handler", copied[r])
     /\ \E s \in {200} \cup {MappedTo[e] : e \in Errors} : Respond(r, s)
     /\ Goto(r, "secure")
  \/ database = "down" /\ Raises(r)

Handle(r) ==
  LET kind == RouteOf(Routes, target[r].path).kind IN
  /\ pc[r] = "handle"
  /\ \/ kind = "static"    /\ HandleStatic(r)
     \/ kind = "readiness" /\ HandleReadiness(r)
     \/ kind = "api"       /\ HandleApi(r)
  /\ UNCHANGED <<database, target, supplied, provisional, request_id, context, copied, collectors>>

-----------------------------------------------------------------------------
(***************************************************************************)
(* On the way out                                                          *)
(***************************************************************************)

AddHeaders(r, headers) ==
  response' = [response EXCEPT ![r] = [status |-> @.status, headers |-> @.headers \cup headers]]

\* path.startswith(_DOCS_PATHS): none of them has more than one segment.
InDocs(path) == path # <<>> /\ path[1] \in DocsSegments

\* SecurityHeadersMiddleware; an exception passes it by.
SecureResponse(r) ==
  /\ pc[r] = "secure" /\ Goto(r, "count")
  /\ AddHeaders(r, {"security"} \cup IF InDocs(target[r].path) THEN {} ELSE {"policy"})
  /\ UNCHANGED <<database, target, supplied, provisional, tracing, collectors>>

FinalLabel(r) ==
  LET route == RouteOf(Routes, target[r].path) IN
  <<target[r].method,
    EndpointLabel(target[r].path, IF route = None THEN None ELSE route.template, provisional[r][2])>>

\* Mutant of Release: the label known by now, in place of the one that was counted up.
ReleaseFinal(r) == in_progress' = [in_progress EXCEPT ![FinalLabel(r)] = @ - 1]

\* finally: in_progress.dec(), on the collector the request was counted up on.
Release(r) == in_progress' = [in_progress EXCEPT ![provisional[r]] = @ - 1]

Inc(counter, label) == counter (+) SetToBag({label})

RecordException(r) ==
  exceptions_total' = IF HasResponse(r) THEN exceptions_total ELSE Inc(exceptions_total, FinalLabel(r))

\* Mutant of Record: an exception is not counted as the 500 it becomes.
RecordAnswered(r) ==
  /\ requests_total' = IF HasResponse(r) THEN Inc(requests_total, <<FinalLabel(r), response[r].status>>)
                                         ELSE requests_total
  /\ durations' = Inc(durations, FinalLabel(r)) /\ RecordException(r)

\* The counters of a request that has a response, or that raised and becomes a 500.
Record(r) ==
  /\ requests_total' = Inc(requests_total, <<FinalLabel(r), IF HasResponse(r) THEN response[r].status ELSE 500>>)
  /\ durations' = Inc(durations, FinalLabel(r)) /\ RecordException(r)

\* MetricsMiddleware, after call_next.
Count(r) ==
  /\ pc[r] = "count" /\ Goto(r, "finish")
  /\ IF Measured(r) THEN Record(r) /\ Release(r) ELSE UNCHANGED collectors
  /\ UNCHANGED <<database, target, supplied, provisional, response, tracing>>

\* Mutant of Finish: the line is written after the reset.
FinishResetFirst(r) ==
  /\ pc[r] = "finish" /\ context' = [context EXCEPT ![r] = None]
  /\ IF HasResponse(r)
       THEN /\ IF Measured(r) THEN Write(r, "access", context'[r]) ELSE UNCHANGED log
            /\ AddHeaders(r, {"request_id"}) /\ Goto(r, "answered")
       ELSE Goto(r, "error") /\ UNCHANGED <<response, log>>
  /\ UNCHANGED <<database, target, supplied, provisional, request_id, copied, collectors>>

\* RequestIdMiddleware, after call_next: the line, the reset of the context, the header.
\* An exception is only followed by the reset.
Finish(r) ==
  /\ pc[r] = "finish" /\ context' = [context EXCEPT ![r] = None]
  /\ IF HasResponse(r)
       THEN /\ IF Measured(r) THEN Write(r, "access", context[r]) ELSE UNCHANGED log
            /\ AddHeaders(r, {"request_id"}) /\ Goto(r, "answered")
       ELSE Goto(r, "error") /\ UNCHANGED <<response, log>>
  /\ UNCHANGED <<database, target, supplied, provisional, request_id, copied, collectors>>

\* The outermost layer turns an exception into a bare 500.
AnswerError(r) ==
  /\ pc[r] = "error" /\ Respond(r, 500) /\ Goto(r, "answered")
  /\ UNCHANGED <<database, target, supplied, provisional, tracing, collectors>>

-----------------------------------------------------------------------------
Step(r) ==
  \/ TagRequest(r) \/ StartMeasuring(r) \/ Route(r) \/ Handle(r)
  \/ SecureResponse(r) \/ Count(r) \/ Finish(r) \/ AnswerError(r)

Next == DatabaseChanges \/ \E r \in Requests : Receive(r) \/ Step(r)

\* The event loop runs every task that is ready, and a query returns or fails.
Fairness == \A r \in Requests : WF_vars(Step(r))

Spec == Init /\ [][Next]_vars /\ Fairness

-----------------------------------------------------------------------------
(***************************************************************************)
(* Properties                                                              *)
(***************************************************************************)

InProgress(r) == pc[r] \in {"route", "handle", "secure", "count"} /\ Measured(r)

\* The gauge shows what is in progress, label by label, though the label of a request
\* changes while it is; it never drifts and never goes below zero.
\* (MetricsMiddleware.dispatch; the panel and the test on requests in progress.)
GaugeMatchesRequests ==
  \A l \in Labels : in_progress[l] = Cardinality({r \in Requests : InProgress(r) /\ provisional[r] = l})

Counted(r) == pc[r] \in {"finish", "error", "answered"} /\ Measured(r) /\ target[r].method # "OPTIONS"

\* The status that goes to the caller, once it is settled.
Status(r) == IF HasResponse(r) THEN response[r].status ELSE 500

\* The full template of a request's route, which names no order, client or vehicle.
Template(r) ==
  LET route == RouteOf(Routes, target[r].path)
  IN IF route = None THEN Unmatched ELSE route.prefix \o route.template

LabelOf  == [r \in Requests |-> <<target[r].method, Template(r)>>]
AnswerOf == [r \in Requests |-> <<LabelOf[r], Status(r)>>]

\* How many requests of S there are under each key: a bag.
Tally(key, S) == [k \in {key[r] : r \in S} |-> Cardinality({r \in S : key[r] = k})]

\* What the counters say is what callers got: each request that passed the middleware is
\* counted once, under the full template of its route and the status its caller receives,
\* be it an answer, an error mapped to one, or an exception that a layer further out
\* turns into a 500; the alert on 5xx and the one on exceptions see the same requests.
\* (MetricsMiddleware.dispatch, _endpoint_label, register_exception_handlers.)
CountersMatchAnswers ==
  LET counted == {r \in Requests : Counted(r)}
      raised  == {r \in Requests : Counted(r) /\ Status(r) = 500}
  IN /\ requests_total = Tally(AnswerOf, counted)
     /\ exceptions_total = Tally(LabelOf, raised)
     /\ durations = Tally(LabelOf, counted)

\* A request that ends with an X-Request-ID can be followed in the log: there is a line of
\* its end, and that line and those of its handler all carry the id in the header, though
\* other requests ran in between.
\* (RequestIdMiddleware, RequestIdFilter: the line is written before the reset.)
LinesCarryTheirRequest ==
  /\ \A line \in log : line.id = request_id[line.request]
  /\ \A r \in Requests :
       pc[r] = "answered" /\ "request_id" \in response[r].headers /\ Measured(r) =>
         \E line \in log : line.request = r /\ line.logger = "access"

\* Every request is answered, whether or not the database ever answers again.
EveryRequestAnswered == \A r \in Requests : pc[r] = "tag" ~> pc[r] = "answered"
=============================================================================
