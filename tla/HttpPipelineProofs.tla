------------------------- MODULE HttpPipelineProofs -------------------------
(***************************************************************************)
(* What HttpPipeline keeps for any number of requests, any routes and any  *)
(* targets: its types, with every label a template of a route; the gauge   *)
(* of the requests in progress; and the log by which a request can be      *)
(* followed.                                                               *)
(***************************************************************************)
EXTENDS HttpPipeline, TLAPS, FiniteSetTheorems, SequenceTheorems, WellFoundedInduction

AnyRoute == [prefix : Seq(Segments \ {Param}), template : Seq(Segments) \ {<<>>},
             kind : {"api", "readiness", "static"}]

-----------------------------------------------------------------------------
(***************************************************************************)
(* Routes and labels                                                       *)
(***************************************************************************)

\* A set of numbers that is not empty has a least one.
LEMMA LeastExists ==
  ASSUME NEW T \in SUBSET Nat, T # {}
  PROVE  \E i \in T : \A q \in T : i <= q
<1> DEFINE Less == {ss \in Nat \X Nat : ss[1] < ss[2]}
<1>1. IsWellFoundedOn(Less, Nat)
  BY NatLessThanWellFounded, Zenon DEF OpToRel
<1>2. \A q, i \in Nat : <<q, i>> \notin Less => i <= q
  OBVIOUS
<1> HIDE DEF Less
<1>3. \E i \in T : \A q \in T : ~ (<<q, i>> \in Less)
  BY <1>1, WFMin
<1> QED
  BY <1>2, <1>3

\* The router answers with one of the routes, and it fits the path.
LEMMA RouteFits ==
  ASSUME NEW path, RouteOf(Routes, path) # None
  PROVE  \E i \in DOMAIN Routes :
           /\ RouteOf(Routes, path) = Routes[i]
           /\ Fits(Routes[i].prefix \o Routes[i].template, path)
<1> DEFINE fitting == {i \in DOMAIN Routes : Fits(Routes[i].prefix \o Routes[i].template, path)}
<1>1. fitting # {}
  BY DEF RouteOf
<1>2. fitting \in SUBSET Nat
  BY PipelineAssumption
<1>3. \E i \in fitting : \A q \in fitting : i <= q
  BY <1>1, <1>2, LeastExists
<1>4. RouteOf(Routes, path) = Routes[CHOOSE i \in fitting : \A q \in fitting : i <= q]
  BY <1>1, Zenon DEF RouteOf
<1> HIDE DEF fitting
<1>5. PICK i \in fitting : i = CHOOSE j \in fitting : \A q \in fitting : j <= q
  BY <1>3
<1> QED
  BY <1>4, <1>5 DEF fitting

\* Counting segments finds the prefix that the router was mounted under: the label of a
\* request is the full template of its route, whatever its parameters are (_endpoint_label).
LEMMA LabelIsTemplate ==
  ASSUME NEW route \in AnyRoute, NEW path \in Seq(Segments), NEW fallback,
         Fits(route.prefix \o route.template, path)
  PROVE  EndpointLabel(path, route.template, fallback) = route.prefix \o route.template
<1> DEFINE p == route.prefix
           t == route.template
<1>1. /\ p \in Seq(Segments \ {Param}) /\ t \in Seq(Segments) /\ t # <<>>
  BY DEF AnyRoute
<1>2. p \in Seq(Segments)
  <2>1. Segments \ {Param} \subseteq Segments
    OBVIOUS
  <2> QED
    BY <1>1, <2>1
<1> HIDE DEF p, t
<1>3. Len(p) \in Nat /\ Len(t) \in Nat /\ Len(t) > 0
  BY <1>1, <1>2
<1>4. Len(p \o t) = Len(p) + Len(t) /\ p \o t \in Seq(Segments)
  BY <1>1, <1>2
<1>5. Len(path) = Len(p) + Len(t)
  BY <1>4 DEF Fits, p, t
<1>6. \A i \in 1 .. Len(p) : p[i] = path[i]
  <2> SUFFICES ASSUME NEW i \in 1 .. Len(p)
               PROVE  p[i] = path[i]
    OBVIOUS
  <2>1. i \in DOMAIN path
    BY <1>3, <1>5
  <2>2. (p \o t)[i] = p[i]
    BY <1>1, <1>2
  <2>3. p[i] # Param
    BY <1>1
  <2>4. (p \o t)[i] \in {Param, path[i]}
    BY <2>1 DEF Fits, p, t
  <2> QED
    BY <2>2, <2>3, <2>4
<1>7. SubSeq(path, 1, Len(p)) = p
  <2> DEFINE s == SubSeq(path, 1, Len(p))
  <2>1. s \in Seq(Segments) /\ Len(s) = Len(p)
    BY <1>3, <1>5
  <2>2. \A i \in 1 .. Len(p) : s[i] = path[i]
    BY <1>3, <1>5
  <2> HIDE DEF s
  <2>3. s = p
    BY <1>2, <1>3, <1>6, <2>1, <2>2, SeqEqual
  <2> QED
    BY <2>3 DEF s
<1>8. t # None
  BY <1>1, PipelineAssumption
<1>9. Len(path) - Len(t) = Len(p) /\ Len(path) >= Len(t)
  BY <1>3, <1>5
<1> QED
  BY <1>3, <1>7, <1>8, <1>9 DEF EndpointLabel, p, t

-----------------------------------------------------------------------------
(***************************************************************************)
(* Types                                                                   *)
(***************************************************************************)

\* A request between the layers asks for something, and is no preflight.
Underway == \A r \in Requests : pc[r] \in Layers => target[r] \in Targets /\ target[r].method # "OPTIONS"

\* A request that is counted up knows under which label.
Labelled == \A r \in Requests : InProgress(r) => provisional[r] \in Labels

\* TypeOK alone is not inductive: a label is made of what a request asks for.
TypeInv == TypeOK /\ Underway /\ Labelled

LEMMA PathsAreSequences ==
  ASSUME TypeOK, NEW r \in Requests, pc[r] \in Layers, Underway
  PROVE  target[r].path \in Seq(Segments) /\ target[r].method \in Methods
BY PipelineAssumption DEF Underway, Methods

LEMMA BagGrows ==
  ASSUME NEW B, NEW S, NEW e \in S, IsABag(B), BagToSet(B) \subseteq S
  PROVE  IsABag(Inc(B, e)) /\ BagToSet(Inc(B, e)) \subseteq S
<1> DEFINE add == [x \in {e} |-> 1]
           new == [x \in (DOMAIN B) \cup {e} |-> (IF x \in DOMAIN B THEN B[x] ELSE 0)
                                                + (IF x \in {e} THEN add[x] ELSE 0)]
<1>1. Inc(B, e) = new
  BY DEF Inc, (+), SetToBag
<1>2. \A x \in DOMAIN B : B[x] \in Nat /\ B[x] > 0
  BY DEF IsABag
<1>3. DOMAIN new = (DOMAIN B) \cup {e} /\ \A x \in DOMAIN new : new[x] \in {n \in Nat : n > 0}
  BY <1>2
<1>4. new \in [DOMAIN new -> {n \in Nat : n > 0}]
  BY <1>3
<1> HIDE DEF new
<1> QED
  BY <1>1, <1>3, <1>4 DEF IsABag, BagToSet

LEMMA FinalLabelType ==
  ASSUME TypeInv, NEW r \in Requests, pc[r] = "count", Measured(r)
  PROVE  FinalLabel(r) \in Labels
<1> DEFINE path == target[r].path
           route == RouteOf(Routes, path)
           templates == {Unmatched} \cup {Routes[i].template : i \in DOMAIN Routes}
                          \cup {Routes[i].prefix \o Routes[i].template : i \in DOMAIN Routes}
<1>1. path \in Seq(Segments) /\ target[r].method \in Methods
  BY PathsAreSequences DEF TypeInv, Layers
<1>2. provisional[r] \in Labels
  BY DEF TypeInv, Labelled, InProgress
<1>3. provisional[r][2] \in templates
  BY <1>2 DEF Labels
<1>4. ASSUME route = None
      PROVE  EndpointLabel(path, None, provisional[r][2]) \in templates
  BY <1>3 DEF EndpointLabel
<1>5. ASSUME route # None
      PROVE  EndpointLabel(path, route.template, provisional[r][2]) \in templates
  <2>1. PICK i \in DOMAIN Routes : route = Routes[i] /\ Fits(Routes[i].prefix \o Routes[i].template, path)
    BY <1>5, RouteFits
  <2>2. Routes[i] \in AnyRoute
    <3>1. Routes \in Seq(AnyRoute)
      BY PipelineAssumption, Zenon DEF AnyRoute
    <3> QED
      BY <3>1
  <2>3. EndpointLabel(path, Routes[i].template, provisional[r][2]) = Routes[i].prefix \o Routes[i].template
    BY <1>1, <2>1, <2>2, LabelIsTemplate
  <2> QED
    BY <2>1, <2>3
<1> HIDE DEF path, route
<1>6. FinalLabel(r) = <<target[r].method,
        EndpointLabel(path, IF route = None THEN None ELSE route.template, provisional[r][2])>>
  BY DEF FinalLabel, path, route
<1>7. EndpointLabel(path, IF route = None THEN None ELSE route.template, provisional[r][2]) \in templates
  BY <1>4, <1>5
<1> HIDE DEF templates
<1>8. FinalLabel(r) \in Methods \X templates
  BY <1>1, <1>6, <1>7
<1> QED
  BY <1>8, Zenon DEF Labels, templates

LEMMA ProvisionalType ==
  ASSUME TypeInv, NEW r \in Requests, pc[r] = "meter", NEW template \in MatchRoute(target[r].path)
  PROVE  <<target[r].method, IF template = None THEN Unmatched ELSE template>> \in Labels
<1>1. target[r].path \in Seq(Segments) /\ target[r].method \in Methods
  BY PathsAreSequences DEF TypeInv, Layers
<1>2. template = None \/ \E i \in DOMAIN Routes : template = Routes[i].template
  BY RouteFits DEF MatchRoute
<1> QED
  BY <1>1, <1>2 DEF Labels

LEMMA TypesPreserved == TypeInv /\ [Next]_vars => TypeInv'
<1> SUFFICES ASSUME TypeInv, [Next]_vars
             PROVE  TypeInv'
  OBVIOUS
<1> USE DEF TypeInv, TypeOK, Underway, Labelled, InProgress, Measured, Goto, Respond, tracing, collectors
<1>1. ASSUME NEW r \in Requests, Receive(r)
      PROVE  TypeInv'
  <2>1. PICK t \in Targets, id \in Traces \cup {None} :
          /\ target' = [target EXCEPT ![r] = t] /\ supplied' = [supplied EXCEPT ![r] = id]
          /\ \/ t.method = "OPTIONS" /\ Goto(r, "answered") /\ \E s \in {200, 400} : Respond(r, s)
             \/ t.method # "OPTIONS" /\ Goto(r, "tag") /\ UNCHANGED response
    BY <1>1 DEF Receive
  <2>2. pc[r] = "idle" /\ UNCHANGED <<database, provisional, tracing, collectors>>
    BY <1>1 DEF Receive
  <2>3. /\ pc' \in [Requests -> {"idle", "answered"} \cup Layers] /\ pc'[r] \in {"answered", "tag"}
        /\ pc'[r] = "tag" => t.method # "OPTIONS"
        /\ \A q \in Requests \ {r} : pc'[q] = pc[q]
    <3>1. \/ t.method = "OPTIONS" /\ pc' = [pc EXCEPT ![r] = "answered"]
          \/ t.method # "OPTIONS" /\ pc' = [pc EXCEPT ![r] = "tag"]
      BY <2>1
    <3>2. pc \in [Requests -> {"idle", "answered"} \cup Layers] /\ "tag" \in Layers
      BY DEF Layers
    <3> HIDE DEF TypeInv, Layers
    <3> QED
      BY <3>1, <3>2
  <2>4. response' \in [Requests -> [status : Statuses \cup {None},
                                    headers : SUBSET {"security", "policy", "request_id"}]]
    BY <2>1 DEF Statuses
  <2>5. /\ target' \in [Requests -> Targets \cup {NoTarget}] /\ target'[r] = t
        /\ \A q \in Requests \ {r} : target'[q] = target[q]
        /\ supplied' \in [Requests -> Requests \cup Traces \cup {None}]
    BY <2>1
  <2>6. Underway' /\ Labelled'
    BY <2>2, <2>3, <2>5 DEF Layers
  <2> QED
    BY <2>2, <2>3, <2>4, <2>5, <2>6
<1>2. ASSUME NEW r \in Requests, TagRequest(r)
      PROVE  TypeInv'
  BY <1>2 DEF TagRequest, Layers
<1>3. ASSUME NEW r \in Requests, StartMeasuring(r)
      PROVE  TypeInv'
  <2>1. CASE Measured(r)
    <3>1. PICK label \in Labels : /\ provisional' = [provisional EXCEPT ![r] = label]
                                  /\ in_progress' = [in_progress EXCEPT ![label] = @ + 1]
      BY <1>3, <2>1, ProvisionalType DEF StartMeasuring
    <3> QED
      BY <1>3, <3>1 DEF StartMeasuring, Layers
  <2>2. CASE ~ Measured(r)
    BY <1>3, <2>2 DEF StartMeasuring, Layers
  <2> QED
    BY <2>1, <2>2
<1>4. ASSUME NEW r \in Requests, Route(r)
      PROVE  TypeInv'
  <2>1. /\ pc[r] = "route" /\ pc'[r] \in {"secure", "handle"} /\ pc' \in [Requests -> {"idle", "answered"} \cup Layers]
        /\ \A q \in Requests \ {r} : pc'[q] = pc[q]
    BY <1>4 DEF Route, Layers
  <2>2. response' \in [Requests -> [status : Statuses \cup {None},
                                    headers : SUBSET {"security", "policy", "request_id"}]]
    BY <1>4 DEF Route, Statuses
  <2>3. UNCHANGED <<database, target, supplied, provisional, tracing, collectors>>
    BY <1>4 DEF Route
  <2>4. Underway' /\ Labelled'
    BY <2>1, <2>3 DEF Layers
  <2> QED
    BY <2>1, <2>2, <2>3, <2>4
<1>5. ASSUME NEW r \in Requests, Handle(r)
      PROVE  TypeInv'
  <2>1. \/ \E s \in Statuses : Respond(r, s) /\ Goto(r, "secure")
        \/ Goto(r, "count") /\ UNCHANGED response
    <3> HIDE DEF Respond, Goto
    <3>1. {200} \cup {MappedTo[e] : e \in Errors} \subseteq Statuses /\ {200, 503} \subseteq Statuses
      BY PipelineAssumption DEF MappedTo, Statuses
    <3>2. CASE HandleStatic(r)
      BY <3>1, <3>2 DEF HandleStatic
    <3>3. CASE HandleReadiness(r)
      BY <3>1, <3>3 DEF HandleReadiness
    <3>4. CASE HandleApi(r)
      BY <3>1, <3>4 DEF HandleApi, Raises
    <3> QED
      BY <1>5, <3>2, <3>3, <3>4 DEF Handle
  <2>2. UNCHANGED log \/ Write(r, "handler", copied[r])
    BY <1>5 DEF Handle, HandleStatic, HandleReadiness, HandleApi, Raises
  <2>3. /\ pc[r] = "handle"
        /\ UNCHANGED <<database, target, supplied, provisional, request_id, context, copied, collectors>>
    BY <1>5 DEF Handle
  <2>4. log' \subseteq [request : Requests, logger : {"handler", "access"}, id : Requests \cup Traces \cup {None}]
    BY <2>2 DEF Write
  <2>5. /\ pc' \in [Requests -> {"idle", "answered"} \cup Layers]
        /\ \A q \in Requests : pc'[q] = IF q = r THEN pc'[r] ELSE pc[q]
        /\ pc'[r] \in {"secure", "count"}
    BY <2>1 DEF Layers
  <2>6. response' \in [Requests -> [status : Statuses \cup {None},
                                    headers : SUBSET {"security", "policy", "request_id"}]]
    BY <2>1
  <2>7. Underway' /\ Labelled'
    BY <2>3, <2>5 DEF Layers
  <2> QED
    BY <2>3, <2>4, <2>5, <2>6, <2>7
<1>6. ASSUME NEW r \in Requests, SecureResponse(r)
      PROVE  TypeInv'
  BY <1>6 DEF SecureResponse, AddHeaders, Layers
<1>7. ASSUME NEW r \in Requests, Count(r)
      PROVE  TypeInv'
  <2>1. CASE Measured(r)
    <3>1. FinalLabel(r) \in Labels /\ provisional[r] \in Labels
      BY <1>7, <2>1, FinalLabelType DEF Count
    <3>2. in_progress' \in [Labels -> Int]
      BY <1>7, <2>1, <3>1 DEF Count, Release
    <3>3. IsABag(durations') /\ BagToSet(durations') \subseteq Labels
      BY <1>7, <2>1, <3>1, BagGrows DEF Count, Record
    <3>4. IsABag(exceptions_total') /\ BagToSet(exceptions_total') \subseteq Labels
      BY <1>7, <2>1, <3>1, BagGrows DEF Count, Record, RecordException
    <3>5. IsABag(requests_total') /\ BagToSet(requests_total') \subseteq Labels \X Statuses
      <4> DEFINE status == IF HasResponse(r) THEN response[r].status ELSE 500
      <4>1. status \in Statuses
        BY DEF HasResponse, Statuses
      <4>2. <<FinalLabel(r), status>> \in Labels \X Statuses
        BY <3>1, <4>1
      <4>3. requests_total' = Inc(requests_total, <<FinalLabel(r), status>>)
        BY <1>7, <2>1 DEF Count, Record
      <4> HIDE DEF status
      <4> QED
        BY <4>2, <4>3, BagGrows
    <3> QED
      BY <1>7, <3>2, <3>3, <3>4, <3>5 DEF Count, Layers
  <2>2. CASE ~ Measured(r)
    BY <1>7, <2>2 DEF Count, Layers
  <2> QED
    BY <2>1, <2>2
<1>8. ASSUME NEW r \in Requests, Finish(r)
      PROVE  TypeInv'
  <2>1. CASE HasResponse(r)
    <3>1. log' \subseteq [request : Requests, logger : {"handler", "access"}, id : Requests \cup Traces \cup {None}]
      BY <1>8, <2>1 DEF Finish, Write
    <3>2. response' = [response EXCEPT ![r] = [status |-> @.status, headers |-> @.headers \cup {"request_id"}]]
      BY <1>8, <2>1 DEF Finish, AddHeaders
    <3> QED
      BY <1>8, <2>1, <3>1, <3>2 DEF Finish, Layers
  <2>2. CASE ~ HasResponse(r)
    BY <1>8, <2>2 DEF Finish, Layers
  <2> QED
    BY <2>1, <2>2
<1>9. ASSUME NEW r \in Requests, AnswerError(r)
      PROVE  TypeInv'
  BY <1>9 DEF AnswerError, Layers, Statuses
<1>10. CASE DatabaseChanges
  BY <1>10 DEF DatabaseChanges
<1>11. CASE UNCHANGED vars
  BY <1>11 DEF vars
<1> QED
  BY <1>1, <1>2, <1>3, <1>4, <1>5, <1>6, <1>7, <1>8, <1>9, <1>10, <1>11 DEF Next, Step

LEMMA TypesAtStart == Init => TypeInv
<1> SUFFICES ASSUME Init
             PROVE  TypeInv
  OBVIOUS
<1>1. IsABag(EmptyBag) /\ BagToSet(EmptyBag) = {}
  BY DEF IsABag, BagToSet, EmptyBag, SetToBag
<1> QED
  BY <1>1 DEF Init, TypeInv, TypeOK, Underway, Labelled, InProgress, Layers, NoResponse

LEMMA TypesHold == Spec => []TypeInv
<1> QED
  BY TypesAtStart, TypesPreserved, PTL DEF Spec

\* Whatever the requests, the routes and the order of the layers: every collector is kept
\* under labels of the routes and never under a path of a caller (MetricsMiddleware,
\* _endpoint_label), and every status is one the application answers.
THEOREM LabelsComeFromRoutes == Spec => []TypeOK
<1>1. TypeInv => TypeOK
  BY DEF TypeInv
<1> QED
  BY TypesHold, <1>1, PTL

-----------------------------------------------------------------------------
(***************************************************************************)
(* The gauge                                                               *)
(***************************************************************************)

\* The requests in progress under a label.
Holders(l) == {r \in Requests : InProgress(r) /\ provisional[r] = l}

LEMMA HoldersFinite ==
  ASSUME NEW l
  PROVE  IsFiniteSet(Holders(l)) /\ Holders(l) \subseteq Requests
BY PipelineAssumption, FS_Subset DEF Holders

LEMMA GaugeKept ==
  ASSUME GaugeMatchesRequests, UNCHANGED in_progress,
         \A r \in Requests : InProgress(r)' <=> InProgress(r),
         \A r \in Requests : InProgress(r) => provisional'[r] = provisional[r]
  PROVE  GaugeMatchesRequests'
<1>1. \A l : Holders(l)' = Holders(l)
  BY DEF Holders
<1> QED
  BY <1>1 DEF GaugeMatchesRequests, Holders

LEMMA GaugeGrows ==
  ASSUME TypeInv, GaugeMatchesRequests, NEW r \in Requests, NEW label \in Labels,
         ~ InProgress(r), InProgress(r)', provisional'[r] = label,
         in_progress' = [in_progress EXCEPT ![label] = @ + 1],
         \A q \in Requests \ {r} : (InProgress(q)' <=> InProgress(q)) /\ provisional'[q] = provisional[q]
  PROVE  GaugeMatchesRequests'
<1> SUFFICES ASSUME NEW l \in Labels
             PROVE  in_progress'[l] = Cardinality(Holders(l)')
  BY DEF GaugeMatchesRequests, Holders
<1>1. in_progress[l] = Cardinality(Holders(l)) /\ in_progress \in [Labels -> Int]
  BY DEF GaugeMatchesRequests, Holders, TypeInv, TypeOK
<1>2. CASE l = label
  <2>1. Holders(l)' = Holders(l) \cup {r} /\ r \notin Holders(l)
    BY <1>2 DEF Holders
  <2>2. Cardinality(Holders(l)') = Cardinality(Holders(l)) + 1
    BY <2>1, HoldersFinite, FS_AddElement
  <2> QED
    BY <1>1, <1>2, <2>2
<1>3. CASE l # label
  <2>1. Holders(l)' = Holders(l)
    BY <1>3 DEF Holders
  <2> QED
    BY <1>1, <1>3, <2>1
<1> QED
  BY <1>2, <1>3

LEMMA GaugeShrinks ==
  ASSUME TypeInv, GaugeMatchesRequests, NEW r \in Requests,
         InProgress(r), ~ InProgress(r)',
         in_progress' = [in_progress EXCEPT ![provisional[r]] = @ - 1],
         UNCHANGED provisional,
         \A q \in Requests \ {r} : InProgress(q)' <=> InProgress(q)
  PROVE  GaugeMatchesRequests'
<1> SUFFICES ASSUME NEW l \in Labels
             PROVE  in_progress'[l] = Cardinality(Holders(l)')
  BY DEF GaugeMatchesRequests, Holders
<1>1. in_progress[l] = Cardinality(Holders(l)) /\ in_progress \in [Labels -> Int]
  BY DEF GaugeMatchesRequests, Holders, TypeInv, TypeOK
<1>2. CASE l = provisional[r]
  <2>1. Holders(l)' = Holders(l) \ {r} /\ r \in Holders(l)
    BY <1>2 DEF Holders
  <2>2. Cardinality(Holders(l)') = Cardinality(Holders(l)) - 1
    BY <2>1, HoldersFinite, FS_RemoveElement
  <2> QED
    BY <1>1, <1>2, <2>2
<1>3. CASE l # provisional[r]
  <2>1. Holders(l)' = Holders(l)
    BY <1>3 DEF Holders
  <2> QED
    BY <1>1, <1>3, <2>1
<1> QED
  BY <1>2, <1>3

LEMMA GaugePreserved == TypeInv /\ GaugeMatchesRequests /\ [Next]_vars => GaugeMatchesRequests'
<1> SUFFICES ASSUME TypeInv, GaugeMatchesRequests, [Next]_vars
             PROVE  GaugeMatchesRequests'
  OBVIOUS
<1>0. pc \in [Requests -> {"idle", "answered"} \cup Layers] /\ provisional \in [Requests -> Labels \cup {None}]
  BY DEF TypeInv, TypeOK
<1> USE DEF InProgress, Measured, Goto, tracing, collectors
<1>1. ASSUME NEW r \in Requests, Receive(r)
      PROVE  GaugeMatchesRequests'
  <2>1. \A q \in Requests : (InProgress(q)' <=> InProgress(q)) /\ provisional'[q] = provisional[q]
    BY <1>0, <1>1 DEF Receive, TypeInv, TypeOK
  <2> QED
    BY <1>1, <2>1, GaugeKept DEF Receive
<1>2. ASSUME NEW r \in Requests, StartMeasuring(r)
      PROVE  GaugeMatchesRequests'
  <2>1. CASE Measured(r)
    <3>1. PICK label \in Labels : /\ provisional' = [provisional EXCEPT ![r] = label]
                                  /\ in_progress' = [in_progress EXCEPT ![label] = @ + 1]
      BY <1>2, <2>1, ProvisionalType DEF StartMeasuring
    <3>2. ~ InProgress(r) /\ InProgress(r)' /\ provisional'[r] = label
      BY <1>0, <1>2, <2>1, <3>1 DEF StartMeasuring
    <3>3. \A q \in Requests \ {r} : (InProgress(q)' <=> InProgress(q)) /\ provisional'[q] = provisional[q]
      BY <1>0, <1>2, <3>1 DEF StartMeasuring
    <3> HIDE DEF InProgress
    <3> QED
      BY <3>1, <3>2, <3>3, GaugeGrows
  <2>2. CASE ~ Measured(r)
    <3>1. \A q \in Requests : (InProgress(q)' <=> InProgress(q)) /\ provisional'[q] = provisional[q]
      BY <1>0, <1>2, <2>2 DEF StartMeasuring
    <3> QED
      BY <1>2, <2>2, <3>1, GaugeKept DEF StartMeasuring
  <2> QED
    BY <2>1, <2>2
<1>3. ASSUME NEW r \in Requests, Count(r)
      PROVE  GaugeMatchesRequests'
  <2>1. CASE Measured(r)
    <3>1. InProgress(r) /\ ~ InProgress(r)' /\ UNCHANGED provisional
      BY <1>0, <1>3, <2>1 DEF Count
    <3>2. \A q \in Requests \ {r} : InProgress(q)' <=> InProgress(q)
      BY <1>0, <1>3 DEF Count
    <3>3. in_progress' = [in_progress EXCEPT ![provisional[r]] = @ - 1]
      BY <1>3, <2>1 DEF Count, Release
    <3> HIDE DEF InProgress
    <3> QED
      BY <3>1, <3>2, <3>3, GaugeShrinks
  <2>2. CASE ~ Measured(r)
    <3>1. \A q \in Requests : (InProgress(q)' <=> InProgress(q)) /\ provisional'[q] = provisional[q]
      BY <1>0, <1>3, <2>2 DEF Count
    <3> QED
      BY <1>3, <2>2, <3>1, GaugeKept DEF Count
  <2> QED
    BY <2>1, <2>2
<1>4. ASSUME NEW r \in Requests,
             TagRequest(r) \/ Route(r) \/ Handle(r) \/ SecureResponse(r) \/ Finish(r) \/ AnswerError(r)
      PROVE  GaugeMatchesRequests'
  <2>1. UNCHANGED <<target, provisional, in_progress>>
    BY <1>4 DEF TagRequest, Route, Handle, SecureResponse, Finish, AnswerError
  <2>2. \A q \in Requests : InProgress(q)' <=> InProgress(q)
    BY <1>0, <1>4, <2>1 DEF TagRequest, Route, Handle, HandleStatic, HandleReadiness, HandleApi, Raises,
                            SecureResponse, Finish, AnswerError
  <2> QED
    BY <2>1, <2>2, GaugeKept
<1>5. CASE DatabaseChanges \/ UNCHANGED vars
  BY <1>5, GaugeKept DEF DatabaseChanges, vars
<1> QED
  BY <1>1, <1>2, <1>3, <1>4, <1>5 DEF Next, Step

\* The gauge of requests in progress is exact under every label, whatever the interleaving
\* and whatever raises, though the label a request is counted under last may differ from
\* the one it was counted up under (MetricsMiddleware.dispatch).
THEOREM GaugeIsExact == Spec => []GaugeMatchesRequests
<1>1. Init => GaugeMatchesRequests
  <2> SUFFICES ASSUME Init, NEW l \in Labels
               PROVE  in_progress[l] = Cardinality(Holders(l))
    BY DEF GaugeMatchesRequests, Holders
  <2>1. Holders(l) = {}
    BY DEF Init, Holders, InProgress
  <2> QED
    BY <2>1, FS_EmptySet DEF Init
<1> QED
  BY <1>1, TypesHold, GaugePreserved, PTL DEF Spec

-----------------------------------------------------------------------------
(***************************************************************************)
(* The log                                                                 *)
(***************************************************************************)

InFlight == {"meter", "route", "handle", "secure", "count", "finish"}

\* No line is written before the id is set; the context holds it until the last line; and
\* the header is set together with that line.
Traced ==
  /\ \A line \in log : line.id = request_id[line.request] /\ pc[line.request] \notin {"idle", "tag"}
  /\ \A r \in Requests : pc[r] \in InFlight => context[r] = request_id[r] /\ copied[r] = request_id[r]
  /\ \A r \in Requests : "request_id" \in response[r].headers =>
       /\ pc[r] = "answered"
       /\ Measured(r) => \E line \in log : line.request = r /\ line.logger = "access"

LEMMA TracedPreserved == TypeInv /\ Traced /\ [Next]_vars => Traced'
<1> SUFFICES ASSUME TypeInv, Traced, [Next]_vars
             PROVE  Traced'
  OBVIOUS
<1>0. /\ pc \in [Requests -> {"idle", "answered"} \cup Layers]
      /\ \A f \in {request_id, context, copied} : f \in [Requests -> Requests \cup Traces \cup {None}]
      /\ response \in [Requests -> [status : Statuses \cup {None},
                                    headers : SUBSET {"security", "policy", "request_id"}]]
      /\ log \subseteq [request : Requests, logger : {"handler", "access"}, id : Requests \cup Traces \cup {None}]
      /\ target \in [Requests -> Targets \cup {NoTarget}]
  BY DEF TypeInv, TypeOK
<1> USE DEF Traced, InFlight, Measured, Goto, Respond, tracing, collectors
<1>1. ASSUME NEW r \in Requests, Receive(r)
      PROVE  Traced'
  BY <1>0, <1>1 DEF Receive
<1>2. ASSUME NEW r \in Requests, TagRequest(r)
      PROVE  Traced'
  BY <1>0, <1>2 DEF TagRequest
<1>3. ASSUME NEW r \in Requests, StartMeasuring(r)
      PROVE  Traced'
  BY <1>0, <1>3 DEF StartMeasuring
<1>4. ASSUME NEW r \in Requests, Route(r)
      PROVE  Traced'
  <2>1. /\ pc[r] = "route" /\ pc'[r] \in {"secure", "handle"}
        /\ \A q \in Requests \ {r} : pc'[q] = pc[q]
    BY <1>0, <1>4 DEF Route
  <2>2. \A q \in Requests : response'[q] = response[q] \/ (q = r /\ response'[q].headers = {})
    BY <1>0, <1>4 DEF Route
  <2>3. UNCHANGED <<target, request_id, context, copied, log>>
    BY <1>4 DEF Route
  <2> QED
    BY <1>0, <2>1, <2>2, <2>3
<1>5. ASSUME NEW r \in Requests, Handle(r)
      PROVE  Traced'
  BY <1>0, <1>5 DEF Handle, HandleStatic, HandleReadiness, HandleApi, Raises, Write
<1>6. ASSUME NEW r \in Requests, SecureResponse(r)
      PROVE  Traced'
  BY <1>0, <1>6 DEF SecureResponse, AddHeaders
<1>7. ASSUME NEW r \in Requests, Count(r)
      PROVE  Traced'
  BY <1>0, <1>7 DEF Count
<1>8. ASSUME NEW r \in Requests, Finish(r)
      PROVE  Traced'
  <2>1. /\ pc[r] = "finish" /\ UNCHANGED <<target, request_id, copied>>
        /\ context' = [context EXCEPT ![r] = None]
        /\ \A q \in Requests \ {r} : pc'[q] = pc[q]
        /\ pc'[r] \in {"answered", "error"} /\ (HasResponse(r) => pc'[r] = "answered")
    BY <1>0, <1>8 DEF Finish
  <2>2. \A q \in Requests \ {r} : response'[q] = response[q]
    BY <1>0, <1>8 DEF Finish, AddHeaders
  <2>3. log \subseteq log' /\ \A line \in log' : line \in log \/ (line.request = r /\ line.id = context[r])
    <3>1. \/ log' = log \cup {[request |-> r, logger |-> "access", id |-> context[r]]}
          \/ UNCHANGED log
      BY <1>8 DEF Finish, Write
    <3> QED
      BY <3>1
  <2>4. CASE HasResponse(r)
    <3>1. ASSUME Measured(r)
          PROVE  \E line \in log' : line.request = r /\ line.logger = "access"
      <4> DEFINE last == [request |-> r, logger |-> "access", id |-> context[r]]
      <4>1. last \in log'
        BY <1>8, <2>4, <3>1 DEF Finish, Write
      <4>2. last.request = r /\ last.logger = "access"
        OBVIOUS
      <4> HIDE DEF last
      <4> QED
        BY <4>1, <4>2
    <3> QED
      BY <1>0, <2>1, <2>2, <2>3, <2>4, <3>1
  <2>5. CASE ~ HasResponse(r)
    <3>1. UNCHANGED <<response, log>>
      BY <1>8, <2>5 DEF Finish
    <3> QED
      BY <1>0, <2>1, <2>2, <2>3, <3>1
  <2> QED
    BY <2>4, <2>5
<1>9. ASSUME NEW r \in Requests, AnswerError(r)
      PROVE  Traced'
  BY <1>0, <1>9 DEF AnswerError
<1>10. CASE DatabaseChanges \/ UNCHANGED vars
  BY <1>10 DEF DatabaseChanges, vars
<1> QED
  BY <1>1, <1>2, <1>3, <1>4, <1>5, <1>6, <1>7, <1>8, <1>9, <1>10 DEF Next, Step

\* Every line of the log carries the id of its own request, however many requests share
\* the loop, and a request that ends with an X-Request-ID has a line of its end
\* (RequestIdMiddleware, RequestIdFilter).
THEOREM LogCanBeFollowed == Spec => []LinesCarryTheirRequest
<1>1. Init => Traced
  BY DEF Init, Traced, InFlight, NoResponse
<1>2. Traced => LinesCarryTheirRequest
  BY DEF Traced, LinesCarryTheirRequest
<1> QED
  BY <1>1, <1>2, TypesHold, TracedPreserved, PTL DEF Spec

-----------------------------------------------------------------------------
(***************************************************************************)
(* The counters                                                            *)
(***************************************************************************)

\* A tally depends on the keys of its set alone, and one member more is one increment.
LEMMA TallyKept ==
  ASSUME NEW S, NEW key, NEW key2, \A q \in S : key2[q] = key[q]
  PROVE  Tally(key2, S) = Tally(key, S)
<1>1. {key2[q] : q \in S} = {key[q] : q \in S}
  OBVIOUS
<1>2. \A k : {q \in S : key2[q] = k} = {q \in S : key[q] = k}
  OBVIOUS
<1> QED
  BY <1>1, <1>2 DEF Tally

LEMMA TallyGrows ==
  ASSUME NEW S, IsFiniteSet(S), NEW r, r \notin S, NEW key, NEW key2, \A q \in S : key2[q] = key[q]
  PROVE  Tally(key2, S \cup {r}) = Inc(Tally(key, S), key2[r])
<1> DEFINE T == S \cup {r}
           e == key2[r]
           keys == {key[q] : q \in S}
           old == [k \in keys |-> Cardinality({q \in S : key[q] = k})]
           new == [k \in keys \cup {e} |-> Cardinality({q \in T : key2[q] = k})]
           add == [x \in {e} |-> 1]
           inc == [x \in keys \cup {e} |-> (IF x \in keys THEN old[x] ELSE 0) + (IF x \in {e} THEN add[x] ELSE 0)]
<1>1. Tally(key, S) = old /\ DOMAIN old = keys
  BY DEF Tally
<1>2. {key2[q] : q \in T} = keys \cup {e}
  OBVIOUS
<1>3. Tally(key2, T) = new
  BY <1>2 DEF Tally
<1>4. Inc(Tally(key, S), e) = inc
  <2> HIDE DEF old
  <2> QED
    BY <1>1 DEF Inc, (+), SetToBag
<1>5. ASSUME NEW k \in keys \cup {e}
      PROVE  new[k] = inc[k]
  <2> DEFINE A == {q \in S : key[q] = k}
             B == {q \in T : key2[q] = k}
  <2>1. IsFiniteSet(A) /\ Cardinality(A) \in Nat
    BY FS_Subset, FS_CardinalityType
  <2>2. inc[k] = (IF k \in keys THEN Cardinality(A) ELSE 0) + (IF k = e THEN 1 ELSE 0)
    OBVIOUS
  <2>3. k \notin keys => A = {} /\ Cardinality(A) = 0
    BY FS_EmptySet
  <2>4. inc[k] = Cardinality(A) + (IF k = e THEN 1 ELSE 0)
    <3> HIDE DEF inc, A
    <3> QED
      BY <2>1, <2>2, <2>3
  <2>5. CASE k = e
    <3>1. B = A \cup {r} /\ r \notin A
      BY <2>5
    <3>2. Cardinality(B) = Cardinality(A) + 1
      <4> HIDE DEF A, B
      <4> QED
        BY <2>1, <3>1, FS_AddElement
    <3> QED
      BY <2>4, <2>5, <3>2
  <2>6. CASE k # e
    <3>1. B = A
      BY <2>6
    <3> HIDE DEF A, B
    <3>2. new[k] = Cardinality(B)
      BY DEF B
    <3> QED
      BY <2>1, <2>4, <2>6, <3>1, <3>2
  <2> QED
    BY <2>5, <2>6
<1> HIDE DEF new, inc
<1>6. new = inc
  BY <1>5 DEF new, inc
<1> QED
  BY <1>3, <1>4, <1>6

\* A request whose path fits no route is in progress under the one label for all of those,
\* only the outermost layer answers 500, and it runs for requests without a response.
Settling ==
  /\ \A r \in Requests : InProgress(r) /\ RouteOf(Routes, target[r].path) = None => provisional[r][2] = Unmatched
  /\ \A r \in Requests : response[r].status = 500 => pc[r] = "answered"
  /\ \A r \in Requests : pc[r] = "error" => response[r].status = None

LEMMA SettlingPreserved == TypeInv /\ Settling /\ [Next]_vars => Settling'
<1> SUFFICES ASSUME TypeInv, Settling, [Next]_vars
             PROVE  Settling'
  OBVIOUS
<1>0. /\ pc \in [Requests -> {"idle", "answered"} \cup Layers]
      /\ provisional \in [Requests -> Labels \cup {None}]
      /\ response \in [Requests -> [status : Statuses \cup {None},
                                    headers : SUBSET {"security", "policy", "request_id"}]]
      /\ target \in [Requests -> Targets \cup {NoTarget}]
  BY DEF TypeInv, TypeOK
<1> USE DEF Settling, InProgress, Measured, Goto, Respond, tracing, collectors
<1>1. ASSUME NEW r \in Requests, Receive(r)
      PROVE  Settling'
  <2>1. /\ UNCHANGED provisional
        /\ \/ pc' = [pc EXCEPT ![r] = "answered"] /\ \E s \in {200, 400} : response' = [response EXCEPT ![r] = [status |-> s, headers |-> {}]]
           \/ pc' = [pc EXCEPT ![r] = "tag"] /\ UNCHANGED response
    BY <1>1 DEF Receive
  <2>2. \A q \in Requests \ {r} : target'[q] = target[q]
    BY <1>0, <1>1 DEF Receive
  <2>3. pc[r] = "idle" /\ pc'[r] \in {"answered", "tag"} /\ \A q \in Requests \ {r} : pc'[q] = pc[q]
    BY <1>0, <1>1, <2>1 DEF Receive
  <2>4. \A q \in Requests : response'[q] = response[q] \/ (q = r /\ response'[q].status # 500 /\ pc'[q] = "answered")
    BY <1>0, <2>1
  <2> QED
    BY <2>1, <2>2, <2>3, <2>4
<1>2. ASSUME NEW r \in Requests, TagRequest(r)
      PROVE  Settling'
  BY <1>0, <1>2 DEF TagRequest
<1>3. ASSUME NEW r \in Requests, StartMeasuring(r)
      PROVE  Settling'
  <2>1. /\ pc[r] = "meter" /\ pc' = [pc EXCEPT ![r] = "route"] /\ UNCHANGED <<target, response>>
        /\ \A q \in Requests \ {r} : provisional'[q] = provisional[q]
    <3>1. pc[r] = "meter" /\ pc' = [pc EXCEPT ![r] = "route"] /\ UNCHANGED <<target, response>>
      BY <1>3 DEF StartMeasuring
    <3>2. CASE Measured(r)
      <4>1. PICK label : provisional' = [provisional EXCEPT ![r] = label]
        BY <1>3, <3>2 DEF StartMeasuring
      <4> QED
        BY <1>0, <3>1, <4>1
    <3>3. CASE ~ Measured(r)
      BY <1>3, <3>1, <3>3 DEF StartMeasuring
    <3> QED
      BY <3>2, <3>3
  <2>2. ASSUME Measured(r), RouteOf(Routes, target[r].path) = None
        PROVE  provisional'[r][2] = Unmatched
    BY <1>0, <1>3, <2>2 DEF StartMeasuring, MatchRoute
  <2>3. \A q \in Requests : pc'[q] = IF q = r THEN "route" ELSE pc[q]
    BY <1>0, <2>1
  <2>4. \A q \in Requests : InProgress(q)' /\ RouteOf(Routes, target'[q].path) = None => provisional'[q][2] = Unmatched
    BY <2>1, <2>2, <2>3
  <2> QED
    BY <1>0, <2>1, <2>3, <2>4
<1>4. ASSUME NEW r \in Requests, Route(r)
      PROVE  Settling'
  <2>1. /\ UNCHANGED <<target, provisional>>
        /\ \/ pc' = [pc EXCEPT ![r] = "secure"] /\ response' = [response EXCEPT ![r] = [status |-> 404, headers |-> {}]]
           \/ pc' = [pc EXCEPT ![r] = "handle"] /\ UNCHANGED response
    BY <1>4 DEF Route
  <2>2. pc[r] = "route" /\ pc'[r] \in {"secure", "handle"} /\ \A q \in Requests \ {r} : pc'[q] = pc[q]
    BY <1>0, <1>4, <2>1 DEF Route
  <2>3. \A q \in Requests : response'[q] = response[q] \/ (q = r /\ response'[q].status # 500)
    BY <1>0, <2>1
  <2> QED
    BY <2>1, <2>2, <2>3
<1>5. ASSUME NEW r \in Requests, Handle(r)
      PROVE  Settling'
  <2> DEFINE answers == Statuses \ {500}
  <2>1. {200} \cup {MappedTo[e] : e \in Errors} \subseteq answers /\ {200, 503} \subseteq answers
    BY PipelineAssumption DEF MappedTo, Statuses
  <2>2. \A s \in answers : s # 500
    OBVIOUS
  <2>3. pc[r] = "handle" /\ UNCHANGED <<target, provisional>>
    BY <1>5 DEF Handle
  <2> HIDE DEF answers
  <2>4. \/ \E s \in answers : Respond(r, s) /\ Goto(r, "secure")
        \/ Goto(r, "count") /\ UNCHANGED response
    <3> HIDE DEF Respond, Goto
    <3>1. CASE HandleStatic(r)
      BY <2>1, <3>1 DEF HandleStatic
    <3>2. CASE HandleReadiness(r)
      BY <2>1, <3>2 DEF HandleReadiness
    <3>3. CASE HandleApi(r)
      BY <2>1, <3>3 DEF HandleApi, Raises
    <3> QED
      BY <1>5, <3>1, <3>2, <3>3 DEF Handle
  <2> QED
    BY <1>0, <2>2, <2>3, <2>4
<1>6. ASSUME NEW r \in Requests, SecureResponse(r)
      PROVE  Settling'
  BY <1>0, <1>6 DEF SecureResponse, AddHeaders
<1>7. ASSUME NEW r \in Requests, Count(r)
      PROVE  Settling'
  BY <1>0, <1>7 DEF Count
<1>8. ASSUME NEW r \in Requests, Finish(r)
      PROVE  Settling'
  <2>1. UNCHANGED <<target, provisional>> /\ pc[r] = "finish"
    BY <1>8 DEF Finish
  <2>2. /\ pc'[r] = (IF HasResponse(r) THEN "answered" ELSE "error")
        /\ \A q \in Requests \ {r} : pc'[q] = pc[q]
    BY <1>0, <1>8 DEF Finish
  <2>3. \A q \in Requests : response'[q].status = response[q].status
    BY <1>0, <1>8 DEF Finish, AddHeaders
  <2> QED
    BY <2>1, <2>2, <2>3 DEF HasResponse
<1>9. ASSUME NEW r \in Requests, AnswerError(r)
      PROVE  Settling'
  BY <1>0, <1>9 DEF AnswerError
<1>10. CASE DatabaseChanges \/ UNCHANGED vars
  BY <1>10 DEF DatabaseChanges, vars
<1> QED
  BY <1>1, <1>2, <1>3, <1>4, <1>5, <1>6, <1>7, <1>8, <1>9, <1>10 DEF Next, Step

\* A request is counted under the full template of its route.
LEMMA FinalLabelIs ==
  ASSUME TypeInv, Settling, NEW r \in Requests, pc[r] = "count", Measured(r)
  PROVE  FinalLabel(r) = LabelOf[r]
<1> DEFINE path == target[r].path
           route == RouteOf(Routes, path)
<1>1. path \in Seq(Segments)
  BY PathsAreSequences DEF TypeInv, Layers
<1>2. CASE route = None
  <2>1. provisional[r][2] = Unmatched
    BY <1>2 DEF Settling, InProgress
  <2> QED
    BY <1>2, <2>1 DEF FinalLabel, EndpointLabel, LabelOf, Template
<1>3. CASE route # None
  <2>1. PICK i \in DOMAIN Routes : route = Routes[i] /\ Fits(Routes[i].prefix \o Routes[i].template, path)
    BY <1>3, RouteFits
  <2>2. Routes[i] \in AnyRoute
    <3>1. Routes \in Seq(AnyRoute)
      BY PipelineAssumption, Zenon DEF AnyRoute
    <3> QED
      BY <3>1
  <2>3. EndpointLabel(path, Routes[i].template, provisional[r][2]) = Routes[i].prefix \o Routes[i].template
    BY <1>1, <2>1, <2>2, LabelIsTemplate
  <2> QED
    BY <1>3, <2>1, <2>3 DEF FinalLabel, LabelOf, Template
<1> QED
  BY <1>2, <1>3

\* A step that leaves alone the collectors, and what a counted request asked for and gets,
\* keeps the counters exact.
LEMMA CountersUnmoved ==
  ASSUME CountersMatchAnswers, UNCHANGED <<requests_total, exceptions_total, durations>>,
         \A q \in Requests : Counted(q)' <=> Counted(q),
         \A q \in Requests : Counted(q) => target'[q] = target[q] /\ Status(q)' = Status(q)
  PROVE  CountersMatchAnswers'
<1> DEFINE counted == {q \in Requests : Counted(q)}
           raised == {q \in Requests : Counted(q) /\ Status(q) = 500}
<1>1. counted' = counted /\ raised' = raised /\ raised \subseteq counted
  OBVIOUS
<1>2. \A q \in counted : LabelOf'[q] = LabelOf[q]
  BY DEF LabelOf, Template
<1>3. \A q \in counted : AnswerOf'[q] = AnswerOf[q]
  BY <1>2 DEF AnswerOf
<1>4. /\ requests_total = Tally(AnswerOf, counted)
      /\ exceptions_total = Tally(LabelOf, raised)
      /\ durations = Tally(LabelOf, counted)
  BY DEF CountersMatchAnswers
<1> SUFFICES /\ requests_total' = Tally(AnswerOf', counted')
             /\ exceptions_total' = Tally(LabelOf', raised')
             /\ durations' = Tally(LabelOf', counted')
  BY Zenon DEF CountersMatchAnswers
<1> HIDE DEF counted, raised
<1>5. Tally(AnswerOf', counted) = Tally(AnswerOf, counted)
  BY <1>3, TallyKept
<1>6. Tally(LabelOf', counted) = Tally(LabelOf, counted)
  BY <1>2, TallyKept
<1>7. Tally(LabelOf', raised) = Tally(LabelOf, raised)
  BY <1>1, <1>2, TallyKept
<1> QED
  BY <1>1, <1>4, <1>5, <1>6, <1>7

\* The middleware counts a request once, under its route and the status that its caller
\* will get, which for an exception is the 500 of the outermost layer.
LEMMA CountCounts ==
  ASSUME TypeInv, Settling, CountersMatchAnswers, NEW r \in Requests, Count(r), Measured(r)
  PROVE  CountersMatchAnswers'
<1> DEFINE counted == {q \in Requests : Counted(q)}
           raised == {q \in Requests : Counted(q) /\ Status(q) = 500}
<1>1. /\ pc[r] = "count" /\ pc' = [pc EXCEPT ![r] = "finish"]
      /\ UNCHANGED <<target, response>>
      /\ pc \in [Requests -> {"idle", "answered"} \cup Layers]
  BY DEF Count, Goto, TypeInv, TypeOK
<1>2. \A q \in Requests : pc'[q] = IF q = r THEN "finish" ELSE pc[q]
  BY <1>1
<1>3. target[r].method # "OPTIONS" /\ ~ Counted(r)
  BY <1>1 DEF TypeInv, Underway, Layers, Counted
<1>4. \A q \in Requests : Counted(q)' <=> q = r \/ Counted(q)
  BY <1>1, <1>2, <1>3 DEF Counted, Measured
<1>5. \A q \in Requests : Status(q)' = Status(q)
  BY <1>1 DEF Status, HasResponse
<1>6. LabelOf' = LabelOf /\ AnswerOf' = AnswerOf
  BY <1>1, <1>5 DEF LabelOf, AnswerOf, Template
<1>7. FinalLabel(r) = LabelOf[r]
  BY <1>1, FinalLabelIs
<1>8. AnswerOf[r] = <<LabelOf[r], IF HasResponse(r) THEN response[r].status ELSE 500>>
  BY DEF AnswerOf, Status
<1>9. Status(r) = 500 <=> ~ HasResponse(r)
  BY <1>1 DEF Settling, Status, HasResponse
<1>10. /\ requests_total' = Inc(requests_total, AnswerOf[r])
       /\ durations' = Inc(durations, LabelOf[r])
       /\ exceptions_total' = IF HasResponse(r) THEN exceptions_total ELSE Inc(exceptions_total, LabelOf[r])
  BY <1>7, <1>8 DEF Count, Record, RecordException
<1>11. counted' = counted \cup {r} /\ r \notin counted
  BY <1>3, <1>4
<1>12. raised' = (IF HasResponse(r) THEN raised ELSE raised \cup {r}) /\ r \notin raised
  BY <1>3, <1>4, <1>5, <1>9
<1>13. IsFiniteSet(counted) /\ IsFiniteSet(raised)
  BY PipelineAssumption, FS_Subset
<1>14. /\ requests_total = Tally(AnswerOf, counted)
       /\ exceptions_total = Tally(LabelOf, raised)
       /\ durations = Tally(LabelOf, counted)
  BY DEF CountersMatchAnswers
<1> SUFFICES /\ requests_total' = Tally(AnswerOf', counted')
             /\ exceptions_total' = Tally(LabelOf', raised')
             /\ durations' = Tally(LabelOf', counted')
  BY Zenon DEF CountersMatchAnswers
<1> HIDE DEF counted, raised
<1>15. Tally(AnswerOf, counted \cup {r}) = Inc(Tally(AnswerOf, counted), AnswerOf[r])
  BY <1>11, <1>13, TallyGrows
<1>16. Tally(LabelOf, counted \cup {r}) = Inc(Tally(LabelOf, counted), LabelOf[r])
  BY <1>11, <1>13, TallyGrows
<1>17. Tally(LabelOf, raised \cup {r}) = Inc(Tally(LabelOf, raised), LabelOf[r])
  BY <1>12, <1>13, TallyGrows
<1> QED
  BY <1>6, <1>10, <1>11, <1>12, <1>14, <1>15, <1>16, <1>17

LEMMA CountersPreserved == TypeInv /\ Settling /\ CountersMatchAnswers /\ [Next]_vars => CountersMatchAnswers'
<1> SUFFICES ASSUME TypeInv, Settling, CountersMatchAnswers, [Next]_vars
             PROVE  CountersMatchAnswers'
  OBVIOUS
<1>0. /\ pc \in [Requests -> {"idle", "answered"} \cup Layers]
      /\ response \in [Requests -> [status : Statuses \cup {None},
                                    headers : SUBSET {"security", "policy", "request_id"}]]
      /\ target \in [Requests -> Targets \cup {NoTarget}]
  BY DEF TypeInv, TypeOK
<1> USE DEF Counted, Measured, Status, HasResponse, Goto, Respond
<1>1. ASSUME NEW r \in Requests, Receive(r)
      PROVE  CountersMatchAnswers'
  <2>1. UNCHANGED <<requests_total, exceptions_total, durations>>
    BY <1>1 DEF Receive, collectors
  <2>2. \A q \in Requests : Counted(q)' <=> Counted(q)
    BY <1>0, <1>1 DEF Receive
  <2>3. \A q \in Requests : Counted(q) => target'[q] = target[q] /\ Status(q)' = Status(q)
    BY <1>0, <1>1 DEF Receive
  <2> QED
    BY <2>1, <2>2, <2>3, CountersUnmoved
<1>2. ASSUME NEW r \in Requests, TagRequest(r)
      PROVE  CountersMatchAnswers'
  BY <1>0, <1>2, CountersUnmoved DEF TagRequest, collectors
<1>3. ASSUME NEW r \in Requests, StartMeasuring(r)
      PROVE  CountersMatchAnswers'
  BY <1>0, <1>3, CountersUnmoved DEF StartMeasuring
<1>4. ASSUME NEW r \in Requests, Route(r)
      PROVE  CountersMatchAnswers'
  <2>1. pc[r] = "route" /\ pc'[r] \in {"secure", "handle"} /\ \A q \in Requests \ {r} : pc'[q] = pc[q] /\ response'[q] = response[q]
    BY <1>0, <1>4 DEF Route
  <2> QED
    BY <1>4, <2>1, CountersUnmoved DEF Route, collectors
<1>5. ASSUME NEW r \in Requests, Handle(r)
      PROVE  CountersMatchAnswers'
  <2>1. /\ pc[r] = "handle" /\ pc'[r] \in {"secure", "count"}
        /\ \A q \in Requests \ {r} : pc'[q] = pc[q] /\ response'[q] = response[q]
    BY <1>0, <1>5 DEF Handle, HandleStatic, HandleReadiness, HandleApi, Raises
  <2> QED
    BY <1>5, <2>1, CountersUnmoved DEF Handle, collectors
<1>6. ASSUME NEW r \in Requests, SecureResponse(r)
      PROVE  CountersMatchAnswers'
  BY <1>0, <1>6, CountersUnmoved DEF SecureResponse, AddHeaders, collectors
<1>7. ASSUME NEW r \in Requests, Count(r)
      PROVE  CountersMatchAnswers'
  <2>1. CASE Measured(r)
    BY <1>7, <2>1, CountCounts
  <2>2. CASE ~ Measured(r)
    BY <1>0, <1>7, <2>2, CountersUnmoved DEF Count, collectors
  <2> QED
    BY <2>1, <2>2
<1>8. ASSUME NEW r \in Requests, Finish(r)
      PROVE  CountersMatchAnswers'
  <2>1. UNCHANGED <<target, collectors>> /\ pc[r] = "finish"
    BY <1>8 DEF Finish
  <2>2. pc'[r] \in {"answered", "error"} /\ \A q \in Requests \ {r} : pc'[q] = pc[q]
    BY <1>0, <1>8 DEF Finish
  <2>3. \A q \in Requests : response'[q].status = response[q].status
    BY <1>0, <1>8 DEF Finish, AddHeaders
  <2> QED
    BY <2>1, <2>2, <2>3, CountersUnmoved DEF collectors
<1>9. ASSUME NEW r \in Requests, AnswerError(r)
      PROVE  CountersMatchAnswers'
  <2>1. /\ UNCHANGED <<target, collectors>> /\ pc[r] = "error" /\ pc'[r] = "answered"
        /\ \A q \in Requests \ {r} : pc'[q] = pc[q] /\ response'[q] = response[q]
    BY <1>0, <1>9 DEF AnswerError
  <2>2. Status(r) = 500 /\ Status(r)' = 500
    BY <1>0, <1>9, <2>1 DEF AnswerError, Settling
  <2> QED
    BY <2>1, <2>2, CountersUnmoved DEF collectors
<1>10. CASE DatabaseChanges \/ UNCHANGED vars
  BY <1>10, CountersUnmoved DEF DatabaseChanges, vars, collectors
<1> QED
  BY <1>1, <1>2, <1>3, <1>4, <1>5, <1>6, <1>7, <1>8, <1>9, <1>10 DEF Next, Step

LEMMA CountersAtStart == Init => Settling /\ CountersMatchAnswers
<1> SUFFICES ASSUME Init
             PROVE  Settling /\ CountersMatchAnswers
  OBVIOUS
<1>1. \A r \in Requests : pc[r] = "idle" /\ response[r].status = None
  BY DEF Init, NoResponse
<1>2. None # 500
  BY PipelineAssumption DEF Statuses
<1>3. Settling
  BY <1>1, <1>2 DEF Settling, InProgress
<1>4. {r \in Requests : Counted(r)} = {} /\ {r \in Requests : Counted(r) /\ Status(r) = 500} = {}
  BY <1>1 DEF Counted
<1>5. \A key : Tally(key, {}) = EmptyBag
  BY DEF Tally, EmptyBag, SetToBag
<1>6. requests_total = EmptyBag /\ exceptions_total = EmptyBag /\ durations = EmptyBag
  BY DEF Init
<1>7. CountersMatchAnswers
  BY <1>4, <1>5, <1>6, Zenon DEF CountersMatchAnswers
<1> QED
  BY <1>3, <1>7

\* What the counters say is what callers got, for any number of requests at once: each is
\* counted once, under the template of its route and the status its caller receives, also
\* when that is the 500 that a layer further out makes of an exception
\* (MetricsMiddleware.dispatch, _endpoint_label, register_exception_handlers).
THEOREM CountersAreExact == Spec => []CountersMatchAnswers
<1>1. Settling /\ CountersMatchAnswers /\ TypeInv /\ [Next]_vars => (Settling /\ CountersMatchAnswers)'
  BY SettlingPreserved, CountersPreserved
<1> QED
  BY CountersAtStart, TypesHold, <1>1, PTL DEF Spec
=============================================================================
