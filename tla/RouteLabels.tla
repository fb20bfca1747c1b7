----------------------------- MODULE RouteLabels -----------------------------
(***************************************************************************)
(* Routing, and the label under which a request is measured.  A path is a  *)
(* sequence of segments, and so is the template of a route, in which Param *)
(* stands for "{order_id}" and its like.  The framework mounts the routers *)
(* of the controllers under a prefix and records the template without it.  *)
(***************************************************************************)
EXTENDS Sequences, Integers

CONSTANTS
  Param,   \* a path parameter of a template
  None     \* "not given", "no route"

Fits(template, path) ==
  /\ Len(template) = Len(path)
  /\ \A i \in DOMAIN path : template[i] \in {Param, path[i]}

\* The framework's router: the first route whose full template fits the path.
RouteOf(routes, path) ==
  LET fitting == {i \in DOMAIN routes : Fits(routes[i].prefix \o routes[i].template, path)}
  IN IF fitting = {} THEN None
     ELSE routes[CHOOSE i \in fitting : \A q \in fitting : i <= q]

\* Mutant of EndpointLabel: the path itself, a label per order.
EndpointLabelConcrete(path, template, fallback) == IF template = None THEN fallback ELSE path

\* _endpoint_label: the template describes the end of the path, and what is left in
\* front of it is the prefix.
EndpointLabel(path, template, fallback) ==
  LET depth == Len(template) IN
  IF template = None THEN fallback
  ELSE IF depth > 0 /\ Len(path) >= depth THEN SubSeq(path, 1, Len(path) - depth) \o template
  ELSE template
=============================================================================
