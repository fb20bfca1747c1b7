--------------------------- MODULE MCHttpPipeline ---------------------------
(***************************************************************************)
(* An instance of HttpPipeline for TLC: a route of each kind, with and     *)
(* without a prefix, and a path that no route fits, though it begins like  *)
(* one of the documentation.                                               *)
(***************************************************************************)
EXTENDS HttpPipeline

MCRoutes == <<
  [prefix |-> <<"api", "v1">>, template |-> <<"service-orders", Param>>, kind |-> "api"],
  [prefix |-> <<>>, template |-> <<"health", "ready">>, kind |-> "readiness"],
  [prefix |-> <<>>, template |-> MetricsPath, kind |-> "static"],
  [prefix |-> <<>>, template |-> <<"docs">>, kind |-> "static"]>>

MCSegments == {"api", "v1", "service-orders", "health", "ready", "metrics", "docs", "docsets", "o1", "o2", Param}

Order(i) == <<"api", "v1", "service-orders", i>>

MCTargets ==
       {[method |-> "GET", path |-> p] :
          p \in {Order("o1"), <<"health", "ready">>, MetricsPath, <<"docs">>, <<"docsets">>}}
  \cup {[method |-> "PATCH", path |-> Order("o2")], [method |-> "OPTIONS", path |-> Order("o1")]}
=============================================================================
