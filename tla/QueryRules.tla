----------------------------- MODULE QueryRules -----------------------------
(***************************************************************************)
(* What the listing of orders and the average execution time compute, each *)
(* from one SELECT.  An order is [status, created, started, completed],    *)
(* its instants in seconds; orders maps the ids to them.                   *)
(***************************************************************************)
EXTENDS ServiceOrderStatus, Integers, Sequences, FiniteSetsExt, SequencesExt

CONSTANT None   \* NULL, or "no filter"

\* Mutant of STATUS_PRIORITY: two statuses swapped.
STATUS_PRIORITY_Swapped(s) ==
  CASE s = "EM_EXECUCAO" -> 1 [] s = "AGUARDANDO_APROVACAO" -> 3
    [] s = "EM_DIAGNOSTICO" -> 2 [] s = "RECEBIDA" -> 4 [] OTHER -> 99

STATUS_PRIORITY(s) ==
  CASE s = "EM_EXECUCAO" -> 1 [] s = "AGUARDANDO_APROVACAO" -> 2
    [] s = "EM_DIAGNOSTICO" -> 3 [] s = "RECEBIDA" -> 4 [] OTHER -> 99

\* ORDER BY priority, created_at, id.
Precedes(orders, i, q) ==
  LET p == STATUS_PRIORITY(orders[i].status)
      s == STATUS_PRIORITY(orders[q].status)
  IN \/ p < s
     \/ p = s /\ orders[i].created < orders[q].created
     \/ p = s /\ orders[i].created = orders[q].created /\ i < q

\* list_open_ordered.
ListOpenOrdered(orders) ==
  CHOOSE list \in SetToSeqs({i \in DOMAIN orders : orders[i].status \notin TERMINAL_STATUSES}) :
    \A p, q \in DOMAIN list : p < q => Precedes(orders, list[p], list[q])

\* get_by_status gives no order: any of the sequences of those orders.
GetByStatus(orders, status) == SetToSeqs({i \in DOMAIN orders : orders[i].status = status})

\* ListServiceOrdersUseCase: the answers it may give.
ListServiceOrders(orders, status) ==
  IF status = None THEN {ListOpenOrdered(orders)} ELSE GetByStatus(orders, status)

-----------------------------------------------------------------------------
\* get_completed_with_times.
CompletedWithTimes(orders) ==
  {i \in DOMAIN orders : /\ orders[i].status = "ENTREGUE"
                         /\ orders[i].started # None /\ orders[i].completed # None}

ExecutionTime(order) == order.completed - order.started

Abs(n) == IF n < 0 THEN -n ELSE n

\* Mutant of AverageExecutionTime: divided by every order there is.
AverageOverAll(orders) ==
  LET timed == CompletedWithTimes(orders)
      total == SumFunctionOnSet([i \in timed |-> ExecutionTime(orders[i])], timed)
      n     == Cardinality(DOMAIN orders)
  IN IF timed = {} THEN {[average |-> None, completed |-> 0]}
     ELSE {[average |-> a, completed |-> Cardinality(timed)] :
             a \in {a \in -2 * Abs(total) .. 2 * Abs(total) : Abs(60 * n * a - 100 * total) <= 30 * n}}

\* GetAverageExecutionTimeUseCase: hundredths of a minute, rounded to a nearest one.
AverageExecutionTime(orders) ==
  LET timed == CompletedWithTimes(orders)
      total == SumFunctionOnSet([i \in timed |-> ExecutionTime(orders[i])], timed)
      n     == Cardinality(timed)
  IN IF timed = {} THEN {[average |-> None, completed |-> 0]}
     ELSE {[average |-> a, completed |-> n] :
             a \in {a \in -2 * Abs(total) .. 2 * Abs(total) : Abs(60 * n * a - 100 * total) <= 30 * n}}
=============================================================================
