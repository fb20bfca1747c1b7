--------------------------- MODULE DocumentedClaims ---------------------------
(***************************************************************************)
(* What documents and comments of the repository say of the service orders *)
(* without a condition, and the program does not keep.  Each claim is      *)
(* refuted by a run of its own; ServiceOrders states what holds instead.   *)
(***************************************************************************)
EXTENDS ServiceOrders

\* The sequence diagram of the opening shows the decrement as an update relative to the
\* stored value (docs/arquitetura/diagramas/03-sequencia-abertura-de-os.md:57), so stock
\* always follows what orders consumed, and RFC-002 rests its choice of a transactional
\* database on it.  decrement_stock writes an absolute value instead.
StockFollowsOrders ==
  \A p \in live :
    stock[p] = InitialStock[p] + MapThenSumSet(LAMBDA r : Effect(r, p), committed)

\* transition_to "respects the state machine of the domain" (service_order.py:50), the
\* only road to a new status: so every committed change of status is a valid transition.
\* The guard reads a row that another request may change before the write.
TransitionsAlwaysValid ==
  [][\A o \in opened : \/ row'[o].status = row[o].status
                       \/ row'[o].status \in VALID_TRANSITIONS[row[o].status]]_vars

\* "The system must prevent the creation of orders with parts unavailable in stock, or at
\* least alert the receptionist" (docs/Domain Storytelling, line 283), and stock is "never
\* negative, even under concurrent writes" (RFC-002:136).  open_service_order.py tests each
\* line against the stock of that moment, so one part on two lines passes twice, and so do
\* two openings of which one commits after the other's test; neither prevents nor alerts.
StockNeverNegative == \A p \in live : stock[p] >= 0

\* Refused: "the reserved parts return to the stock" (approve_budget.py:13-15): of a part
\* nobody adjusts there is never more than at the start and what the refused orders had
\* reserved.  Two deliveries of one refusal both pass transition_to, and the one that
\* reads the stock after the other's commit returns the parts again.
RefusalReturnsReserved ==
  LET refused == {job[r].order : r \in {r \in committed : job[r].target = "ORCAMENTO_RECUSADO"}} IN
  (\A r \in committed : job[r].op # "adjust") =>
    \A p \in live : stock[p] <= InitialStock[p] + MapThenSumSet(LAMBDA o : Asked(Lines(o), p), refused)

\* "The notification never brings the flow down" (03-sequencia-abertura-de-os.md:107), and
\* delivery failures are "never propagated" (notifier.py:71-73): no request fails once its
\* order is updated.  The message is built before the try, and an address that no header
\* accepts raises.
NotificationNeverFailsRequest ==
  \A r \in committed : job[r].op \in {"update", "approve"} => pc[r] # "failed"
=============================================================================
