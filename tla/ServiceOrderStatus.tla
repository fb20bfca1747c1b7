------------------------- MODULE ServiceOrderStatus -------------------------
(***************************************************************************)
(* The status machine of a service order, as the domain layer states it:   *)
(* the seven statuses, the ones the work list hides, the transitions the   *)
(* entity accepts, and what accepting one does to the entity.              *)
(* Sources: app/domain/value_objects/service_order_status.py and           *)
(* app/domain/entities/service_order.py.                                   *)
(***************************************************************************)

Statuses == {"RECEBIDA", "EM_DIAGNOSTICO", "AGUARDANDO_APROVACAO",
             "EM_EXECUCAO", "FINALIZADA", "ENTREGUE", "ORCAMENTO_RECUSADO"}

TERMINAL_STATUSES == {"FINALIZADA", "ENTREGUE", "ORCAMENTO_RECUSADO"}

VALID_TRANSITIONS ==
  [s \in Statuses |->
     CASE s = "RECEBIDA"             -> {"EM_DIAGNOSTICO"}
       [] s = "EM_DIAGNOSTICO"       -> {"AGUARDANDO_APROVACAO"}
       [] s = "AGUARDANDO_APROVACAO" -> {"EM_EXECUCAO", "ORCAMENTO_RECUSADO"}
       [] s = "EM_EXECUCAO"          -> {"FINALIZADA"}
       [] s = "FINALIZADA"           -> {"ENTREGUE"}
       [] OTHER                      -> {}]

(***************************************************************************)
(* The mutable columns of an order.  started, completed and delivered hold *)
(* the mark of the request that set them (its instant, in the code).       *)
(***************************************************************************)
Row(Marks) == [status : Statuses, started : Marks, completed : Marks, delivered : Marks]

\* Mutant of TransitionTo: the conclusion is stamped at the delivery.
TransitionToLate(row, new, moment) ==
  [row EXCEPT !.status    = new,
              !.started   = IF new = "EM_EXECUCAO" THEN moment ELSE @,
              !.completed = IF new = "ENTREGUE"    THEN moment ELSE @,
              !.delivered = IF new = "ENTREGUE"    THEN moment ELSE @]

(***************************************************************************)
(* ServiceOrder.transition_to, past its guard: the status changes and the  *)
(* instant of the transition is kept where it is relevant.                 *)
(***************************************************************************)
TransitionTo(row, new, moment) ==
  [row EXCEPT !.status    = new,
              !.started   = IF new = "EM_EXECUCAO" THEN moment ELSE @,
              !.completed = IF new = "FINALIZADA"  THEN moment ELSE @,
              !.delivered = IF new = "ENTREGUE"    THEN moment ELSE @]
=============================================================================
