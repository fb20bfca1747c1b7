------------------------------ MODULE OrderBook ------------------------------
(***************************************************************************)
(* What the workshop promises about its orders and its stock, each         *)
(* operation in one step: an order is opened against stock that covers     *)
(* each of its lines and takes what they ask; it moves along the status    *)
(* machine; a refused budget gives the lines back; an adjustment never     *)
(* leaves less than nothing; a part some order used stays.                 *)
(***************************************************************************)
EXTENDS ServiceOrderStatus, Integers, Sequences, FiniteSetsExt

CONSTANTS OrderIds, Parts, None,
          OpenLines,   \* the lines an order may be opened with
          Deltas       \* the quantities of an adjustment

VARIABLES status,  \* of each order, or None before it is opened
          sheet,   \* the part lines of each order
          stock,   \* of each part
          live     \* the parts of the catalogue

book == <<status, sheet, stock, live>>

TotalAsked(lines, p) ==
  MapThenSumSet(LAMBDA i : lines[i].qty, {i \in DOMAIN lines : lines[i].part = p})

Init ==
  /\ status \in [OrderIds -> Statuses \cup {None}]
  /\ stock \in [Parts -> Int]
  /\ live \subseteq Parts
  /\ DOMAIN sheet = OrderIds

Open(o) ==
  \E lines \in OpenLines :
    /\ status[o] = None
    /\ \A i \in DOMAIN lines : lines[i].part \in live /\ lines[i].qty <= stock[lines[i].part]
    /\ status' = [status EXCEPT ![o] = "RECEBIDA"]
    /\ sheet' = [sheet EXCEPT ![o] = lines]
    /\ stock' = [p \in Parts |-> stock[p] - TotalAsked(lines, p)]
    /\ UNCHANGED live

Advance(o) ==
  /\ status[o] # None
  /\ \E new \in VALID_TRANSITIONS[status[o]] : status' = [status EXCEPT ![o] = new]
  /\ UNCHANGED <<sheet, stock, live>>

Refuse(o) ==
  /\ status[o] = "AGUARDANDO_APROVACAO"
  /\ status' = [status EXCEPT ![o] = "ORCAMENTO_RECUSADO"]
  /\ stock' = [p \in Parts |-> stock[p] + TotalAsked(sheet[o], p)]
  /\ UNCHANGED <<sheet, live>>

Adjust(p) ==
  /\ p \in live
  /\ \E d \in Deltas : stock[p] + d >= 0 /\ stock' = [stock EXCEPT ![p] = @ + d]
  /\ UNCHANGED <<status, sheet, live>>

Withdraw(p) ==
  /\ \A o \in OrderIds : status[o] # None => \A i \in DOMAIN sheet[o] : sheet[o][i].part # p
  /\ live' = live \ {p}
  /\ UNCHANGED <<status, sheet, stock>>

Next == \/ \E o \in OrderIds : Open(o) \/ Advance(o) \/ Refuse(o)
        \/ \E p \in Parts : Adjust(p) \/ Withdraw(p)

Spec == Init /\ [][Next]_book
=============================================================================
