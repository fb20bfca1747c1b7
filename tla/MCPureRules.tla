----------------------------- MODULE MCPureRules -----------------------------
(***************************************************************************)
(* The inputs that TLC puts to PureRules.                                  *)
(***************************************************************************)
EXTENDS PureRules

CONSTANTS A, B, a, b, Super

MCUpperOf == [l \in {a, b} |-> IF l = a THEN A ELSE B]

Two == {0, 7}

Cpfs == {<<0, 0>> \o base \o <<x, y>> : base \in [1 .. 7 -> Two], x \in 0 .. 9, y \in 0 .. 9}

\* Documents of companies: eight digits, the number of the establishment, two check digits.
Cnpjs == {<<0, 0>> \o base \o <<0, 0, 0, branch, x, y>> :
            base \in [1 .. 6 -> Two], branch \in {1, 2}, x \in 0 .. 9, y \in {0, 1, 5, 8}}

Masked(cnpj) == SubSeq(cnpj, 1, 2) \o <<Mark>> \o SubSeq(cnpj, 3, 8) \o <<Mark>>
                  \o SubSeq(cnpj, 9, 12) \o <<Hyphen>> \o SubSeq(cnpj, 13, 14)

MCDocuments ==
  Cpfs \cup {D!FormatMasked(d) : d \in Cpfs} \cup Cnpjs \cup {Masked(d) : d \in Cnpjs}
    \cup {<<Super>> \o [i \in 1 .. 9 |-> 7] \o <<x, y, Super>> : x \in 0 .. 9, y \in 0 .. 9}
    \cup {[i \in 1 .. n |-> k] : n \in {0, 10, 11, 12, 14}, k \in 0 .. 9}

MCPlates ==
  {pad \o [i \in 1 .. 3 |-> first] \o hyphen \o <<1, fifth, 2, 3>> \o end :
     pad \in {<<>>, <<Space>>, <<Hyphen>>}, first \in {A, a}, hyphen \in {<<>>, <<Hyphen>>, <<Space>>},
     fifth \in {4} \cup {B, b, Super}, end \in {<<>>, <<Space, Space>>, <<5>>}}

Instants == {0, 7, 125}

Order(status, created, started, completed) ==
  [status |-> status, created |-> created, started |-> started, completed |-> completed]

\* The columns that orders have in each status.
MCOrders ==
       {Order(s, c, None, None) : s \in {"RECEBIDA", "EM_DIAGNOSTICO", "AGUARDANDO_APROVACAO",
                                          "ORCAMENTO_RECUSADO"}, c \in {0, 7}}
  \cup {Order("EM_EXECUCAO", c, 7, None) : c \in {0, 7}}
  \cup {Order("FINALIZADA", 0, s, 125) : s \in {0, 7}}
  \cup {Order("ENTREGUE", 0, s, f) : s \in {0, 7}, f \in {7, 125, 300}}
  \cup {Order("ENTREGUE", 0, 125, 7)}   \* as updates that overlap may leave it

MCOrderSets == UNION {[1 .. n -> MCOrders] : n \in 0 .. 3}

Param(k, v) == [key |-> k, value |-> v]

MCParams == {Param("sslmode", "require"), Param("sslmode", "verify-full"), Param("sslmode", "disable"),
             Param("ssl", "prefer"), Param("ssl", "disable"), Param("channel_binding", "require"),
             Param("passfile", "f"), Param("application_name", "api")}

MCDsns == {[driver |-> d, query |-> q] :
             d \in {"asyncpg", "aiosqlite"}, q \in UNION {[1 .. n -> MCParams] : n \in 0 .. 3}}
=============================================================================
