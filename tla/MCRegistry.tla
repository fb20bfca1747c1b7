----------------------------- MODULE MCRegistry -----------------------------
(***************************************************************************)
(* The instances of Registry that TLC checks: rows that may be there at    *)
(* the start, and what the requests may ask.                               *)
(***************************************************************************)
EXTENDS Registry, TLC

CONSTANTS c1, v1, s1, d1, d2, l1, n1, n2

New(t, k, c) == [table |-> t, key |-> k, client |-> c, vehicle |-> None, item |-> None]

MCRow == [i \in Existing |-> CASE i = c1 -> New("client", d1, None)
                               [] i = v1 -> New("vehicle", l1, c1)
                               [] i = s1 -> New("service", n1, None)]

MCStartingRows == {[i \in S |-> MCRow[i]] : S \in {{}, {c1}, {c1, v1, s1}}}

Ask(op, t, i, k) == [NoJob EXCEPT !.op = op, !.table = t, !.target = i, !.key = k]

Creations == {Ask("create", "client", None, d2), Ask("create", "part", None, None)}
       \cup {Ask("create", "service", None, k) : k \in {n1, n2}}
       \cup {Ask("create", "vehicle", i, l1) : i \in {c1} \cup Requests}
       \cup {Ask("create", "order", i, None) : i \in {v1} \cup Requests}
       \cup {[Ask("create", "order", v1, None) EXCEPT !.item = s1]}

Edited == {Ask("update", "vehicle", v1, None)}
       \cup {Ask("update", "service", s1, k) : k \in {n1, n2, EmptyName, None}}

Deletions == {Ask("delete", MCRow[i].table, i, None) : i \in Existing}
       \cup {Ask("delete", "client", r, None) : r \in Requests}

Reads == {Ask("get", "vehicle", v1, None), Ask("me", "client", None, None)}
       \cup {Ask("list", "vehicle", c1, None)}

MCCalls == Creations \cup Edited \cup Deletions \cup Reads

MCSymmetry == Permutations(Requests)
=============================================================================
