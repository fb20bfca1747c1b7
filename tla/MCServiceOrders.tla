--------------------------- MODULE MCServiceOrders ---------------------------
(***************************************************************************)
(* The instances of ServiceOrders that TLC checks.                         *)
(***************************************************************************)
EXTENDS DocumentedClaims, TLC

CONSTANTS p1, p2, o1

Two(a, n, b, m) == <<[part |-> a, qty |-> n], [part |-> b, qty |-> m]>>

\* The one existing order used a part of p1.
MCExistingLines  == [o \in Existing |-> <<[part |-> p1, qty |-> 1]>>]
MCExistingNumber == [o \in Existing |-> [day |-> CHOOSE d \in Days : TRUE, seq |-> 1]]
MCInitialStock   == [p \in Parts |-> 2]

\* One line, also of less than nothing; both parts in either order; the same part on two
\* lines; no part.
MCAllLines == {<<>>, <<[part |-> p1, qty |-> 1]>>, <<[part |-> p1, qty |-> -1]>>,
               Two(p1, 1, p2, 1), Two(p2, 1, p1, 2), Two(p1, 1, p1, 2)}
MCOneLine  == {<<[part |-> p1, qty |-> 1]>>}

MCDeltas == {-2, 1}

MCSymmetry == Permutations(Requests)
=============================================================================
