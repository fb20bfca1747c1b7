---------------------------- MODULE Subsequences ----------------------------
(***************************************************************************)
(* What a filter leaves of a sequence: SelectSeq, with a set in place of   *)
(* the test, so that what it computes can be proved.                       *)
(***************************************************************************)
EXTENDS Sequences, Integers

\* The elements of s that are in kept, in their order.
Only(s, kept) ==
  LET only[i \in 0 .. Len(s)] ==
        IF i = 0 THEN <<>>
        ELSE IF s[i] \in kept THEN Append(only[i - 1], s[i]) ELSE only[i - 1]
  IN only[Len(s)]
=============================================================================
