--------------------------- MODULE PureRulesProofs ---------------------------
(***************************************************************************)
(* What the rules compute, for every input that the constants allow:       *)
(* documents, plates, the work list, the average and the settings.         *)
(* A question is answered in the step that asks it, so that the invariant  *)
(* of the specification is short: the answer is what the rules compute.    *)
(* The work is in what they compute: filters of sequences and sums, shown  *)
(* by induction over sequences, positions and subsets.                     *)
(***************************************************************************)
EXTENDS PureRules, SumFacts, SequenceTheorems

-----------------------------------------------------------------------------
(***************************************************************************)
(* Filters                                                                 *)
(***************************************************************************)

\* Induction over the length of sequences, with the set of those for which the claim
\* holds in place of the claim.
LEMMA SequenceInduction ==
  ASSUME NEW T, NEW Good, <<>> \in Good,
         \A s \in Seq(T), e \in T : s \in Good => Append(s, e) \in Good
  PROVE  Seq(T) \subseteq Good
<1> DEFINE Less == {ss \in Nat \X Nat : ss[1] < ss[2]}
           lengths == {Len(s) : s \in Seq(T) \ Good}
<1>1. IsWellFoundedOn(Less, Nat)
  BY NatLessThanWellFounded, Zenon DEF OpToRel
<1>2. lengths \subseteq Nat
  BY LenProperties
<1>3. ASSUME lengths # {}
      PROVE  FALSE
  <2>1. PICK n \in lengths : \A k \in lengths : <<k, n>> \notin Less
    <3> HIDE DEF Less, lengths
    <3> QED
      BY <1>1, <1>2, <1>3, WFMin
  <2>2. PICK s \in Seq(T) \ Good : Len(s) = n
    BY <2>1
  <2>3. PICK t \in Seq(T), e \in T : s = Append(t, e)
    BY <2>2, SequenceEmptyOrAppend
  <2>4. Len(t) < n /\ Len(t) \in Nat /\ n \in Nat
    BY <2>2, <2>3, AppendProperties, LenProperties
  <2>5. t \notin Good
    BY <2>2, <2>3
  <2> QED
    BY <2>1, <2>4, <2>5
<1> QED
  BY <1>3

\* The equation that the recursive function of a filter is chosen to satisfy.
IsOnly(only, s, kept) ==
  only = [i \in 0 .. Len(s) |->
            IF i = 0 THEN <<>>
            ELSE IF s[i] \in kept THEN Append(only[i - 1], s[i]) ELSE only[i - 1]]

\* The filter is the value of the function chosen by that equation.
LEMMA OnlyIsChosen ==
  ASSUME NEW s, NEW kept
  PROVE  Only(s, kept) = (CHOOSE only : IsOnly(only, s, kept))[Len(s)]
BY DEF Only, IsOnly

\* What the equation says of one position.
LEMMA OnlyStep ==
  ASSUME NEW T, NEW s \in Seq(T), NEW kept, NEW f, IsOnly(f, s, kept)
  PROVE  /\ f[0] = <<>>
         /\ \A i \in 1 .. Len(s) : f[i] = IF s[i] \in kept THEN Append(f[i - 1], s[i]) ELSE f[i - 1]
<1> DEFINE made == [i \in 0 .. Len(s) |->
                      IF i = 0 THEN <<>>
                      ELSE IF s[i] \in kept THEN Append(f[i - 1], s[i]) ELSE f[i - 1]]
<1>1. f = made
  BY DEF IsOnly
<1>2. made[0] = <<>>
  BY LenProperties
<1>3. ASSUME NEW i \in 1 .. Len(s)
      PROVE  made[i] = IF s[i] \in kept THEN Append(f[i - 1], s[i]) ELSE f[i - 1]
  <2>1. i \in 0 .. Len(s) /\ i # 0
    BY LenProperties
  <2> QED
    BY <2>1
<1> HIDE DEF made
<1> QED
  BY <1>1, <1>2, <1>3

\* Two filtered sequences agree as far as the sequences do.
LEMMA OnlyIsUnique ==
  ASSUME NEW T, NEW s \in Seq(T), NEW t \in Seq(T), NEW kept, NEW f, NEW g,
         IsOnly(f, s, kept), IsOnly(g, t, kept), Len(s) <= Len(t),
         \A i \in 1 .. Len(s) : s[i] = t[i]
  PROVE  f[Len(s)] = g[Len(s)]
<1> DEFINE Less == {ss \in Nat \X Nat : ss[1] < ss[2]}
           apart == {i \in 0 .. Len(s) : f[i] # g[i]}
<1>1. IsWellFoundedOn(Less, Nat)
  BY NatLessThanWellFounded, Zenon DEF OpToRel
<1>2. Len(s) \in Nat /\ Len(t) \in Nat
  BY LenProperties
<1>3. ASSUME apart # {}
      PROVE  FALSE
  <2>1. apart \subseteq Nat
    BY <1>2
  <2>2. PICK n \in apart : \A k \in apart : <<k, n>> \notin Less
    <3> HIDE DEF Less, apart
    <3> QED
      BY <1>1, <1>3, <2>1, WFMin
  <2>3. n # 0
    BY OnlyStep
  <2>4. n \in 1 .. Len(s) /\ n \in 1 .. Len(t) /\ n - 1 \in 0 .. Len(s) /\ n - 1 < n /\ n - 1 \in Nat /\ n \in Nat
    BY <1>2, <2>3
  <2>5. f[n - 1] = g[n - 1]
    BY <2>2, <2>4
  <2>6. f[n] = IF s[n] \in kept THEN Append(f[n - 1], s[n]) ELSE f[n - 1]
    BY <2>4, OnlyStep
  <2>7. g[n] = IF t[n] \in kept THEN Append(g[n - 1], t[n]) ELSE g[n - 1]
    BY <2>4, OnlyStep
  <2> QED
    BY <2>2, <2>4, <2>5, <2>6, <2>7
<1> QED
  BY <1>2, <1>3

\* The function exists.
LEMMA OnlyExists ==
  ASSUME NEW T, NEW kept
  PROVE  \A s \in Seq(T) : \E f : IsOnly(f, s, kept)
<1> DEFINE Good == {s \in Seq(T) : \E f : IsOnly(f, s, kept)}
<1>1. <<>> \in Good
  <2> DEFINE f == [i \in 0 .. Len(<<>>) |->
                     IF i = 0 THEN <<>>
                     ELSE IF <<>>[i] \in kept THEN Append(<<>>, <<>>[i]) ELSE <<>>]
  <2>1. IsOnly(f, <<>>, kept)
    BY DEF IsOnly
  <2> QED
    BY <2>1, EmptySeq
<1>2. ASSUME NEW s \in Seq(T), NEW e \in T, s \in Good
      PROVE  Append(s, e) \in Good
  <2> DEFINE t == Append(s, e)
             n == Len(s)
  <2>1. PICK f : IsOnly(f, s, kept)
    BY <1>2
  <2>2. /\ t \in Seq(T) /\ Len(t) = n + 1 /\ n \in Nat
        /\ \A i \in 1 .. n : t[i] = s[i]
    BY AppendProperties, LenProperties
  <2> DEFINE g == [i \in 0 .. n + 1 |-> IF i <= n THEN f[i]
                                        ELSE IF t[i] \in kept THEN Append(f[n], t[i]) ELSE f[n]]
             made == [i \in 0 .. Len(t) |->
                        IF i = 0 THEN <<>>
                        ELSE IF t[i] \in kept THEN Append(g[i - 1], t[i]) ELSE g[i - 1]]
  <2>3. ASSUME NEW i \in 0 .. n + 1
        PROVE  g[i] = made[i]
    <3> HIDE DEF t
    <3>1. CASE i = 0
      <4>1. f[0] = <<>>
        BY <2>1, OnlyStep
      <4> QED
        BY <2>2, <3>1, <4>1
    <3>2. CASE i \in 1 .. n
      <4>1. f[i] = IF s[i] \in kept THEN Append(f[i - 1], s[i]) ELSE f[i - 1]
        BY <2>1, <3>2, OnlyStep
      <4>2. i - 1 \in 0 .. n + 1 /\ i - 1 <= n /\ i <= n /\ i # 0 /\ i \in 0 .. Len(t)
        BY <2>2, <3>2
      <4>3. g[i - 1] = f[i - 1] /\ g[i] = f[i]
        BY <4>2
      <4>4. made[i] = IF t[i] \in kept THEN Append(g[i - 1], t[i]) ELSE g[i - 1]
        BY <4>2
      <4> HIDE DEF g, made
      <4> QED
        BY <2>2, <3>2, <4>1, <4>3, <4>4
    <3>3. CASE i = n + 1
      <4>1. ~(i <= n) /\ i # 0 /\ i - 1 = n /\ n \in 0 .. n + 1 /\ i \in 0 .. Len(t)
        BY <2>2, <3>3
      <4>2. g[n] = f[n]
        BY <4>1
      <4>3. g[i] = IF t[i] \in kept THEN Append(f[n], t[i]) ELSE f[n]
        BY <4>1
      <4>4. made[i] = IF t[i] \in kept THEN Append(g[i - 1], t[i]) ELSE g[i - 1]
        BY <4>1
      <4> HIDE DEF g, made
      <4> QED
        BY <4>1, <4>2, <4>3, <4>4
    <3> QED
      BY <2>2, <3>1, <3>2, <3>3
  <2>4. g = made
    <3> HIDE DEF t
    <3>1. DOMAIN g = 0 .. n + 1 /\ DOMAIN made = 0 .. n + 1
      BY <2>2
    <3>2. g = [i \in 0 .. n + 1 |-> g[i]] /\ made = [i \in 0 .. n + 1 |-> made[i]]
      BY <2>2
    <3> HIDE DEF g, made
    <3> QED
      BY <2>3, <3>2
  <2>5. IsOnly(g, t, kept)
    BY <2>4, Zenon DEF IsOnly
  <2> HIDE DEF t, g
  <2>6. t \in Good
    BY <2>2, <2>5
  <2> QED
    BY <2>6 DEF t
<1> HIDE DEF Good
<1>3. Seq(T) \subseteq Good
  BY <1>1, <1>2, SequenceInduction
<1> QED
  BY <1>3 DEF Good

\* Nothing is left of nothing, and a sequence is filtered element by element.
LEMMA OnlyOfNone ==
  ASSUME NEW kept
  PROVE  Only(<<>>, kept) = <<>>
<1>1. PICK e \in Seq({}) : e = <<>> /\ Len(e) = 0
  BY EmptySeq
<1> DEFINE c == CHOOSE f : IsOnly(f, e, kept)
<1>2. IsOnly(c, e, kept)
  BY OnlyExists, Zenon
<1>3. Only(e, kept) = c[0]
  BY <1>1, OnlyIsChosen
<1> HIDE DEF c
<1>4. c[0] = <<>>
  BY <1>2, OnlyStep
<1> QED
  BY <1>1, <1>3, <1>4

\* One element more: it is left when it is in the set.
LEMMA OnlyOfAppend ==
  ASSUME NEW T, NEW s \in Seq(T), NEW e \in T, NEW kept
  PROVE  Only(Append(s, e), kept) = IF e \in kept THEN Append(Only(s, kept), e) ELSE Only(s, kept)
<1> DEFINE t == Append(s, e)
           f == CHOOSE x : IsOnly(x, s, kept)
           g == CHOOSE x : IsOnly(x, t, kept)
           n == Len(s)
<1>1. /\ t \in Seq(T) /\ Len(t) = n + 1 /\ t[n + 1] = e /\ n \in Nat
      /\ \A i \in 1 .. n : t[i] = s[i]
  BY AppendProperties, LenProperties
<1> HIDE DEF t
<1>2. IsOnly(f, s, kept) /\ IsOnly(g, t, kept)
  BY <1>1, OnlyExists, Zenon
<1>3. Only(s, kept) = f[n] /\ Only(t, kept) = g[n + 1]
  BY <1>1, OnlyIsChosen
<1> HIDE DEF f, g
<1>4. f[n] = g[n]
  BY <1>1, <1>2, OnlyIsUnique
<1>5. g[n + 1] = IF e \in kept THEN Append(g[n], e) ELSE g[n]
  <2>1. n + 1 \in 1 .. Len(t) /\ (n + 1) - 1 = n
    BY <1>1
  <2> QED
    BY <1>1, <1>2, <2>1, OnlyStep
<1> QED
  BY <1>3, <1>4, <1>5 DEF t

\* What is left is in the set.
LEMMA OnlyType ==
  ASSUME NEW T, NEW kept
  PROVE  \A s \in Seq(T) : Only(s, kept) \in Seq(T \cap kept)
<1> DEFINE Good == {s \in Seq(T) : Only(s, kept) \in Seq(T \cap kept)}
<1>1. <<>> \in Good
  BY OnlyOfNone, EmptySeq
<1>2. ASSUME NEW s \in Seq(T), NEW e \in T, s \in Good
      PROVE  Append(s, e) \in Good
  <2>1. Only(Append(s, e), kept) = IF e \in kept THEN Append(Only(s, kept), e) ELSE Only(s, kept)
    BY OnlyOfAppend
  <2>2. e \in kept => Append(Only(s, kept), e) \in Seq(T \cap kept)
    BY <1>2, AppendProperties
  <2>3. Append(s, e) \in Seq(T)
    BY AppendProperties
  <2> QED
    BY <1>2, <2>1, <2>2, <2>3
<1> HIDE DEF Good
<1>3. Seq(T) \subseteq Good
  BY <1>1, <1>2, SequenceInduction
<1> QED
  BY <1>3 DEF Good

\* Of a sequence over the set everything is left.
LEMMA OnlyKeepsAll ==
  ASSUME NEW kept
  PROVE  \A s \in Seq(kept) : Only(s, kept) = s
<1> DEFINE Good == {s \in Seq(kept) : Only(s, kept) = s}
<1>1. <<>> \in Good
  BY OnlyOfNone, EmptySeq
<1>2. ASSUME NEW s \in Seq(kept), NEW e \in kept, s \in Good
      PROVE  Append(s, e) \in Good
  <2>1. Only(Append(s, e), kept) = Append(Only(s, kept), e)
    BY OnlyOfAppend
  <2>2. Only(s, kept) = s
    BY <1>2
  <2>3. Append(s, e) \in Seq(kept)
    BY AppendProperties
  <2> QED
    BY <2>1, <2>2, <2>3
<1> HIDE DEF Good
<1>3. Seq(kept) \subseteq Good
  BY <1>1, <1>2, SequenceInduction
<1> QED
  BY <1>3 DEF Good

\* Of a sequence outside the set nothing is.
LEMMA OnlyKeepsNone ==
  ASSUME NEW T, NEW kept, T \cap kept = {}
  PROVE  \A s \in Seq(T) : Only(s, kept) = <<>>
<1> DEFINE Good == {s \in Seq(T) : Only(s, kept) = <<>>}
<1>1. <<>> \in Good
  BY OnlyOfNone, EmptySeq
<1>2. ASSUME NEW s \in Seq(T), NEW e \in T, s \in Good
      PROVE  Append(s, e) \in Good
  BY <1>2, OnlyOfAppend, AppendProperties
<1> HIDE DEF Good
<1>3. Seq(T) \subseteq Good
  BY <1>1, <1>2, SequenceInduction
<1> QED
  BY <1>3 DEF Good

\* Two parts can be filtered apart.
LEMMA OnlyOfConcat ==
  ASSUME NEW T, NEW kept
  PROVE  \A s \in Seq(T) : \A t \in Seq(T) : Only(s \o t, kept) = Only(s, kept) \o Only(t, kept)
<1> TAKE s \in Seq(T)
<1> DEFINE Good == {t \in Seq(T) : Only(s \o t, kept) = Only(s, kept) \o Only(t, kept)}
<1>0. \A t \in Seq(T) : Only(t, kept) \in Seq(T \cap kept)
  BY OnlyType
<1>1. <<>> \in Good
  BY <1>0, OnlyOfNone, EmptySeq, ConcatEmptySeq
<1>2. ASSUME NEW t \in Seq(T), NEW e \in T, t \in Good
      PROVE  Append(t, e) \in Good
  <2>1. s \o Append(t, e) = Append(s \o t, e)
    BY ConcatProperties, AppendProperties
  <2>2. Only(Append(s \o t, e), kept) = IF e \in kept THEN Append(Only(s \o t, kept), e) ELSE Only(s \o t, kept)
    BY OnlyOfAppend, ConcatProperties
  <2>3. Only(Append(t, e), kept) = IF e \in kept THEN Append(Only(t, kept), e) ELSE Only(t, kept)
    BY OnlyOfAppend
  <2>4. e \in kept => Only(s, kept) \o Append(Only(t, kept), e) = Append(Only(s, kept) \o Only(t, kept), e)
    <3>1. Only(s, kept) \in Seq(T \cap kept) /\ Only(t, kept) \in Seq(T \cap kept)
      BY <1>0
    <3> QED
      BY <3>1, ConcatProperties, AppendProperties
  <2> QED
    BY <1>2, <2>1, <2>2, <2>3, <2>4, AppendProperties
<1> HIDE DEF Good
<1>3. Seq(T) \subseteq Good
  BY <1>1, <1>2, SequenceInduction
<1> QED
  BY <1>3 DEF Good

\* When nothing of the first and of the last of three parts is left, and all of the
\* middle one, the middle one is.
LEMMA OnlyTheMiddle ==
  ASSUME NEW U, NEW kept, NEW s \in Seq(U), NEW t \in Seq(U), NEW v \in Seq(U),
         Only(s, kept) = <<>>, Only(t, kept) = t, Only(v, kept) = <<>>
  PROVE  Only((s \o t) \o v, kept) = t
<1> DEFINE Left(p) == Only(p, kept)
<1>1. \A p \in Seq(U) : \A q \in Seq(U) : p \o q \in Seq(U) /\ Left(p \o q) = Left(p) \o Left(q)
  <2>1. \A p \in Seq(U) : \A q \in Seq(U) : p \o q \in Seq(U)
    BY ConcatProperties
  <2>2. \A p \in Seq(U) : \A q \in Seq(U) : Only(p \o q, kept) = Only(p, kept) \o Only(q, kept)
    BY OnlyOfConcat, Zenon
  <2> QED
    BY <2>1, <2>2
<1>2. Left(s) = <<>> /\ Left(t) = t /\ Left(v) = <<>>
  OBVIOUS
<1>3. (<<>> \o t) \o <<>> = t
  BY ConcatEmptySeq
<1> HIDE DEF Left
<1>4. s \o t \in Seq(U) /\ Left(s \o t) = Left(s) \o Left(t)
  BY <1>1
<1>5. Left((s \o t) \o v) = Left(s \o t) \o Left(v)
  BY <1>1, <1>4
<1>6. Left((s \o t) \o v) = t
  BY <1>2, <1>3, <1>4, <1>5
<1> QED
  BY <1>6 DEF Left

\* Two filters are one.
LEMMA OnlyTwice ==
  ASSUME NEW T, NEW A, NEW B
  PROVE  \A s \in Seq(T) : Only(Only(s, A), B) = Only(s, A \cap B)
<1> DEFINE Good == {s \in Seq(T) : Only(Only(s, A), B) = Only(s, A \cap B)}
<1>1. <<>> \in Good
  BY OnlyOfNone, EmptySeq
<1>2. ASSUME NEW s \in Seq(T), NEW e \in T, s \in Good
      PROVE  Append(s, e) \in Good
  <2>1. Only(s, A) \in Seq(T)
    <3>1. Only(s, A) \in Seq(T \cap A)
      BY OnlyType
    <3> QED
      BY <3>1, SeqMonotonic
  <2>2. Only(Append(s, e), A) = IF e \in A THEN Append(Only(s, A), e) ELSE Only(s, A)
    BY OnlyOfAppend
  <2>3. Only(Append(Only(s, A), e), B) = IF e \in B THEN Append(Only(Only(s, A), B), e) ELSE Only(Only(s, A), B)
    BY <2>1, OnlyOfAppend
  <2>4. Only(Append(s, e), A \cap B) = IF e \in A \cap B THEN Append(Only(s, A \cap B), e) ELSE Only(s, A \cap B)
    BY OnlyOfAppend
  <2>5. Append(s, e) \in Seq(T) /\ Only(Only(s, A), B) = Only(s, A \cap B)
    BY <1>2, AppendProperties
  <2>6. Only(Only(Append(s, e), A), B) = Only(Append(s, e), A \cap B)
    <3>1. CASE e \in A /\ e \in B
      BY <2>2, <2>3, <2>4, <2>5, <3>1
    <3>2. CASE e \in A /\ e \notin B
      BY <2>2, <2>3, <2>4, <2>5, <3>2
    <3>3. CASE e \notin A
      BY <2>2, <2>4, <2>5, <3>3
    <3> QED
      BY <3>1, <3>2, <3>3
  <2> QED
    BY <2>5, <2>6
<1> HIDE DEF Good
<1>3. Seq(T) \subseteq Good
  BY <1>1, <1>2, SequenceInduction
<1> QED
  BY <1>3 DEF Good

\* Whatever is in the set is left.
LEMMA OnlyLosesNothing ==
  ASSUME NEW T, NEW kept
  PROVE  \A s \in Seq(T) : \A i \in DOMAIN s :
           s[i] \in kept => \E k \in DOMAIN Only(s, kept) : Only(s, kept)[k] = s[i]
<1> DEFINE Keeps(s) == \A i \in DOMAIN s :
                         s[i] \in kept => \E k \in DOMAIN Only(s, kept) : Only(s, kept)[k] = s[i]
           Good == {s \in Seq(T) : Keeps(s)}
<1>1. <<>> \in Good
  BY EmptySeq, LenProperties
<1>2. ASSUME NEW s \in Seq(T), NEW e \in T, s \in Good
      PROVE  Append(s, e) \in Good
  <2> DEFINE t == Append(s, e)
             o == Only(s, kept)
             p == Only(t, kept)
  <2>1. t \in Seq(T) /\ DOMAIN t = 1 .. Len(s) + 1 /\ Len(s) \in Nat /\ t[Len(s) + 1] = e
        /\ (\A i \in 1 .. Len(s) : t[i] = s[i]) /\ DOMAIN s = 1 .. Len(s)
    BY AppendProperties, LenProperties
  <2>2. o \in Seq(T \cap kept) /\ p = IF e \in kept THEN Append(o, e) ELSE o
    BY OnlyType, OnlyOfAppend
  <2>3. Keeps(s)
    BY <1>2
  <2> HIDE DEF t, o, p
  <2>4. e \in kept => \E k \in DOMAIN p : p[k] = e
    BY <2>2, AppendProperties, LenProperties
  <2>5. \A k \in DOMAIN o : k \in DOMAIN p /\ p[k] = o[k]
    BY <2>2, AppendProperties, LenProperties
  <2>6. \A i \in DOMAIN t : t[i] \in kept => \E k \in DOMAIN p : p[k] = t[i]
    BY <2>1, <2>3, <2>4, <2>5 DEF o
  <2> QED
    BY <2>1, <2>6 DEF t, p
<1> HIDE DEF Good
<1>3. Seq(T) \subseteq Good
  BY <1>1, <1>2, SequenceInduction
<1> QED
  BY <1>3 DEF Good

\* What is left was there.
LEMMA OnlyInventsNothing ==
  ASSUME NEW T, NEW kept
  PROVE  \A s \in Seq(T) : \A k \in DOMAIN Only(s, kept) : \E i \in DOMAIN s : Only(s, kept)[k] = s[i]
<1> TAKE s \in Seq(T)
<1> DEFINE there == {s[i] : i \in DOMAIN s}
<1>1. Len(s) \in Nat /\ DOMAIN s = 1 .. Len(s) /\ s \in [1 .. Len(s) -> T]
  BY LenProperties
<1>2. s \in Seq(there)
  <2>1. s \in [1 .. Len(s) -> there]
    BY <1>1
  <2> HIDE DEF there
  <2> QED
    BY <1>1, <2>1, SeqDef
<1>3. Only(s, kept) \in Seq(there \cap kept)
  <2> HIDE DEF there
  <2> QED
    BY <1>2, OnlyType
<1> DEFINE left == Only(s, kept)
<1>4. \A k \in DOMAIN left : left[k] \in there
  <2>1. left \in Seq(there \cap kept)
    BY <1>3
  <2> HIDE DEF there, left
  <2> QED
    BY <2>1, LenProperties
<1>5. \A k \in DOMAIN left : \E i \in DOMAIN s : left[k] = s[i]
  <2> HIDE DEF left
  <2> QED
    BY <1>4
<1> QED
  BY <1>5, Zenon

\* No two elements of s that stand in R.
Apart(s, R) == \A i, k \in DOMAIN s : <<s[i], s[k]>> \in R => i = k

\* What was apart stays apart.
LEMMA OnlyKeepsApart ==
  ASSUME NEW T, NEW kept, NEW R
  PROVE  \A s \in Seq(T) : Apart(s, R) => Apart(Only(s, kept), R)
<1> DEFINE Good == {s \in Seq(T) : Apart(s, R) => Apart(Only(s, kept), R)}
<1>1. <<>> \in Good
  BY OnlyOfNone, EmptySeq
<1>2. ASSUME NEW s \in Seq(T), NEW e \in T, s \in Good
      PROVE  Append(s, e) \in Good
  <2> DEFINE t == Append(s, e)
             o == Only(s, kept)
             p == Only(t, kept)
             n == Len(o)
  <2>1. t \in Seq(T) /\ DOMAIN t = 1 .. Len(s) + 1 /\ Len(s) \in Nat /\ t[Len(s) + 1] = e
        /\ (\A i \in 1 .. Len(s) : t[i] = s[i]) /\ DOMAIN s = 1 .. Len(s)
    BY AppendProperties, LenProperties
  <2>2. o \in Seq(T \cap kept) /\ p = IF e \in kept THEN Append(o, e) ELSE o
    BY OnlyType, OnlyOfAppend
  <2>3. \A k \in DOMAIN o : \E i \in DOMAIN s : o[k] = s[i]
    BY OnlyInventsNothing
  <2>4. Apart(s, R) => Apart(o, R)
    BY <1>2
  <2> HIDE DEF t, o, p
  <2>5. ASSUME Apart(t, R)
        PROVE  Apart(p, R)
    <3>1. Apart(o, R)
      <4>1. \A i, k \in DOMAIN s : <<s[i], s[k]>> \in R => i = k
        BY <2>1, <2>5 DEF Apart
      <4> QED
        BY <2>4, <4>1 DEF Apart
    <3>2. CASE e \notin kept
      BY <2>2, <3>1, <3>2
    <3>3. CASE e \in kept
      <4>1. n \in Nat /\ DOMAIN o = 1 .. n /\ DOMAIN p = 1 .. n + 1 /\ p[n + 1] = e
            /\ \A k \in 1 .. n : p[k] = o[k]
        BY <2>2, <3>3, AppendProperties, LenProperties
      <4> HIDE DEF n
      <4>2. \A k \in DOMAIN o : <<o[k], e>> \notin R /\ <<e, o[k]>> \notin R
        <5> SUFFICES ASSUME NEW k \in DOMAIN o
                     PROVE  <<o[k], e>> \notin R /\ <<e, o[k]>> \notin R
          OBVIOUS
        <5>1. PICK i \in DOMAIN s : o[k] = s[i]
          BY <2>3
        <5>2. i \in DOMAIN t /\ Len(s) + 1 \in DOMAIN t /\ i # Len(s) + 1 /\ t[i] = o[k]
          BY <2>1, <5>1
        <5> QED
          BY <2>1, <2>5, <5>2 DEF Apart
      <4>3. ASSUME NEW i \in 1 .. n + 1, NEW k \in 1 .. n + 1, <<p[i], p[k]>> \in R
            PROVE  i = k
        <5>1. CASE i \in 1 .. n /\ k \in 1 .. n
          BY <3>1, <4>1, <4>3, <5>1 DEF Apart
        <5>2. CASE i = n + 1 /\ k \in 1 .. n
          BY <4>1, <4>2, <4>3, <5>2
        <5>3. CASE i \in 1 .. n /\ k = n + 1
          BY <4>1, <4>2, <4>3, <5>3
        <5> QED
          BY <4>1, <5>1, <5>2, <5>3
      <4> QED
        BY <4>1, <4>3 DEF Apart
    <3> QED
      BY <3>2, <3>3
  <2> QED
    BY <2>1, <2>5 DEF t, p
<1> HIDE DEF Good
<1>3. Seq(T) \subseteq Good
  BY <1>1, <1>2, SequenceInduction
<1> QED
  BY <1>3 DEF Good

-----------------------------------------------------------------------------
(***************************************************************************)
(* The operators of the rules are the ones that the facts are about        *)
(***************************************************************************)

\* The filter, as the instances of the rules name it.
LEMMA SameOnly ==
  ASSUME NEW s, NEW kept
  PROVE  D!Only(s, kept) = Only(s, kept) /\ S!Only(s, kept) = Only(s, kept)
BY DEF Only, D!Only, S!Only

\* The sum.
LEMMA SameSum ==
  ASSUME NEW fun, NEW T
  PROVE  D!SumFunctionOnSet(fun, T) = SumFunctionOnSet(fun, T) /\ Q!SumFunctionOnSet(fun, T) = SumFunctionOnSet(fun, T)
BY DEF SumFunctionOnSet, FoldFunctionOnSet, MapThenFoldSet,
       D!SumFunctionOnSet, D!FoldFunctionOnSet, D!MapThenFoldSet,
       Q!SumFunctionOnSet, Q!FoldFunctionOnSet, Q!MapThenFoldSet

\* The number of elements.
LEMMA SameCardinality ==
  ASSUME NEW T
  PROVE  Q!Cardinality(T) = Cardinality(T)
BY DEF Cardinality, Q!Cardinality

\* The elements of a sequence.
LEMMA SameRange ==
  ASSUME NEW f
  PROVE  S!Range(f) = {f[i] : i \in DOMAIN f}
BY DEF S!Range

-----------------------------------------------------------------------------
(***************************************************************************)
(* Settings                                                                *)
(***************************************************************************)

\* Strings; the provers are not told that a literal is one.
Words == STRING \cup {"ssl", "disable", "require"}

\* Parameters, and those that the translation leaves in a query.
Texts == [key : Words, value : Words]
Clean == {p \in Texts : p.key \notin S!PARAMETROS_INCOMPATIVEIS \cup {"sslmode"}}

\* What is known of a connection string.
LEMMA DsnTexts ==
  ASSUME NEW dsn \in Dsns
  PROVE  dsn \in [driver : STRING, query : Seq(Texts)] /\ dsn.query \in Seq(Texts)
<1> DEFINE Params == [key : STRING, value : STRING]
<1>1. dsn \in [driver : STRING, query : Seq(Params)]
  BY DsnsAssumption
<1>2. Params \subseteq Texts
  BY DEF Texts, Words
<1> HIDE DEF Params
<1>3. Seq(Params) \subseteq Seq(Texts)
  BY <1>2, SeqMonotonic
<1> QED
  BY <1>1, <1>3

\* Parameters that one string should not both hold.
Clashes == {pq \in Texts \X Texts : pq[1].key = pq[2].key \/ {pq[1].key, pq[2].key} = S!TlsKeys}

\* What is made of one parameter.
LEMMA TranslatedIsClean ==
  ASSUME NEW p \in Texts, p.key \notin S!PARAMETROS_INCOMPATIVEIS
  PROVE  /\ S!Translated(p) \in Clean
         /\ p \in Clean => S!Translated(p) = p
         /\ p.key \notin S!TlsKeys => S!Translated(p) = p
         /\ p.key \in S!TlsKeys =>
              /\ S!Translated(p).key = "ssl"
              /\ S!Translated(p).value = "disable" <=> p.value = "disable"
         /\ p.key = "sslmode" => S!Translated(p).value \in S!SslModes
<1>1. CASE p.key # "sslmode"
  BY <1>1 DEF S!Translated, Clean, S!TlsKeys
<1>2. CASE p.key = "sslmode"
  <2>1. PICK v \in {"disable", "require"} :
          S!Translated(p) = [key |-> "ssl", value |-> v] /\ (v = "disable" <=> p.value = "disable")
    <3>1. CASE p.value = "disable"
      <4>1. S!Translated(p) = [key |-> "ssl", value |-> "disable"]
        BY <1>2, <3>1 DEF S!Translated
      <4> QED
        BY <3>1, <4>1
    <3>2. CASE p.value # "disable"
      <4>1. S!Translated(p) = [key |-> "ssl", value |-> "require"]
        BY <1>2, <3>2 DEF S!Translated
      <4> QED
        BY <3>2, <4>1
    <3> QED
      BY <3>1, <3>2
  <2>2. v \in S!SslModes
    BY DEF S!SslModes
  <2>3. [key |-> "ssl", value |-> v] \in Clean
    <3>1. v \in Words /\ "ssl" \in Words
      BY DEF Words
    <3>2. "ssl" \notin S!PARAMETROS_INCOMPATIVEIS \cup {"sslmode"}
      BY DEF S!PARAMETROS_INCOMPATIVEIS
    <3>3. [key |-> "ssl", value |-> v] \in Texts
      BY <3>1 DEF Texts
    <3> QED
      BY <3>2, <3>3 DEF Clean
  <2>4. p \notin Clean /\ p.key \in S!TlsKeys
    BY <1>2 DEF Clean, S!TlsKeys
  <2>5. S!Translated(p).key = "ssl" /\ S!Translated(p).value = v
    BY <2>1
  <2> QED
    BY <2>1, <2>2, <2>3, <2>4, <2>5
<1> QED
  BY <1>1, <1>2

\* Filtering and translating a query.
LEMMA TranslatedQuery ==
  ASSUME NEW dsn \in Dsns, dsn.driver = "asyncpg"
  PROVE  LET made == S!NormalizeAsyncDsn(dsn) IN
         /\ made.driver = "asyncpg" /\ made.query \in Seq(Clean)
         /\ made = [dsn EXCEPT !.query = made.query]
         /\ \A i \in DOMAIN made.query : \E k \in DOMAIN dsn.query :
              /\ dsn.query[k].key \notin S!PARAMETROS_INCOMPATIVEIS
              /\ made.query[i] = S!Translated(dsn.query[k])
         /\ \A k \in DOMAIN dsn.query : dsn.query[k].key \notin S!PARAMETROS_INCOMPATIVEIS =>
              \E i \in DOMAIN made.query : made.query[i] = S!Translated(dsn.query[k])
         /\ Unambiguous(dsn.query) =>
              \A i, k \in DOMAIN made.query : made.query[i].key = made.query[k].key => i = k
<1> DEFINE q == dsn.query
           wanted == {p \in S!Range(q) : p.key \notin S!PARAMETROS_INCOMPATIVEIS}
           kept == Only(q, wanted)
           m == [i \in DOMAIN kept |-> S!Translated(kept[i])]
           made == S!NormalizeAsyncDsn(dsn)
<1>1. dsn \in [driver : STRING, query : Seq(Texts)] /\ q \in Seq(Texts)
  BY DsnTexts
<1>2. made = [dsn EXCEPT !.query = m]
  BY SameOnly DEF S!NormalizeAsyncDsn
<1>3. wanted = {q[i] : i \in {i \in DOMAIN q : q[i].key \notin S!PARAMETROS_INCOMPATIVEIS}}
  BY SameRange
<1>4. made.driver = "asyncpg" /\ made.query = m /\ made = [dsn EXCEPT !.query = made.query]
  <2> HIDE DEF m, made
  <2> QED
    BY <1>1, <1>2
<1> HIDE DEF wanted, made, q
<1>5. kept \in Seq(Texts \cap wanted)
  BY <1>1, OnlyType
<1>6. ASSUME NEW k \in DOMAIN q, q[k].key \notin S!PARAMETROS_INCOMPATIVEIS
      PROVE  \E i \in DOMAIN kept : kept[i] = q[k]
  <2>1. q[k] \in wanted
    BY <1>3, <1>6
  <2>2. \A i \in DOMAIN q : q[i] \in wanted => \E l \in DOMAIN kept : kept[l] = q[i]
    <3>1. kept = Only(q, wanted)
      OBVIOUS
    <3> HIDE DEF kept
    <3> QED
      BY <1>1, <3>1, OnlyLosesNothing
  <2> HIDE DEF kept
  <2> QED
    BY <2>1, <2>2
<1>7. ASSUME NEW i \in DOMAIN kept
      PROVE  /\ kept[i] \in Texts /\ kept[i].key \notin S!PARAMETROS_INCOMPATIVEIS
             /\ \E k \in DOMAIN q : kept[i] = q[k]
  <2>1. kept[i] \in Texts \cap wanted
    BY <1>5, LenProperties
  <2> HIDE DEF kept
  <2> QED
    BY <1>3, <2>1
<1>8. Unambiguous(q) => Apart(kept, Clashes)
  <2>1. Unambiguous(q) => Apart(q, Clashes)
    BY DEF Unambiguous, Apart, Clashes
  <2>2. Apart(q, Clashes) => Apart(kept, Clashes)
    BY <1>1, OnlyKeepsApart
  <2> QED
    BY <2>1, <2>2
<1> HIDE DEF kept
<1>9. DOMAIN m = DOMAIN kept /\ \A i \in DOMAIN m : m[i] = S!Translated(kept[i]) /\ m[i] \in Clean
  BY <1>7, TranslatedIsClean
<1>10. m \in Seq(Clean)
  <2>1. Len(kept) \in Nat /\ DOMAIN kept = 1 .. Len(kept)
    BY <1>5, LenProperties
  <2>2. m \in [1 .. Len(kept) -> Clean]
    BY <1>9, <2>1
  <2> HIDE DEF m
  <2> QED
    BY <2>1, <2>2, SeqDef
<1> HIDE DEF m
<1>11. \A i \in DOMAIN m : \E k \in DOMAIN q :
         q[k].key \notin S!PARAMETROS_INCOMPATIVEIS /\ m[i] = S!Translated(q[k])
  BY <1>7, <1>9
<1>12. \A k \in DOMAIN q : q[k].key \notin S!PARAMETROS_INCOMPATIVEIS =>
         \E i \in DOMAIN m : m[i] = S!Translated(q[k])
  BY <1>6, <1>9
<1>13. ASSUME Unambiguous(q), NEW i \in DOMAIN m, NEW k \in DOMAIN m, m[i].key = m[k].key
       PROVE  i = k
  <2>1. /\ kept[i] \in Texts /\ kept[i].key \notin S!PARAMETROS_INCOMPATIVEIS
        /\ kept[k] \in Texts /\ kept[k].key \notin S!PARAMETROS_INCOMPATIVEIS
    BY <1>7, <1>9
  <2>2. /\ m[i] = S!Translated(kept[i]) /\ m[k] = S!Translated(kept[k])
        /\ m[i] \in Clean /\ m[k] \in Clean
    BY <1>9
  <2>3. kept[i].key = kept[k].key \/ {kept[i].key, kept[k].key} = S!TlsKeys
    <3>1. CASE kept[i].key \in S!TlsKeys /\ kept[k].key \in S!TlsKeys
      BY <3>1 DEF S!TlsKeys
    <3>2. CASE kept[i].key \notin S!TlsKeys /\ kept[k].key \notin S!TlsKeys
      BY <1>13, <2>1, <2>2, <3>2, TranslatedIsClean
    <3>3. CASE kept[i].key \in S!TlsKeys /\ kept[k].key \notin S!TlsKeys
      <4>1. m[i].key = "ssl" /\ m[k].key = kept[k].key
        BY <2>1, <2>2, <3>3, TranslatedIsClean
      <4> QED
        BY <1>13, <3>3, <4>1 DEF S!TlsKeys
    <3>4. CASE kept[i].key \notin S!TlsKeys /\ kept[k].key \in S!TlsKeys
      <4>1. m[k].key = "ssl" /\ m[i].key = kept[i].key
        BY <2>1, <2>2, <3>4, TranslatedIsClean
      <4> QED
        BY <1>13, <3>4, <4>1 DEF S!TlsKeys
    <3> QED
      BY <3>1, <3>2, <3>3, <3>4
  <2>4. <<kept[i], kept[k]>> \in Clashes
    BY <2>1, <2>3 DEF Clashes
  <2> QED
    BY <1>8, <1>9, <1>13, <2>4 DEF Apart
<1> QED
  BY <1>4, <1>10, <1>11, <1>12, <1>13 DEF made, q

\* A query that is clean is left as it is.
LEMMA CleanIsKept ==
  ASSUME NEW dsn, dsn.driver = "asyncpg", dsn.query \in Seq(Clean), dsn = [dsn EXCEPT !.query = dsn.query]
  PROVE  S!NormalizeAsyncDsn(dsn) = dsn
<1> DEFINE q == dsn.query
           wanted == {p \in S!Range(q) : p.key \notin S!PARAMETROS_INCOMPATIVEIS}
<1>1. \A i \in DOMAIN q : q[i] \in Clean
  BY LenProperties
<1>2. q \in Seq(wanted)
  <2>1. \A p \in Clean : p.key \notin S!PARAMETROS_INCOMPATIVEIS
    BY DEF Clean
  <2>2. \A i \in DOMAIN q : q[i] \in wanted
    BY <1>1, <2>1, SameRange
  <2>3. Len(q) \in Nat /\ q \in [1 .. Len(q) -> wanted]
    <3> HIDE DEF wanted
    <3> QED
      BY <2>2, LenProperties
  <2> HIDE DEF wanted
  <2> QED
    BY <2>3, SeqDef
<1>3. S!Only(q, wanted) = q
  BY <1>2, OnlyKeepsAll, SameOnly
<1>4. S!NormalizeAsyncDsn(dsn) = [dsn EXCEPT !.query = [i \in DOMAIN S!Only(q, wanted) |-> S!Translated(S!Only(q, wanted)[i])]]
  BY DEF S!NormalizeAsyncDsn
<1>5. [i \in DOMAIN q |-> S!Translated(q[i])] = q
  <2>1. \A i \in DOMAIN q : S!Translated(q[i]) = q[i]
    BY <1>1, TranslatedIsClean DEF Clean
  <2>2. q = [i \in DOMAIN q |-> q[i]]
    BY LenProperties
  <2> HIDE DEF q
  <2> QED
    BY <2>1, <2>2
<1> QED
  BY <1>3, <1>4, <1>5

\* The driver accepts what is made of a string that is unambiguous and in known terms.
LEMMA KnownTermsAccepted ==
  ASSUME NEW dsn \in Dsns, dsn.driver = "asyncpg", Unambiguous(dsn.query), InKnownTerms(dsn.query)
  PROVE  S!Accepts(S!NormalizeAsyncDsn(dsn))
<1> DEFINE made == S!NormalizeAsyncDsn(dsn)
           m == made.query
           q == dsn.query
<1>1. /\ \A i \in DOMAIN m : \E k \in DOMAIN q :
           q[k].key \notin S!PARAMETROS_INCOMPATIVEIS /\ m[i] = S!Translated(q[k])
      /\ \A i, k \in DOMAIN m : m[i].key = m[k].key => i = k
  BY TranslatedQuery
<1>2. \A k \in DOMAIN q : q[k] \in Texts
  <2>1. q \in Seq(Texts)
    BY DsnTexts
  <2> QED
    BY <2>1, LenProperties
<1>3. \A k \in DOMAIN q : /\ q[k].key \in S!PARAMETROS_INCOMPATIVEIS \cup S!TlsKeys \cup ConnectArguments
                          /\ q[k].key = "ssl" => q[k].value \in S!SslModes
  BY DEF InKnownTerms
<1> HIDE DEF made, q
<1>4. ASSUME NEW i \in DOMAIN m
      PROVE  m[i].key \in ConnectArguments /\ (m[i].key = "ssl" => m[i].value \in S!SslModes)
  <2>1. PICK k \in DOMAIN q : q[k].key \notin S!PARAMETROS_INCOMPATIVEIS /\ m[i] = S!Translated(q[k])
    BY <1>1
  <2>2. CASE q[k].key = "sslmode"
    BY <1>2, <2>1, <2>2, TranslatedIsClean, DsnsAssumption DEF S!TlsKeys
  <2>3. CASE q[k].key # "sslmode"
    <3>1. m[i] = q[k]
      BY <2>1, <2>3 DEF S!Translated
    <3> QED
      BY <1>3, <2>1, <2>3, <3>1, DsnsAssumption DEF S!TlsKeys
  <2> QED
    BY <2>2, <2>3
<1> QED
  BY <1>1, <1>4 DEF S!Accepts, made

\* The answer about settings is the one that was computed.
LEMMA SettingsAnswered ==
  ASSUME question.dsn \in Dsns, question.host \in BOOLEAN,
         answer = [dsn      |-> S!NormalizeAsyncDsn(question.dsn),
                   notifier |-> S!BuildNotifier(question.channel, question.host)]
  PROVE  SettingsUsable
<1> DEFINE dsn  == question.dsn
           made == S!NormalizeAsyncDsn(dsn)
           Pairs(d)  == {d.query[i] : i \in DOMAIN d.query}
           Others(d) == {p \in Pairs(d) : p.key \notin S!PARAMETROS_INCOMPATIVEIS \cup S!TlsKeys}
           Tls(d)    == {p \in Pairs(d) : p.key \in S!TlsKeys}
           Off(d)    == {p \in Tls(d) : p.value = "disable"}
<1>1. answer.notifier = "email" <=> question.host /\ question.channel \in {"email", "auto"}
  BY DEF S!BuildNotifier
<1>2. CASE dsn.driver # "asyncpg"
  <2>1. made = dsn
    BY <1>2 DEF S!NormalizeAsyncDsn
  <2> HIDE DEF made
  <2>2. question.dsn = dsn /\ answer.dsn = made
    BY DEF made
  <2>3. S!NormalizeAsyncDsn(made) = made
    BY <2>1 DEF made
  <2> QED
    BY <1>1, <1>2, <2>1, <2>2, <2>3 DEF SettingsUsable
<1>3. CASE dsn.driver = "asyncpg"
  <2>1. /\ made.driver = "asyncpg" /\ made.query \in Seq(Clean)
        /\ made = [dsn EXCEPT !.query = made.query]
        /\ \A i \in DOMAIN made.query : \E k \in DOMAIN dsn.query :
             /\ dsn.query[k].key \notin S!PARAMETROS_INCOMPATIVEIS
             /\ made.query[i] = S!Translated(dsn.query[k])
        /\ \A k \in DOMAIN dsn.query : dsn.query[k].key \notin S!PARAMETROS_INCOMPATIVEIS =>
             \E i \in DOMAIN made.query : made.query[i] = S!Translated(dsn.query[k])
    BY <1>3, TranslatedQuery
  <2>2. question.dsn = dsn /\ answer.dsn = made
    OBVIOUS
  <2>3. Unambiguous(dsn.query) /\ InKnownTerms(dsn.query) => S!Accepts(made)
    BY <1>3, KnownTermsAccepted
  <2> HIDE DEF made
  <2>4. dsn \in [driver : STRING, query : Seq(Texts)]
    BY DsnTexts
  <2>5. S!NormalizeAsyncDsn(made) = made
    <3>1. made = [made EXCEPT !.query = made.query]
      BY <2>1, <2>4
    <3> QED
      BY <2>1, <3>1, CleanIsKept
  <2>6. \A p \in Pairs(made) : p \in Clean
    BY <2>1, LenProperties
  <2>7. \A p \in Pairs(dsn) : p \in Texts
    BY <2>4, LenProperties
  <2>8. \A p \in Pairs(made) : \E g \in Pairs(dsn) :
          g.key \notin S!PARAMETROS_INCOMPATIVEIS /\ p = S!Translated(g)
    BY <2>1
  <2>9. \A g \in Pairs(dsn) : g.key \notin S!PARAMETROS_INCOMPATIVEIS => S!Translated(g) \in Pairs(made)
    BY <2>1
  <2> HIDE DEF Pairs, dsn
  <2>10. \A p \in Tls(made) : p.key = "ssl"
    BY <2>6 DEF Clean, S!TlsKeys
  <2>11. Pairs(made) = Others(made) \cup Tls(made)
    BY <2>6 DEF Clean, S!TlsKeys
  <2>12. \A g \in Tls(dsn) : g.key \notin S!PARAMETROS_INCOMPATIVEIS /\ S!Translated(g) \in Tls(made)
    <3>1. \A g \in Tls(dsn) : g.key \notin S!PARAMETROS_INCOMPATIVEIS
      BY DEF S!TlsKeys, S!PARAMETROS_INCOMPATIVEIS
    <3>2. \A g \in Tls(dsn) : S!Translated(g).key = "ssl"
      BY <2>7, <3>1, TranslatedIsClean
    <3> QED
      BY <2>9, <3>1, <3>2 DEF S!TlsKeys
  <2>13. \A p \in Tls(made) : \E g \in Tls(dsn) : g.key \notin S!PARAMETROS_INCOMPATIVEIS /\ p = S!Translated(g)
    <3> SUFFICES ASSUME NEW p \in Tls(made)
                 PROVE  \E g \in Tls(dsn) : g.key \notin S!PARAMETROS_INCOMPATIVEIS /\ p = S!Translated(g)
      OBVIOUS
    <3>1. PICK g \in Pairs(dsn) : g.key \notin S!PARAMETROS_INCOMPATIVEIS /\ p = S!Translated(g)
      BY <2>8
    <3>2. g.key \in S!TlsKeys
      BY <2>7, <3>1, TranslatedIsClean
    <3> QED
      BY <3>1, <3>2
  <2>14. Others(made) = Others(dsn)
    <3>1. ASSUME NEW p \in Others(made)
          PROVE  p \in Others(dsn)
      <4>1. PICK g \in Pairs(dsn) : g.key \notin S!PARAMETROS_INCOMPATIVEIS /\ p = S!Translated(g)
        BY <2>8
      <4>2. g.key \notin S!TlsKeys
        BY <2>7, <3>1, <4>1, TranslatedIsClean DEF S!TlsKeys
      <4> QED
        BY <2>7, <4>1, <4>2, TranslatedIsClean
    <3>2. ASSUME NEW g \in Others(dsn)
          PROVE  g \in Others(made)
      BY <2>7, <2>9, TranslatedIsClean
    <3> QED
      BY <3>1, <3>2
  <2>15. \A g \in Tls(dsn) : S!Translated(g).value = "disable" <=> g.value = "disable"
    BY <2>7, <2>12, TranslatedIsClean
  <2>16. Tls(made) = {} <=> Tls(dsn) = {}
    BY <2>12, <2>13
  <2>17. Off(made) = {} <=> Off(dsn) = {}
    BY <2>12, <2>13, <2>15
  <2> QED
    BY <1>1, <1>3, <2>2, <2>3, <2>5, <2>10, <2>11, <2>14, <2>16, <2>17 DEF SettingsUsable, Pairs
<1> QED
  BY <1>2, <1>3

-----------------------------------------------------------------------------
(***************************************************************************)
(* The average                                                             *)
(***************************************************************************)

\* A sum of n numbers that are each at least c is at least n times c, scaled by k.
LEMMA SumAtLeast ==
  ASSUME NEW T, IsFiniteSet(T), NEW f, NEW k \in Int, NEW c \in Int,
         \A x \in T : f[x] \in Int /\ k * f[x] >= c
  PROVE  k * SumFunctionOnSet(f, T) >= c * Cardinality(T)
<1> DEFINE Total(U) == SumFunctionOnSet(f, U)
           Good == {U \in SUBSET T : k * Total(U) >= c * Cardinality(U)}
<1>1. ASSUME NEW U \in SUBSET T, \A V \in SUBSET U : V # U => V \in Good
      PROVE  U \in Good
  <2>1. CASE U = {}
    <3>1. Total(U) = 0 /\ Cardinality(U) = 0
      BY <2>1, SumOfNone, FS_EmptySet
    <3> QED
      BY <3>1
  <2>2. CASE U # {}
    <3>1. PICK x \in U : TRUE
      BY <2>2
    <3>2. IsFiniteSet(U) /\ IsFiniteSet(U \ {x}) /\ Cardinality(U \ {x}) = Cardinality(U) - 1
          /\ Cardinality(U) \in Nat
      BY FS_Subset, FS_RemoveElement, FS_CardinalityType
    <3>3. Total(U) = f[x] + Total(U \ {x}) /\ Total(U \ {x}) \in Int
      BY <3>2, SumTakesOut
    <3>4. k * Total(U \ {x}) >= c * (Cardinality(U) - 1)
      BY <1>1, <3>2
    <3>5. f[x] \in Int /\ k * f[x] >= c
      OBVIOUS
    <3> DEFINE rest == Total(U \ {x})
               n == Cardinality(U)
    <3>6. k * (f[x] + rest) = k * f[x] + k * rest /\ c * (n - 1) = c * n - c
          /\ k * f[x] \in Int /\ k * rest \in Int /\ c * n \in Int
      BY <3>2, <3>3, <3>5
    <3> HIDE DEF Total, rest, n
    <3>7. k * Total(U) >= c * n
      BY <3>3, <3>4, <3>5, <3>6 DEF rest, n
    <3> QED
      BY <3>7 DEF n
  <2> QED
    BY <2>1, <2>2
<1> HIDE DEF Good
<1>2. T \in Good
  BY <1>1, SubsetInduction
<1> QED
  BY <1>2 DEF Good

\* The mean of a set lies between its least and its greatest, half a hundredth aside.
LEMMA MeanWithinRange ==
  ASSUME NEW T, IsFiniteSet(T), T # {}, NEW f, \A x \in T : f[x] \in Int, NEW a \in Int,
         Q!Abs(60 * Cardinality(T) * a - 100 * SumFunctionOnSet(f, T)) <= 30 * Cardinality(T)
  PROVE  /\ \E x \in T : 100 * f[x] <= 60 * a + 30
         /\ \E x \in T : 60 * a <= 100 * f[x] + 30
<1> DEFINE n == Cardinality(T)
           total == SumFunctionOnSet(f, T)
<1>1. n \in Nat /\ n > 0 /\ total \in Int /\ n * a \in Int
  BY FS_CardinalityType, FS_EmptySet, SumTakesOut
<1>2. 60 * n * a = 60 * (n * a)
  BY <1>1
<1>3. 60 * (n * a) - 100 * total <= 30 * n /\ 100 * total - 60 * (n * a) <= 30 * n
  <2>1. Q!Abs(60 * (n * a) - 100 * total) <= 30 * n
    BY <1>2
  <2> HIDE DEF n, total
  <2> QED
    BY <1>1, <2>1 DEF Q!Abs
<1>4. ASSUME \A x \in T : 100 * f[x] > 60 * a + 30
      PROVE  FALSE
  <2>1. \A x \in T : f[x] \in Int /\ 100 * f[x] >= 60 * a + 31
    BY <1>4
  <2>2. 100 * total >= (60 * a + 31) * n
    BY <2>1, SumAtLeast
  <2>3. (60 * a + 31) * n = 60 * (n * a) + 31 * n
    BY <1>1
  <2> HIDE DEF n, total
  <2> QED
    BY <1>1, <1>3, <2>2, <2>3
<1>5. ASSUME \A x \in T : 60 * a > 100 * f[x] + 30
      PROVE  FALSE
  <2>1. PICK k \in Int, c \in Int : k = -100 /\ c = 31 - 60 * a
    OBVIOUS
  <2>2. \A x \in T : f[x] \in Int /\ k * f[x] >= c
    BY <1>5, <2>1
  <2>3. k * total >= c * n
    BY <2>2, SumAtLeast
  <2> HIDE DEF n, total
  <2>4. c * n = 31 * n - 60 * (n * a)
    BY <1>1, <2>1
  <2>5. k * total = -(100 * total)
    BY <1>1, <2>1
  <2> QED
    BY <1>1, <1>3, <2>3, <2>4, <2>5
<1> QED
  BY <1>4, <1>5

\* The answer about the average is the one that was computed.
LEMMA AverageAnswered ==
  ASSUME question.orders \in OrderSets, answer \in Q!AverageExecutionTime(question.orders)
  PROVE  AverageWithinRange
<1> DEFINE orders    == question.orders
           result    == answer
           delivered == {i \in DOMAIN orders : orders[i].status = "ENTREGUE"}
           f == [i \in delivered |-> Q!ExecutionTime(orders[i])]
           n == Cardinality(delivered)
<1>1. /\ IsFiniteSet(delivered)
      /\ \A i \in delivered : orders[i].started \in Int /\ orders[i].completed \in Int
  BY OrdersAssumption, FS_Subset
<1>2. Q!CompletedWithTimes(orders) = delivered
  BY <1>1, OrdersAssumption DEF Q!CompletedWithTimes
<1>3. \A i \in delivered : f[i] = orders[i].completed - orders[i].started /\ f[i] \in Int
  BY <1>1 DEF Q!ExecutionTime
<1>4. result \in IF delivered = {} THEN {[average |-> None, completed |-> 0]}
                  ELSE {[average |-> a, completed |-> n] :
                          a \in {a \in -2 * Q!Abs(SumFunctionOnSet(f, delivered)) .. 2 * Q!Abs(SumFunctionOnSet(f, delivered)) :
                                   Q!Abs(60 * n * a - 100 * SumFunctionOnSet(f, delivered)) <= 30 * n}}
  BY <1>2, SameSum, SameCardinality DEF Q!AverageExecutionTime
<1>5. question.orders = orders /\ answer = result
  OBVIOUS
<1>6. CASE delivered = {}
  <2>0. answer = [average |-> None, completed |-> 0]
    BY <1>4, <1>6, Zenon
  <2>1. answer.average = None /\ answer.completed = 0 /\ Cardinality(delivered) = 0
    BY <1>6, <2>0, FS_EmptySet
  <2> HIDE DEF f, n
  <2> QED
    BY <1>5, <1>6, <2>1 DEF AverageWithinRange
<1>7. CASE delivered # {}
  <2> HIDE DEF delivered, f, n
  <2>1. PICK a \in -2 * Q!Abs(SumFunctionOnSet(f, delivered)) .. 2 * Q!Abs(SumFunctionOnSet(f, delivered)) :
          /\ Q!Abs(60 * n * a - 100 * SumFunctionOnSet(f, delivered)) <= 30 * n
          /\ result = [average |-> a, completed |-> n]
    BY <1>4, <1>7
  <2>2. a \in Int /\ a # None
    BY OrdersAssumption
  <2>3. /\ \E x \in delivered : 100 * f[x] <= 60 * a + 30
        /\ \E x \in delivered : 60 * a <= 100 * f[x] + 30
    BY <1>1, <1>3, <1>7, <2>1, <2>2, MeanWithinRange DEF n
  <2>4. answer.average = a /\ answer.completed = n
    BY <1>5, <2>1
  <2> QED
    BY <1>3, <1>5, <1>7, <2>2, <2>3, <2>4 DEF AverageWithinRange, delivered, n
<1> QED
  BY <1>6, <1>7

-----------------------------------------------------------------------------
(***************************************************************************)
(* The work list                                                           *)
(***************************************************************************)

\* A relation that puts the elements of T in a row.
Orders(R, T) ==
  /\ \A x \in T : <<x, x>> \notin R
  /\ \A x, y \in T : x # y => <<x, y>> \in R \/ <<y, x>> \in R
  /\ \A x, y, z \in T : <<x, y>> \in R /\ <<y, z>> \in R => <<x, z>> \in R

\* Of a finite set in a row one element is the last.
LEMMA LastExists ==
  ASSUME NEW T, IsFiniteSet(T), T # {}, NEW R, Orders(R, T)
  PROVE  \E m \in T : \A x \in T \ {m} : <<x, m>> \in R
<1> DEFINE Good == {U \in SUBSET T : U = {} \/ \E m \in U : \A x \in U \ {m} : <<x, m>> \in R}
<1>1. ASSUME NEW U \in SUBSET T, \A V \in SUBSET U : V # U => V \in Good
      PROVE  U \in Good
  <2>1. CASE U = {}
    BY <2>1
  <2>2. CASE U # {}
    <3>1. PICK y \in U : TRUE
      BY <2>2
    <3>2. U \ {y} \in Good
      BY <1>1, <3>1
    <3>3. CASE U \ {y} = {}
      BY <3>1, <3>3
    <3>4. CASE U \ {y} # {}
      <4>1. PICK m \in U \ {y} : \A x \in (U \ {y}) \ {m} : <<x, m>> \in R
        BY <3>2, <3>4
      <4>2. CASE <<y, m>> \in R
        BY <3>1, <4>1, <4>2
      <4>3. CASE <<y, m>> \notin R
        <5>1. <<m, y>> \in R
          BY <3>1, <4>1, <4>3 DEF Orders
        <5>2. \A x \in U \ {y} : <<x, y>> \in R
          BY <3>1, <4>1, <5>1 DEF Orders
        <5> QED
          BY <3>1, <5>2
      <4> QED
        BY <4>2, <4>3
    <3> QED
      BY <3>3, <3>4
  <2> QED
    BY <2>1, <2>2
<1> HIDE DEF Good
<1>2. T \in Good
  BY <1>1, SubsetInduction
<1> QED
  BY <1>2 DEF Good

\* A finite set in a row can be listed.
LEMMA SortedListExists ==
  ASSUME NEW T, IsFiniteSet(T), NEW R, Orders(R, T)
  PROVE  \E list \in [1 .. Cardinality(T) -> T] :
           \A p, q \in 1 .. Cardinality(T) : p < q => <<list[p], list[q]>> \in R
<1> DEFINE Good == {U \in SUBSET T :
                      \E list \in [1 .. Cardinality(U) -> U] :
                        \A p, q \in 1 .. Cardinality(U) : p < q => <<list[p], list[q]>> \in R}
<1>1. ASSUME NEW U \in SUBSET T, \A V \in SUBSET U : V # U => V \in Good
      PROVE  U \in Good
  <2>1. CASE U = {}
    <3>1. Cardinality(U) = 0
      BY <2>1, FS_EmptySet
    <3>2. PICK list \in [1 .. 0 -> U] : TRUE
      <4>1. [p \in 1 .. 0 |-> p] \in [1 .. 0 -> U]
        OBVIOUS
      <4> QED
        BY <4>1
    <3>3. list \in [1 .. Cardinality(U) -> U] /\ 1 .. Cardinality(U) = {}
      BY <3>1, <3>2
    <3> QED
      BY <3>3
  <2>2. CASE U # {}
    <3>1. IsFiniteSet(U) /\ Orders(R, U)
      BY FS_Subset DEF Orders
    <3>2. PICK m \in U : \A x \in U \ {m} : <<x, m>> \in R
      BY <2>2, <3>1, LastExists
    <3>3. PICK n : n = Cardinality(U)
      OBVIOUS
    <3>4. n \in Nat /\ Cardinality(U \ {m}) = n - 1 /\ n - 1 \in Nat
      <4>1. IsFiniteSet(U \ {m}) /\ Cardinality(U \ {m}) = Cardinality(U) - 1 /\ Cardinality(U) \in Nat
        BY <3>1, <3>2, FS_CardinalityType, FS_RemoveElement
      <4>2. Cardinality(U \ {m}) \in Nat
        BY <4>1, FS_CardinalityType
      <4> QED
        BY <3>3, <4>1, <4>2
    <3>5. PICK old \in [1 .. n - 1 -> U \ {m}] :
            \A p, q \in 1 .. n - 1 : p < q => <<old[p], old[q]>> \in R
      <4>1. U \ {m} \in Good
        BY <1>1, <3>2
      <4> QED
        BY <3>4, <4>1
    <3> DEFINE list == [p \in 1 .. n |-> IF p = n THEN m ELSE old[p]]
    <3>6. \A p \in 1 .. n : p # n => p \in 1 .. n - 1
      BY <3>4
    <3>7. list \in [1 .. n -> U]
      BY <3>2, <3>6
    <3>8. ASSUME NEW p \in 1 .. n, NEW q \in 1 .. n, p < q
          PROVE  <<list[p], list[q]>> \in R
      <4>1. p \in 1 .. n - 1 /\ p # n
        BY <3>4, <3>8
      <4>2. list[p] = old[p] /\ old[p] \in U \ {m}
        BY <4>1
      <4>3. CASE q = n
        BY <3>2, <4>2, <4>3
      <4>4. CASE q # n
        <5>1. q \in 1 .. n - 1 /\ list[q] = old[q]
          BY <3>6, <4>4
        <5> QED
          BY <3>5, <3>8, <4>1, <4>2, <5>1
      <4> QED
        BY <4>3, <4>4
    <3> HIDE DEF list
    <3> QED
      BY <3>3, <3>7, <3>8
  <2> QED
    BY <2>1, <2>2
<1> HIDE DEF Good
<1>2. T \in Good
  BY <1>1, SubsetInduction
<1> QED
  BY <1>2 DEF Good

\* A sequence of the elements of a set, none of them twice, has them all.
LEMMA ListHasAll ==
  ASSUME NEW T, IsFiniteSet(T), NEW list \in Q!SetToSeqs(T)
  PROVE  /\ list \in [1 .. Cardinality(T) -> T] /\ Len(list) = Cardinality(T) /\ Cardinality(T) \in Nat
         /\ \A i \in T : \E p \in DOMAIN list : list[p] = i
<1>1. PICK n \in Nat : n = Cardinality(T)
  BY FS_CardinalityType
<1>2. list \in [1 .. n -> T] /\ \A i, k \in 1 .. n : i # k => list[i] # list[k]
  BY <1>1, SameCardinality DEF Q!SetToSeqs
<1>3. list \in Injection(1 .. n, T)
  BY <1>2 DEF Injection, IsInjective
<1>4. IsFiniteSet(1 .. n) /\ Cardinality(1 .. n) = n
  BY FS_Interval
<1>5. list \in Surjection(1 .. n, T)
  BY <1>1, <1>3, <1>4, FS_Injection
<1>6. Len(list) = n
  <2>1. list \in Seq(T)
    BY <1>2, SeqDef
  <2> QED
    BY <1>2, <2>1, LenProperties
<1> QED
  BY <1>1, <1>2, <1>5, <1>6 DEF Surjection

\* Orders that are not over.
Open(orders) == {i \in DOMAIN orders : orders[i].status \notin Q!TERMINAL_STATUSES}

\* The rank of a status is its priority.
LEMMA RankIsPriority ==
  ASSUME NEW status \in Q!Statuses
  PROVE  /\ status \notin Q!TERMINAL_STATUSES <=> \E p \in DOMAIN WorkOrder : WorkOrder[p] = status
         /\ status \notin Q!TERMINAL_STATUSES =>
              (CHOOSE p \in DOMAIN WorkOrder : WorkOrder[p] = status) = Q!STATUS_PRIORITY(status)
<1>1. DOMAIN WorkOrder = 1 .. 4 /\ WorkOrder[1] = "EM_EXECUCAO" /\ WorkOrder[2] = "AGUARDANDO_APROVACAO"
      /\ WorkOrder[3] = "EM_DIAGNOSTICO" /\ WorkOrder[4] = "RECEBIDA"
  BY DEF WorkOrder
<1> DEFINE w == WorkOrder
<1> HIDE DEF w
<1>2. \A p \in DOMAIN w : p \in {1, 2, 3, 4}
  BY <1>1 DEF w
<1>3. status \notin Q!TERMINAL_STATUSES <=> \E p \in DOMAIN w : w[p] = status
  BY <1>1, <1>2 DEF w, Q!Statuses, Q!TERMINAL_STATUSES
<1>4. ASSUME NEW p \in DOMAIN w, w[p] = status
      PROVE  p = Q!STATUS_PRIORITY(status)
  BY <1>1, <1>2, <1>4 DEF w, Q!STATUS_PRIORITY
<1> QED
  BY <1>3, <1>4 DEF w

\* The order in which open orders are listed puts them in a row.
LEMMA PrecedesOrders ==
  ASSUME NEW orders \in OrderSets
  PROVE  LET open == Open(orders)
             R    == {e \in open \X open : Q!Precedes(orders, e[1], e[2])}
         IN IsFiniteSet(open) /\ Orders(R, open)
<1> DEFINE open == Open(orders)
           R    == {e \in open \X open : Q!Precedes(orders, e[1], e[2])}
           pr(i) == Q!STATUS_PRIORITY(orders[i].status)
<1>1. IsFiniteSet(open)
  BY OrdersAssumption, FS_Subset DEF Open
<1>2. \A i \in open : i \in Int /\ orders[i].created \in Int /\ pr(i) \in Int
  <2>1. ASSUME NEW i \in open
        PROVE  pr(i) \in Int
    BY DEF Q!STATUS_PRIORITY
  <2> QED
    BY <2>1, OrdersAssumption DEF Open
<1>3. \A i, k \in open : <<i, k>> \in R <=> \/ pr(i) < pr(k)
                                            \/ pr(i) = pr(k) /\ orders[i].created < orders[k].created
                                            \/ pr(i) = pr(k) /\ orders[i].created = orders[k].created /\ i < k
  BY DEF Q!Precedes
<1> HIDE DEF open, R, pr
<1>4. \A x \in open : <<x, x>> \notin R
  BY <1>2, <1>3
<1>5. \A x, y \in open : x # y => <<x, y>> \in R \/ <<y, x>> \in R
  BY <1>2, <1>3
<1>6. \A x, y, z \in open : <<x, y>> \in R /\ <<y, z>> \in R => <<x, z>> \in R
  BY <1>2, <1>3
<1>7. Orders(R, open)
  BY <1>4, <1>5, <1>6 DEF Orders
<1> QED
  BY <1>1, <1>7 DEF open, R

\* The list of open orders is one, and sorted.
LEMMA OpenListIsSorted ==
  ASSUME NEW orders \in OrderSets
  PROVE  LET list == Q!ListOpenOrdered(orders) IN
         /\ list \in Q!SetToSeqs(Open(orders))
         /\ \A p, q \in DOMAIN list : p < q => Q!Precedes(orders, list[p], list[q])
<1> DEFINE open == Open(orders)
           R    == {e \in open \X open : Q!Precedes(orders, e[1], e[2])}
           Sorted(list) == \A p, q \in DOMAIN list : p < q => Q!Precedes(orders, list[p], list[q])
<1>1. IsFiniteSet(open) /\ Orders(R, open)
  BY PrecedesOrders
<1>2. PICK n \in Nat : n = Cardinality(open)
  BY <1>1, FS_CardinalityType
<1>3. PICK list \in [1 .. n -> open] : \A p, q \in 1 .. n : p < q => <<list[p], list[q]>> \in R
  <2> HIDE DEF open, R
  <2> QED
    BY <1>1, <1>2, SortedListExists
<1>4. Sorted(list)
  BY <1>3
<1>5. \A p, q \in 1 .. n : p # q => list[p] # list[q]
  <2>1. \A x \in open : <<x, x>> \notin R
    BY <1>1 DEF Orders
  <2> HIDE DEF R, open
  <2>2. \A p, q \in 1 .. n : p # q => p < q \/ q < p
    OBVIOUS
  <2>3. \A p \in 1 .. n : list[p] \in open
    OBVIOUS
  <2> QED
    BY <1>3, <2>1, <2>2, <2>3
<1>6. list \in Q!SetToSeqs(open)
  <2> HIDE DEF R, open
  <2> QED
    BY <1>2, <1>3, <1>5, SameCardinality DEF Q!SetToSeqs
<1>7. Q!ListOpenOrdered(orders) = CHOOSE l \in Q!SetToSeqs(open) : Sorted(l)
  BY DEF Q!ListOpenOrdered, Open
<1> HIDE DEF open, Sorted
<1>8. Q!ListOpenOrdered(orders) \in Q!SetToSeqs(open) /\ Sorted(Q!ListOpenOrdered(orders))
  BY <1>4, <1>6, <1>7
<1> QED
  BY <1>8 DEF open, Sorted

\* The answer about a list is one that was computed.
LEMMA ListAnswered ==
  ASSUME question.orders \in OrderSets, question.status \in Q!Statuses \cup {None},
         answer \in Q!ListServiceOrders(question.orders, question.status)
  PROVE  WorkListInOrder
<1> DEFINE orders == question.orders
           status == question.status
           list == answer
           rank(i) == CHOOSE p \in DOMAIN WorkOrder : WorkOrder[p] = orders[i].status
           shown == {i \in DOMAIN orders : IF status = None
                                           THEN \E p \in DOMAIN WorkOrder : WorkOrder[p] = orders[i].status
                                           ELSE orders[i].status = status}
           Sorted == \A p, q \in DOMAIN list : p < q =>
                       LET i == list[p]  k == list[q] IN
                       /\ rank(i) <= rank(k)
                       /\ rank(i) = rank(k) => orders[i].created <= orders[k].created
                       /\ rank(i) = rank(k) /\ orders[i].created = orders[k].created => i < k
<1>2. IsFiniteSet(shown)
  BY OrdersAssumption, FS_Subset
<1>3. \A i \in DOMAIN orders : /\ orders[i].status \in Q!Statuses /\ orders[i].created \in Int
                               /\ i \in Int
  BY OrdersAssumption
<1>4. list \in Q!SetToSeqs(shown) /\ (status = None => Sorted)
  <2>1. CASE status = None
    <3>1. list = Q!ListOpenOrdered(orders)
      BY <2>1 DEF Q!ListServiceOrders
    <3>2. shown = Open(orders)
      BY <1>3, <2>1, RankIsPriority DEF Open
    <3>3. /\ list \in Q!SetToSeqs(shown)
          /\ \A p, q \in DOMAIN list : p < q => Q!Precedes(orders, list[p], list[q])
      BY <3>1, <3>2, OpenListIsSorted
    <3>4. \A p \in DOMAIN list : list[p] \in Open(orders)
      BY <1>2, <3>2, <3>3, ListHasAll
    <3>5. \A i \in Open(orders) : rank(i) = Q!STATUS_PRIORITY(orders[i].status)
                                   /\ rank(i) \in Int /\ orders[i].created \in Int
      <4>1. \A i \in Open(orders) : Q!STATUS_PRIORITY(orders[i].status) \in Int
        BY DEF Q!STATUS_PRIORITY
      <4> QED
        BY <1>3, <4>1, RankIsPriority DEF Open
    <3> HIDE DEF rank
    <3>6. ASSUME NEW p \in DOMAIN list, NEW q \in DOMAIN list, p < q
          PROVE  LET i == list[p]  k == list[q] IN
                 /\ rank(i) <= rank(k)
                 /\ rank(i) = rank(k) => orders[i].created <= orders[k].created
                 /\ rank(i) = rank(k) /\ orders[i].created = orders[k].created => i < k
      <4>1. Q!Precedes(orders, list[p], list[q])
        BY <3>3, <3>6
      <4> QED
        BY <3>4, <3>5, <4>1 DEF Q!Precedes
    <3> QED
      BY <3>3, <3>6
  <2>2. CASE status # None
    <3>1. shown = {i \in DOMAIN orders : orders[i].status = status}
      BY <2>2
    <3> QED
      BY <2>2, <3>1 DEF Q!ListServiceOrders, Q!GetByStatus
  <2> QED
    BY <2>1, <2>2
<1>5. /\ Len(list) = Cardinality(shown)
      /\ \A i \in shown : \E p \in DOMAIN list : list[p] = i
  <2> HIDE DEF shown
  <2> QED
    BY <1>2, <1>4, ListHasAll
<1>6. status = None => Sorted
  BY <1>4
<1> QED
  BY <1>5, <1>6, Zenon DEF WorkListInOrder

-----------------------------------------------------------------------------
(***************************************************************************)
(* Check digits                                                            *)
(***************************************************************************)

\* The equation that the recursive function of the reference is chosen to satisfy.
IsTotal(total, digits, last) ==
  total = [i \in 0 .. Len(digits) |->
             IF i = 0 THEN 0 ELSE total[i - 1] + digits[i] * (2 + ((Len(digits) - i) % (last - 1)))]

\* What the reference sums.
Terms(digits, last) ==
  [i \in 1 .. Len(digits) |-> digits[i] * (2 + ((Len(digits) - i) % (last - 1)))]

\* What the equation says of one position.
LEMMA TotalStep ==
  ASSUME NEW digits \in Seq(D!Digits), NEW last, NEW t, IsTotal(t, digits, last)
  PROVE  /\ t[0] = 0
         /\ \A i \in 1 .. Len(digits) : t[i] = t[i - 1] + Terms(digits, last)[i]
<1> DEFINE n == Len(digits)
           made == [i \in 0 .. n |->
                      IF i = 0 THEN 0 ELSE t[i - 1] + digits[i] * (2 + ((n - i) % (last - 1)))]
<1>1. t = made
  BY DEF IsTotal
<1>2. n \in Nat
  BY LenProperties
<1> HIDE DEF n
<1>3. made[0] = 0
  BY <1>2
<1>4. ASSUME NEW i \in 1 .. n
      PROVE  made[i] = t[i - 1] + Terms(digits, last)[i]
  <2>1. i \in 0 .. n /\ i # 0
    BY <1>2
  <2>2. made[i] = t[i - 1] + digits[i] * (2 + ((n - i) % (last - 1)))
    BY <2>1
  <2>3. Terms(digits, last)[i] = digits[i] * (2 + ((n - i) % (last - 1)))
    BY DEF Terms, n
  <2> QED
    BY <2>2, <2>3
<1> HIDE DEF made
<1> QED
  BY <1>1, <1>3, <1>4 DEF n

\* The summands are integers.
LEMMA TermsAreIntegers ==
  ASSUME NEW digits \in Seq(D!Digits), NEW last \in {9, 11}
  PROVE  /\ Terms(digits, last) \in [1 .. Len(digits) -> Int] /\ Len(digits) \in Nat
         /\ \A i \in 1 .. Len(digits) : Terms(digits, last)[i] = digits[i] * (2 + ((Len(digits) - i) % (last - 1)))
<1>1. Len(digits) \in Nat /\ \A i \in 1 .. Len(digits) : digits[i] \in Nat
  BY LenProperties DEF D!Digits
<1>2. ASSUME NEW i \in 1 .. Len(digits)
      PROVE  digits[i] * (2 + ((Len(digits) - i) % (last - 1))) \in Int
  <2>1. PICK m \in Nat : m = 2 + ((Len(digits) - i) % (last - 1))
    BY <1>1
  <2>2. digits[i] * m \in Int
    BY <1>1
  <2> QED
    BY <2>1, <2>2
<1> QED
  BY <1>1, <1>2 DEF Terms

\* The recursive function is the sum of the library.
LEMMA TotalIsSum ==
  ASSUME NEW digits \in Seq(D!Digits), NEW last \in {9, 11}
  PROVE  (CHOOSE total : IsTotal(total, digits, last))[Len(digits)]
           = SumFunctionOnSet(Terms(digits, last), 1 .. Len(digits))
<1> DEFINE n == Len(digits)
           w == Terms(digits, last)
           made == [i \in 0 .. n |-> SumFunctionOnSet(w, 1 .. i)]
           t == CHOOSE total : IsTotal(total, digits, last)
           Less == {ss \in Nat \X Nat : ss[1] < ss[2]}
           apart == {i \in 0 .. n : t[i] # made[i]}
<1>1. /\ n \in Nat /\ w \in [1 .. n -> Int]
      /\ \A i \in 1 .. n : w[i] = digits[i] * (2 + ((n - i) % (last - 1)))
  BY TermsAreIntegers
<1>2. \A i \in 1 .. n : made[i] = made[i - 1] + w[i]
  <2> SUFFICES ASSUME NEW i \in 1 .. n PROVE made[i] = made[i - 1] + w[i]
    OBVIOUS
  <2> HIDE DEF n, w
  <2>1. i \in 0 .. n /\ i - 1 \in 0 .. n /\ i \in Int
    BY <1>1
  <2>2. IsFiniteSet(1 .. i - 1) /\ i \notin 1 .. i - 1 /\ (1 .. i - 1) \cup {i} = 1 .. i
    <3>1. IsFiniteSet(1 .. i - 1)
      BY <2>1, FS_Interval
    <3>2. (1 .. i - 1) \cup {i} = 1 .. i
      BY <2>1
    <3> QED
      BY <2>1, <3>1, <3>2
  <2>3. \A y \in (1 .. i - 1) \cup {i} : w[y] \in Int
    BY <1>1, <2>2
  <2>4. SumFunctionOnSet(w, (1 .. i - 1) \cup {i}) = w[i] + SumFunctionOnSet(w, 1 .. i - 1)
    BY <2>2, <2>3, SumAddsOne
  <2>5. SumFunctionOnSet(w, 1 .. i - 1) \in Int /\ w[i] \in Int
    BY <1>1, <2>2, <2>3, SumTakesOut
  <2>6. made[i] = SumFunctionOnSet(w, 1 .. i) /\ made[i - 1] = SumFunctionOnSet(w, 1 .. i - 1)
    BY <2>1
  <2>7. PICK before \in Int : before = SumFunctionOnSet(w, 1 .. i - 1)
    BY <2>5
  <2>8. SumFunctionOnSet(w, 1 .. i) = w[i] + before
    BY <2>2, <2>4, <2>7, Zenon
  <2>9. PICK term \in Int : term = w[i]
    BY <2>5
  <2>10. made[i] = term + before /\ made[i - 1] = before
    BY <2>6, <2>7, <2>8, <2>9
  <2> HIDE DEF made
  <2> QED
    BY <2>9, <2>10
<1>3. made[0] = 0
  <2>1. 1 .. 0 = {} /\ 0 \in 0 .. n
    BY <1>1
  <2>2. made[0] = SumFunctionOnSet(w, 1 .. 0)
    BY <2>1
  <2> HIDE DEF made, w
  <2> QED
    BY <2>1, <2>2, SumOfNone
<1>4. IsTotal(made, digits, last)
  <2> DEFINE right == [i \in 0 .. n |-> IF i = 0 THEN 0 ELSE made[i - 1] + digits[i] * (2 + ((n - i) % (last - 1)))]
  <2>1. ASSUME NEW i \in 0 .. n
        PROVE  made[i] = right[i]
    <3>1. right[i] = IF i = 0 THEN 0 ELSE made[i - 1] + digits[i] * (2 + ((n - i) % (last - 1)))
      OBVIOUS
    <3>2. i # 0 => i \in 1 .. n
      BY <1>1
    <3> HIDE DEF made, right, n, w
    <3> QED
      BY <1>1, <1>2, <1>3, <3>1, <3>2
  <2>2. made = [i \in 0 .. n |-> made[i]] /\ right = [i \in 0 .. n |-> right[i]]
    OBVIOUS
  <2>3. made = right
    <3> HIDE DEF made, right, n
    <3> QED
      BY <2>1, <2>2
  <2> QED
    BY <2>3, Zenon DEF IsTotal
<1>5. IsTotal(t, digits, last)
  BY <1>4, Zenon
<1> HIDE DEF made, t
<1>6. t[0] = 0 /\ \A i \in 1 .. n : t[i] = t[i - 1] + w[i]
  BY <1>5, TotalStep
<1> HIDE DEF w, n
<1>7. IsWellFoundedOn(Less, Nat)
  BY NatLessThanWellFounded, Zenon DEF OpToRel
<1>8. ASSUME apart # {}
      PROVE  FALSE
  <2>1. apart \subseteq Nat
    BY <1>1
  <2>2. PICK k \in apart : \A j \in apart : <<j, k>> \notin Less
    <3> HIDE DEF Less, apart
    <3> QED
      BY <1>7, <1>8, <2>1, WFMin
  <2>3. k # 0
    BY <1>3, <1>6
  <2>4. k \in 1 .. n /\ k - 1 \in 0 .. n /\ k - 1 < k /\ k - 1 \in Nat /\ k \in Nat
    BY <1>1, <2>3
  <2>5. t[k - 1] = made[k - 1]
    BY <2>2, <2>4
  <2> QED
    BY <1>2, <1>6, <2>2, <2>4, <2>5
<1>9. t[n] = made[n]
  BY <1>1, <1>8
<1> QED
  BY <1>1, <1>9 DEF made, w, n, t

\* The reference, with the sum of the library.
LEMMA ExpectedIs ==
  ASSUME NEW digits \in Seq(D!Digits), NEW last \in {9, 11}
  PROVE  LET total == SumFunctionOnSet(Terms(digits, last), 1 .. Len(digits)) IN
         total \in Int /\ Expected(digits, last) = IF total % 11 < 2 THEN 0 ELSE 11 - (total % 11)
<1>1. Expected(digits, last) =
        LET rest == (CHOOSE total : IsTotal(total, digits, last))[Len(digits)] % 11
        IN IF rest < 2 THEN 0 ELSE 11 - rest
  BY DEF Expected, IsTotal
<1>2. SumFunctionOnSet(Terms(digits, last), 1 .. Len(digits)) \in Int
  <2> DEFINE n == Len(digits)
  <2>1. n \in Nat /\ Terms(digits, last) \in [1 .. n -> Int]
    BY TermsAreIntegers
  <2> HIDE DEF n
  <2>2. IsFiniteSet(1 .. n)
    BY <2>1, FS_Interval
  <2> QED
    BY <2>1, <2>2, SumTakesOut DEF n
<1>3. (CHOOSE total : IsTotal(total, digits, last))[Len(digits)]
           = SumFunctionOnSet(Terms(digits, last), 1 .. Len(digits))
  BY TotalIsSum
<1> DEFINE a == (CHOOSE total : IsTotal(total, digits, last))[Len(digits)]
           b == SumFunctionOnSet(Terms(digits, last), 1 .. Len(digits))
<1> HIDE DEF a, b
<1>4. a = b /\ b \in Int /\ Expected(digits, last) = LET rest == a % 11 IN IF rest < 2 THEN 0 ELSE 11 - rest
  BY <1>1, <1>2, <1>3 DEF a, b
<1>5. b \in Int /\ Expected(digits, last) = IF b % 11 < 2 THEN 0 ELSE 11 - (b % 11)
  BY <1>4
<1> QED
  BY <1>5 DEF b

\* The weighted sum of the rules, with the weights of the reference.
LEMMA TotalOfWeights ==
  ASSUME NEW digits \in Seq(D!Digits), NEW last \in {9, 11}, NEW weights,
         \A i \in 1 .. Len(digits) : weights[i] = 2 + ((Len(digits) - i) % (last - 1))
  PROVE  D!Total(digits, weights) = SumFunctionOnSet(Terms(digits, last), 1 .. Len(digits))
<1>1. DOMAIN digits = 1 .. Len(digits)
  BY LenProperties
<1>2. [i \in 1 .. Len(digits) |-> digits[i] * weights[i]] = Terms(digits, last)
  BY DEF Terms
<1> QED
  BY <1>1, <1>2, SameSum DEF D!Total

\* Ten times the sum, and what is left of it.
LEMMA TenTimes ==
  ASSUME NEW t \in Int
  PROVE  LET rest == t % 11  ten == (t * 10) % 11 IN
         /\ (IF ten = 10 THEN 0 ELSE ten) = IF rest < 2 THEN 0 ELSE 11 - rest
         /\ ten % 10 = IF rest < 2 THEN 0 ELSE 11 - rest
<1>1. PICK q \in Int, r \in 0 .. 10 : t = 11 * q + r /\ t % 11 = r
  OBVIOUS
<1>2. (t * 10) % 11 = IF r = 0 THEN 0 ELSE 11 - r
  BY <1>1
<1> QED
  BY <1>1, <1>2

\* The weights of a CPF fall to 2 at the right.
LEMMA FallingWeights ==
  ASSUME NEW digits \in Seq(D!Digits), NEW n \in {9, 10}, Len(digits) = n
  PROVE  \A i \in 1 .. Len(digits) : D!Falling(n + 1, n)[i] = 2 + ((Len(digits) - i) % (11 - 1))
<1> SUFFICES ASSUME NEW i \in 1 .. n
             PROVE  D!Falling(n + 1, n)[i] = 2 + ((n - i) % 10)
  OBVIOUS
<1>1. D!Falling(n + 1, n)[i] = n + 2 - i
  BY DEF D!Falling
<1>2. (n - i) % 10 = n - i
  BY n - i \in 0 .. 9
<1> QED
  BY <1>1, <1>2

\* Ten times the weighted sum of the digits of a CPF, and the check digit of the reference.
LEMMA CpfDigit ==
  ASSUME NEW digits \in Seq(D!Digits), NEW n \in {9, 10}, Len(digits) = n
  PROVE  LET ten == (D!Total(digits, D!Falling(n + 1, n)) * 10) % 11 IN
         /\ (IF ten = 10 THEN 0 ELSE ten) = Expected(digits, 11)
         /\ ten % 10 = Expected(digits, 11)
<1>1. PICK t : t = SumFunctionOnSet(Terms(digits, 11), 1 .. Len(digits))
  OBVIOUS
<1>2. t \in Int /\ Expected(digits, 11) = IF t % 11 < 2 THEN 0 ELSE 11 - (t % 11)
  BY <1>1, ExpectedIs
<1>3. D!Total(digits, D!Falling(n + 1, n)) = t
  BY <1>1, FallingWeights, TotalOfWeights
<1> QED
  BY <1>2, <1>3, TenTimes

\* The domain's check digit is the one of the reference.
LEMMA CheckDigitIsExpected ==
  ASSUME NEW digits \in Seq(D!Digits), NEW weight \in {10, 11}, Len(digits) = weight - 1
  PROVE  D!CheckDigit(digits, weight) = Expected(digits, 11)
<1>1. PICK n \in {9, 10} : Len(digits) = n /\ weight = n + 1
  OBVIOUS
<1>2. PICK ten : ten = (D!Total(digits, D!Falling(n + 1, n)) * 10) % 11
  OBVIOUS
<1>3. (IF ten = 10 THEN 0 ELSE ten) = Expected(digits, 11)
  BY <1>1, <1>2, CpfDigit
<1>4. D!CheckDigit(digits, weight) = IF ten = 10 THEN 0 ELSE ten
  BY <1>1, <1>2 DEF D!CheckDigit
<1> QED
  BY <1>3, <1>4

\* The first digits of a document.
LEMMA FirstDigits ==
  ASSUME NEW digits \in Seq(D!Digits), NEW n \in Nat, n <= Len(digits)
  PROVE  SubSeq(digits, 1, n) \in Seq(D!Digits) /\ Len(SubSeq(digits, 1, n)) = n
         /\ \A i \in 1 .. n : SubSeq(digits, 1, n)[i] = digits[i]
<1>1. \A i \in 1 .. n : digits[i] \in D!Digits
  BY LenProperties
<1>2. /\ SubSeq(digits, 1, n) \in Seq(D!Digits)
      /\ Len(SubSeq(digits, 1, n)) = IF 1 <= n THEN n - 1 + 1 ELSE 0
      /\ \A i \in 1 .. n - 1 + 1 : SubSeq(digits, 1, n)[i] = digits[1 + i - 1]
  BY <1>1, SubSeqProperties
<1>3. n - 1 + 1 = n /\ \A i \in 1 .. n : 1 + i - 1 = i
  OBVIOUS
<1> QED
  BY <1>2, <1>3

\* The first nine digits and the tenth.
LEMMA FirstTen ==
  ASSUME NEW digits \in Seq(D!Digits), Len(digits) = 11
  PROVE  Append(SubSeq(digits, 1, 9), digits[10]) = SubSeq(digits, 1, 10)
<1>1. PICK base, ten : base = SubSeq(digits, 1, 9) /\ ten = SubSeq(digits, 1, 10)
  OBVIOUS
<1>2. PICK e \in D!Digits : e = digits[10]
  <2>1. digits \in [1 .. 11 -> D!Digits]
    BY LenProperties
  <2>2. 10 \in 1 .. 11
    OBVIOUS
  <2>3. digits[10] \in D!Digits
    BY <2>1, <2>2
  <2> QED
    BY <2>3
<1>0. 9 \in Nat /\ 10 \in Nat /\ 9 <= Len(digits) /\ 10 <= Len(digits)
  OBVIOUS
<1>3. base \in Seq(D!Digits) /\ Len(base) = 9 /\ \A i \in 1 .. 9 : base[i] = digits[i]
  BY <1>0, <1>1, FirstDigits
<1>4. ten \in Seq(D!Digits) /\ Len(ten) = 10 /\ \A i \in 1 .. 10 : ten[i] = digits[i]
  BY <1>0, <1>1, FirstDigits
<1>5. /\ Append(base, e) \in Seq(D!Digits) /\ Len(Append(base, e)) = Len(base) + 1
      /\ \A i \in 1 .. Len(base) : Append(base, e)[i] = base[i]
      /\ Append(base, e)[Len(base) + 1] = e
  <2>1. base \in Seq(D!Digits)
    BY <1>3
  <2> QED
    BY <2>1, AppendProperties
<1>6. \A i \in 1 .. 10 : Append(base, e)[i] = ten[i]
  BY <1>2, <1>3, <1>4, <1>5
<1> QED
  BY <1>1, <1>2, <1>3, <1>4, <1>5, <1>6, SeqEqual

\* The schema of a registration accepts the CPFs of the reference.
LEMMA SchemaCpf ==
  ASSUME NEW digits \in Seq(D!Digits)
  PROVE  D!ValidateCpf(digits) <=> Genuine(digits, 11, 11)
<1> SUFFICES ASSUME Len(digits) = 11
             PROVE  (\A i \in 9 .. 10 : digits[i + 1] = ((D!Total(SubSeq(digits, 1, i), D!Falling(i + 1, i)) * 10) % 11) % 10)
                      <=> \A i \in {11 - 1, 11} : digits[i] = Expected(SubSeq(digits, 1, i - 1), 11)
  BY DEF D!ValidateCpf, Genuine
<1>1. \A i \in {9, 10} : ((D!Total(SubSeq(digits, 1, i), D!Falling(i + 1, i)) * 10) % 11) % 10 = Expected(SubSeq(digits, 1, i), 11)
  <2> SUFFICES ASSUME NEW i \in {9, 10}
               PROVE  ((D!Total(SubSeq(digits, 1, i), D!Falling(i + 1, i)) * 10) % 11) % 10 = Expected(SubSeq(digits, 1, i), 11)
    OBVIOUS
  <2>1. i \in Nat /\ i <= Len(digits)
    OBVIOUS
  <2>2. SubSeq(digits, 1, i) \in Seq(D!Digits) /\ Len(SubSeq(digits, 1, i)) = i
    BY <2>1, FirstDigits
  <2> QED
    BY <2>2, CpfDigit
<1>2. 9 .. 10 = {9, 10}
  OBVIOUS
<1>3. (\A i \in {11 - 1, 11} : digits[i] = Expected(SubSeq(digits, 1, i - 1), 11))
        <=> \A i \in {9, 10} : digits[i + 1] = Expected(SubSeq(digits, 1, i), 11)
  OBVIOUS
<1> QED
  BY <1>1, <1>2, <1>3

\* The domain accepts the CPFs of the reference.
LEMMA DomainCpf ==
  ASSUME NEW text, D!Normalize(text) \in Seq(D!Digits)
  PROVE  D!IsValid(text) <=> Genuine(D!Normalize(text), 11, 11)
<1> DEFINE digits == D!Normalize(text)
           base   == SubSeq(digits, 1, 9)
           first  == D!CheckDigit(base, 10)
           second == D!CheckDigit(Append(base, first), 11)
<1> HIDE DEF digits
<1> SUFFICES ASSUME Len(digits) = 11
             PROVE  SubSeq(digits, 10, 11) = <<first, second>>
                      <=> digits[10] = Expected(SubSeq(digits, 1, 9), 11) /\ digits[11] = Expected(SubSeq(digits, 1, 10), 11)
  BY DEF D!IsValid, Genuine, digits
<1>1. digits \in Seq(D!Digits) /\ \A i \in 1 .. 11 : digits[i] \in D!Digits
  BY LenProperties DEF digits
<1>2. base \in Seq(D!Digits) /\ Len(base) = 9 /\ \A i \in 1 .. 9 : base[i] = digits[i]
  BY <1>1, FirstDigits
<1>3. first = Expected(base, 11)
  <2> HIDE DEF base
  <2>1. base \in Seq(D!Digits) /\ Len(base) = 10 - 1 /\ 10 \in {10, 11}
    BY <1>2
  <2>2. D!CheckDigit(base, 10) = Expected(base, 11)
    BY <2>1, CheckDigitIsExpected
  <2> QED
    BY <2>2
<1>4. SubSeq(digits, 10, 11) = <<digits[10], digits[11]>>
  <2>1. \A i \in 10 .. 11 : digits[i] \in D!Digits
    BY <1>1
  <2>2. /\ SubSeq(digits, 10, 11) \in Seq(D!Digits)
        /\ Len(SubSeq(digits, 10, 11)) = IF 10 <= 11 THEN 11 - 10 + 1 ELSE 0
        /\ \A i \in 1 .. 11 - 10 + 1 : SubSeq(digits, 10, 11)[i] = digits[10 + i - 1]
    BY <2>1, SubSeqProperties
  <2>3. Len(SubSeq(digits, 10, 11)) = 2 /\ SubSeq(digits, 10, 11)[1] = digits[10] /\ SubSeq(digits, 10, 11)[2] = digits[11]
    BY <2>2
  <2>4. <<digits[10], digits[11]>> \in Seq(D!Digits)
    BY <1>1
  <2> DEFINE tail == SubSeq(digits, 10, 11)
  <2> HIDE DEF tail
  <2>5. tail \in Seq(D!Digits) /\ Len(tail) = 2 /\ tail[1] = digits[10] /\ tail[2] = digits[11]
    BY <2>2, <2>3 DEF tail
  <2>6. \A i \in 1 .. 2 : tail[i] = <<digits[10], digits[11]>>[i]
    BY <2>5
  <2>7. tail = <<digits[10], digits[11]>>
    BY <2>4, <2>5, <2>6, SeqEqual
  <2> QED
    BY <2>7 DEF tail
<1>5. ASSUME digits[10] = first
      PROVE  Append(base, first) = SubSeq(digits, 1, 10)
  BY <1>1, <1>5, FirstTen
<1>6. ASSUME digits[10] = first
      PROVE  second = Expected(SubSeq(digits, 1, 10), 11)
  <2>1. SubSeq(digits, 1, 10) \in Seq(D!Digits) /\ Len(SubSeq(digits, 1, 10)) = 10
    BY <1>1, FirstDigits
  <2>2. D!CheckDigit(SubSeq(digits, 1, 10), 11) = Expected(SubSeq(digits, 1, 10), 11)
    <3> DEFINE ten == SubSeq(digits, 1, 10)
    <3> HIDE DEF ten
    <3>1. ten \in Seq(D!Digits) /\ Len(ten) = 11 - 1 /\ 11 \in {10, 11}
      BY <2>1 DEF ten
    <3>2. D!CheckDigit(ten, 11) = Expected(ten, 11)
      BY <3>1, CheckDigitIsExpected
    <3> QED
      BY <3>2 DEF ten
  <2> HIDE DEF base, first
  <2> QED
    BY <1>5, <1>6, <2>2
<1> HIDE DEF first, second
<1>7. SubSeq(digits, 10, 11) = <<first, second>> <=> digits[10] = first /\ digits[11] = second
  BY <1>4
<1> QED
  BY <1>3, <1>6, <1>7

\* The weights of a CNPJ are the ones of the reference.
LEMMA CnpjWeights ==
  /\ Len(D!Weights1) = 12 /\ \A i \in 1 .. 12 : D!Weights1[i] = 2 + ((12 - i) % (9 - 1))
  /\ Len(D!Weights2) = 13 /\ \A i \in 1 .. 13 : D!Weights2[i] = 2 + ((13 - i) % (9 - 1))
<1>1. Len(D!Weights1) = 12 /\ D!Weights1 \in Seq(Int)
  BY DEF D!Weights1
<1>2. \A i \in 1 .. 12 : D!Weights1[i] = 2 + ((12 - i) % (9 - 1))
  BY DEF D!Weights1
<1>3. PICK six : six = <<6>>
  OBVIOUS
<1>4. six \in Seq(Int) /\ Len(six) = 1 /\ six[1] = 6
  BY <1>3
<1>5. /\ Len(six \o D!Weights1) = Len(six) + Len(D!Weights1)
      /\ \A i \in 1 .. Len(six) + Len(D!Weights1) : (six \o D!Weights1)[i] = IF i <= Len(six) THEN six[i] ELSE D!Weights1[i - Len(six)]
  BY <1>1, <1>4, ConcatProperties
<1>6. D!Weights2 = six \o D!Weights1
  BY <1>3 DEF D!Weights2
<1>7. Len(D!Weights2) = 13 /\ \A i \in 1 .. 13 : D!Weights2[i] = IF i <= 1 THEN six[i] ELSE D!Weights1[i - 1]
  <2>1. Len(six) = 1 /\ Len(D!Weights1) = 12 /\ Len(six) + Len(D!Weights1) = 13
    BY <1>1, <1>4
  <2>2. \A i \in 1 .. 13 : (six \o D!Weights1)[i] = IF i <= 1 THEN six[i] ELSE D!Weights1[i - 1]
    BY <1>5, <2>1
  <2>3. Len(six \o D!Weights1) = 13
    BY <1>5, <2>1
  <2> QED
    BY <1>6, <2>2, <2>3, Zenon
<1>8. ASSUME NEW i \in 1 .. 13
      PROVE  D!Weights2[i] = 2 + ((13 - i) % (9 - 1))
  <2>1. CASE i = 1
    BY <1>4, <1>7, <2>1
  <2>2. CASE i # 1
    <3>1. i - 1 \in 1 .. 12 /\ 12 - (i - 1) = 13 - i
      BY <2>2
    <3>2. D!Weights1[i - 1] = 2 + ((12 - (i - 1)) % (9 - 1))
      BY <1>2, <3>1
    <3>3. D!Weights2[i] = D!Weights1[i - 1]
      BY <1>7, <2>2
    <3> QED
      BY <3>1, <3>2, <3>3
  <2> QED
    BY <2>1, <2>2
<1> QED
  BY <1>1, <1>2, <1>7, <1>8

\* The schema of a registration accepts the CNPJs of the reference.
LEMMA SchemaCnpj ==
  ASSUME NEW digits \in Seq(D!Digits)
  PROVE  D!ValidateCnpj(digits) <=> Genuine(digits, 14, 9)
<1> DEFINE Right(weights) ==
             LET position  == Len(weights)
                 remainder == D!Total(SubSeq(digits, 1, position), weights) % 11
             IN digits[position + 1] = IF remainder < 2 THEN 0 ELSE 11 - remainder
<1> SUFFICES ASSUME Len(digits) = 14
             PROVE  (\A weights \in {D!Weights1, D!Weights2} : Right(weights))
                      <=> \A i \in {14 - 1, 14} : digits[i] = Expected(SubSeq(digits, 1, i - 1), 9)
  BY Zenon DEF D!ValidateCnpj, Genuine
<1>1. ASSUME NEW n \in {12, 13}, NEW weights, Len(weights) = n,
             \A i \in 1 .. n : weights[i] = 2 + ((n - i) % (9 - 1))
      PROVE  Right(weights) <=> digits[n + 1] = Expected(SubSeq(digits, 1, n), 9)
  <2> DEFINE part == SubSeq(digits, 1, n)
  <2>1. part \in Seq(D!Digits) /\ Len(part) = n
    <3>1. n \in Nat /\ n <= Len(digits)
      OBVIOUS
    <3> QED
      BY <3>1, FirstDigits
  <2> HIDE DEF part
  <2>2. PICK t : t = SumFunctionOnSet(Terms(part, 9), 1 .. Len(part))
    OBVIOUS
  <2>3. Expected(part, 9) = IF t % 11 < 2 THEN 0 ELSE 11 - (t % 11)
    BY <2>1, <2>2, ExpectedIs
  <2>4. D!Total(part, weights) = t
    <3>1. \A i \in 1 .. Len(part) : weights[i] = 2 + ((Len(part) - i) % (9 - 1))
      BY <1>1, <2>1
    <3> QED
      BY <2>1, <2>2, <3>1, TotalOfWeights
  <2>5. Right(weights) <=> digits[n + 1] = IF D!Total(part, weights) % 11 < 2 THEN 0 ELSE 11 - (D!Total(part, weights) % 11)
    BY <1>1 DEF part
  <2> HIDE DEF Right
  <2> QED
    BY <2>3, <2>4, <2>5 DEF part
<1>2. Right(D!Weights1) <=> digits[12 + 1] = Expected(SubSeq(digits, 1, 12), 9)
  BY <1>1, CnpjWeights
<1>3. Right(D!Weights2) <=> digits[13 + 1] = Expected(SubSeq(digits, 1, 13), 9)
  BY <1>1, CnpjWeights
<1> HIDE DEF Right
<1> QED
  BY <1>2, <1>3

\* What is normalized is a sequence of digits, and was not rejected.
LEMMA NormalizeType ==
  ASSUME NEW text \in Seq(D!Characters)
  PROVE  D!Normalize(text) \in Seq(D!Digits) /\ D!Normalize(text) \in Seq(D!Characters) /\ D!Normalize(text) # None
<1>1. Only(text, D!Digits) \in Seq(D!Characters \cap D!Digits)
  BY OnlyType
<1>2. D!Characters \cap D!Digits = D!Digits
  BY DEF D!Characters
<1>3. D!Normalize(text) \in Seq(D!Digits)
  BY <1>1, <1>2, SameOnly DEF D!Normalize
<1>4. D!Normalize(text) \in Seq(D!Characters)
  BY <1>3, SeqMonotonic DEF D!Characters
<1> QED
  BY <1>3, <1>4, LettersAssumption

\* What a registration and a log-in make of a document.
LEMMA DocumentsAccepted ==
  ASSUME NEW text \in Seq(D!Characters)
  PROVE  LET digits == D!Normalize(text) IN
         /\ D!LogInDocument(text) = IF Genuine(digits, 11, 11) THEN digits ELSE None
         /\ D!RegisteredDocument(text) = IF Genuine(digits, 11, 11) \/ Genuine(digits, 14, 9) THEN digits ELSE None
         /\ digits # None
BY NormalizeType, SchemaCpf, SchemaCnpj, DomainCpf DEF D!LogInDocument, D!RegisteredDocument

\* The answer about a document is the one that was computed.
LEMMA DocumentAnswered ==
  ASSUME question.text \in Documents,
         answer = [registered |-> D!RegisteredDocument(question.text), found |-> D!LogInDocument(question.text)]
  PROVE  DocumentRulesAgree
<1>1. question.text \in Seq(D!Characters)
  BY LettersAssumption
<1> QED
  BY <1>1, DocumentsAccepted DEF DocumentRulesAgree

-----------------------------------------------------------------------------
(***************************************************************************)
(* Keys                                                                    *)
(***************************************************************************)

\* Four parts, as a mask puts them.
Masked(a, b, c, d) == a \o <<Mark>> \o b \o <<Mark>> \o c \o <<Hyphen>> \o d

\* The parts without it.
Joined(a, b, c, d) == a \o b \o c \o d

\* Digits, marks and digits again, four times: only the digits are left.
LEMMA MaskedDigits ==
  ASSUME NEW a \in Seq(D!Digits), NEW b \in Seq(D!Digits), NEW c \in Seq(D!Digits), NEW d \in Seq(D!Digits),
         NEW kept, D!Digits \subseteq kept, Mark \notin kept, Hyphen \notin kept
  PROVE  Masked(a, b, c, d) \in Seq(D!Characters) /\ Only(Masked(a, b, c, d), kept) = Joined(a, b, c, d)
<1> DEFINE C == D!Characters
           Left(s) == Only(s, kept)
<1>1. a \in Seq(C) /\ b \in Seq(C) /\ c \in Seq(C) /\ d \in Seq(C)
  BY SeqMonotonic DEF D!Characters
<1>2. Left(a) = a /\ Left(b) = b /\ Left(c) = c /\ Left(d) = d
  <2>1. a \in Seq(kept) /\ b \in Seq(kept) /\ c \in Seq(kept) /\ d \in Seq(kept)
    BY SeqMonotonic
  <2> QED
    BY <2>1, OnlyKeepsAll
<1>3. PICK m, h : m = <<Mark>> /\ h = <<Hyphen>>
  OBVIOUS
<1>4. m \in Seq(C) /\ h \in Seq(C)
  BY <1>3 DEF D!Characters
<1>5. Left(m) = <<>> /\ Left(h) = <<>>
  <2>1. m \in Seq({Mark, Hyphen}) /\ h \in Seq({Mark, Hyphen})
    BY <1>3
  <2>2. {Mark, Hyphen} \cap kept = {}
    OBVIOUS
  <2> QED
    BY <2>1, <2>2, OnlyKeepsNone
<1> HIDE DEF C, Left
<1>6. ASSUME NEW s \in Seq(C), NEW t \in Seq(C)
      PROVE  s \o t \in Seq(C) /\ Left(s \o t) = Left(s) \o Left(t)
  BY OnlyOfConcat, ConcatProperties DEF Left
<1>7. a \o m \in Seq(C) /\ Left(a \o m) = a
  <2>1. a \o m \in Seq(C) /\ Left(a \o m) = Left(a) \o Left(m)
    BY <1>1, <1>4, <1>6
  <2>2. a \o <<>> = a
    BY <1>1, ConcatEmptySeq
  <2> QED
    BY <1>2, <1>5, <2>1, <2>2
<1>8. a \o m \o b \in Seq(C) /\ Left(a \o m \o b) = a \o b
  BY <1>1, <1>2, <1>6, <1>7
<1>9. a \o b \in Seq(C) /\ a \o b \o c \in Seq(C)
  BY <1>1, <1>6
<1>10. a \o m \o b \o m \in Seq(C) /\ Left(a \o m \o b \o m) = a \o b
  <2>1. Left(a \o m \o b \o m) = a \o b \o <<>>
    BY <1>4, <1>5, <1>6, <1>8
  <2> QED
    BY <1>4, <1>6, <1>8, <1>9, <2>1, ConcatEmptySeq
<1>11. a \o m \o b \o m \o c \in Seq(C) /\ Left(a \o m \o b \o m \o c) = a \o b \o c
  BY <1>1, <1>2, <1>6, <1>10
<1>12. a \o m \o b \o m \o c \o h \in Seq(C) /\ Left(a \o m \o b \o m \o c \o h) = a \o b \o c
  <2>1. Left(a \o m \o b \o m \o c \o h) = a \o b \o c \o <<>>
    BY <1>4, <1>5, <1>6, <1>11
  <2> QED
    BY <1>4, <1>6, <1>9, <1>11, <2>1, ConcatEmptySeq
<1>13. a \o m \o b \o m \o c \o h \o d \in Seq(C) /\ Left(a \o m \o b \o m \o c \o h \o d) = a \o b \o c \o d
  BY <1>1, <1>2, <1>6, <1>12
<1> QED
  BY <1>3, <1>13 DEF C, Left, Masked, Joined

\* Masking does not change the digits.
LEMMA MaskedIsSame ==
  ASSUME NEW text \in Seq(D!Characters)
  PROVE  /\ D!FormatMasked(text) \in Seq(D!Characters)
         /\ D!Normalize(D!FormatMasked(text)) = D!Normalize(text)
         /\ D!TokenDocument(D!FormatMasked(text)) = D!Normalize(text)
<1> DEFINE d == D!Normalize(text)
<1>1. d \in Seq(D!Digits) /\ d \in Seq(D!Characters)
  BY NormalizeType
<1> DEFINE wide == D!Digits \cup Superscripts
<1>2. \A s : D!Normalize(s) = Only(s, D!Digits) /\ D!TokenDocument(s) = Only(s, wide)
  BY SameOnly DEF D!Normalize, D!TokenDocument
<1>0. /\ D!Digits \subseteq wide /\ Mark \notin wide /\ Hyphen \notin wide
      /\ Mark \notin D!Digits /\ Hyphen \notin D!Digits
  BY LettersAssumption
<1> HIDE DEF wide
<1>3. CASE Len(d) # 11
  <2>1. D!FormatMasked(text) = d
    BY <1>3 DEF D!FormatMasked
  <2>2. D!Normalize(d) = d /\ D!TokenDocument(d) = d
    <3>1. d \in Seq(wide)
      BY <1>0, <1>1, SeqMonotonic
    <3> QED
      BY <1>1, <1>2, <3>1, OnlyKeepsAll
  <2> QED
    BY <1>1, <2>1, <2>2
<1>4. CASE Len(d) = 11
  <2>1. PICK p, q, r, s : p = SubSeq(d, 1, 3) /\ q = SubSeq(d, 4, 6) /\ r = SubSeq(d, 7, 9) /\ s = SubSeq(d, 10, 11)
    OBVIOUS
  <2>2. D!FormatMasked(text) = p \o <<Mark>> \o q \o <<Mark>> \o r \o <<Hyphen>> \o s
    BY <1>4, <2>1 DEF D!FormatMasked
  <2> HIDE DEF d
  <2>3. d \in [1 .. 11 -> D!Digits]
    BY <1>1, <1>4, LenProperties
  <2>4. p \in Seq(D!Digits) /\ q \in Seq(D!Digits) /\ r \in Seq(D!Digits) /\ s \in Seq(D!Digits)
    BY <2>1, <2>3, SubSeqProperties
  <2>5. p \o q \o r \o s = d
    <3>1. p \o q = SubSeq(d, 1, 6)
      BY <1>1, <1>4, <2>1, ConcatAdjacentSubSeq
    <3>2. SubSeq(d, 1, 6) \o r = SubSeq(d, 1, 9)
      BY <1>1, <1>4, <2>1, ConcatAdjacentSubSeq
    <3>3. SubSeq(d, 1, 9) \o s = SubSeq(d, 1, 11)
      BY <1>1, <1>4, <2>1, ConcatAdjacentSubSeq
    <3>4. SubSeq(d, 1, 11) = d
      BY <1>1, <1>4, SubSeqFull
    <3> QED
      BY <3>1, <3>2, <3>3, <3>4
  <2> QED
    <3>1. /\ Masked(p, q, r, s) \in Seq(D!Characters)
          /\ Only(Masked(p, q, r, s), D!Digits) = Joined(p, q, r, s)
          /\ Only(Masked(p, q, r, s), wide) = Joined(p, q, r, s)
      BY <1>0, <2>4, MaskedDigits
    <3>2. D!FormatMasked(text) = Masked(p, q, r, s)
      BY <2>2 DEF Masked
    <3> QED
      BY <1>2, <2>5, <3>1, <3>2 DEF d, Joined
<1> QED
  BY <1>3, <1>4

\* The bounds of a finite set of integers.
LEMMA BoundsExist ==
  ASSUME NEW T, T \subseteq Int, IsFiniteSet(T), T # {}
  PROVE  /\ D!Min(T) \in T /\ \A i \in T : D!Min(T) <= i
         /\ D!Max(T) \in T /\ \A i \in T : i <= D!Max(T)
<1> DEFINE up   == {e \in Int \X Int : e[1] < e[2]}
           down == {e \in Int \X Int : e[2] < e[1]}
<1>1. Orders(up, T) /\ Orders(down, T)
  BY DEF Orders
<1> HIDE DEF up, down
<1>2. \E m \in T : \A i \in T \ {m} : <<i, m>> \in up
  BY <1>1, LastExists
<1>3. \E m \in T : \A i \in T \ {m} : <<i, m>> \in down
  BY <1>1, LastExists
<1>4. PICK h \in T, l \in T : \A i \in T : i <= h /\ l <= i
  <2>1. PICK h \in T : \A i \in T \ {h} : i < h
    BY <1>2 DEF up
  <2>2. PICK l \in T : \A i \in T \ {l} : l < i
    BY <1>3 DEF down
  <2>3. \A i \in T : i <= h /\ l <= i
    BY <2>1, <2>2
  <2> QED
    BY <2>3
<1>5. D!Max(T) \in T /\ \A i \in T : i <= D!Max(T)
  <2>1. \E x \in T : \A y \in T : x >= y
    BY <1>4
  <2>2. D!Max(T) \in T /\ \A y \in T : D!Max(T) >= y
    BY <2>1 DEF D!Max
  <2> QED
    BY <2>2
<1>6. D!Min(T) \in T /\ \A i \in T : D!Min(T) <= i
  <2>1. \E x \in T : \A y \in T : x =< y
    BY <1>4
  <2>2. D!Min(T) \in T /\ \A y \in T : D!Min(T) =< y
    BY <2>1 DEF D!Min
  <2> QED
    BY <2>2
<1> QED
  BY <1>5, <1>6

\* What stripping leaves, when no space is left in it, is all but the spaces.
LEMMA StrippedOfSpaces ==
  ASSUME NEW T, NEW m \in Seq(T), \A i \in DOMAIN D!Strip(m) : D!Strip(m)[i] # Space
  PROVE  D!Strip(m) = Only(m, T \ {Space})
<1> DEFINE n    == Len(m)
           kept == {i \in DOMAIN m : m[i] # Space}
           A    == D!Min(kept)
           B    == D!Max(kept)
           rest == T \ {Space}
<1>1. n \in Nat /\ DOMAIN m = 1 .. n /\ \A i \in 1 .. n : m[i] \in T
  BY LenProperties
<1>2. kept \subseteq 1 .. n /\ kept \subseteq Int
  BY <1>1
<1>3. IsFiniteSet(kept)
  <2> HIDE DEF n, kept
  <2>1. IsFiniteSet(1 .. n)
    BY <1>1, FS_Interval
  <2> QED
    BY <1>2, <2>1, FS_Subset
<1>4. CASE kept = {}
  <2>1. D!Strip(m) = <<>>
    BY <1>4 DEF D!Strip
  <2>2. m \in Seq({Space})
    <3>1. \A i \in 1 .. n : m[i] \in {Space}
      BY <1>1, <1>4
    <3>2. m \in [1 .. n -> {Space}]
      BY <1>1, <3>1, LenProperties
    <3> QED
      BY <1>1, <3>2, SeqDef
  <2>3. {Space} \cap rest = {}
    OBVIOUS
  <2> HIDE DEF rest
  <2>4. Only(m, rest) = <<>>
    BY <2>2, <2>3, OnlyKeepsNone
  <2> QED
    BY <2>1, <2>4 DEF rest
<1>5. CASE kept # {}
  <2> HIDE DEF kept, n
  <2>1. A \in kept /\ B \in kept /\ \A i \in kept : A <= i /\ i <= B
    BY <1>2, <1>3, <1>5, BoundsExist
  <2>2. D!Strip(m) = SubSeq(m, A, B)
    BY <1>5 DEF D!Strip, kept
  <2> HIDE DEF A, B
  <2>3. A \in 1 .. n /\ B \in 1 .. n /\ A <= B
    BY <1>2, <2>1
  <2>4. \A i \in 1 .. n : i < A \/ B < i => m[i] = Space
    BY <1>1, <1>2, <2>1, <2>3 DEF kept
  <2>5. PICK x, y, z : x = SubSeq(m, 1, A - 1) /\ y = SubSeq(m, A, B) /\ z = SubSeq(m, B + 1, n)
    OBVIOUS
  <2>6. x \in Seq({Space})
    <3>1. \A i \in 1 .. A - 1 : m[i] \in {Space}
      BY <1>1, <2>3, <2>4
    <3> QED
      BY <2>3, <2>5, <3>1, SubSeqProperties
  <2>7. z \in Seq({Space})
    <3>1. \A i \in B + 1 .. n : m[i] \in {Space}
      BY <1>1, <2>3, <2>4
    <3> QED
      BY <1>1, <2>3, <2>5, <3>1, SubSeqProperties
  <2>8. y \in Seq(rest)
    <3>1. y \in Seq(T)
      <4>1. \A i \in A .. B : m[i] \in T
        BY <1>1, <2>3
      <4> QED
        BY <2>3, <2>5, <4>1, SubSeqProperties
    <3>2. Len(y) \in Nat /\ y \in [1 .. Len(y) -> T] /\ DOMAIN y = 1 .. Len(y)
      BY <3>1, LenProperties
    <3>3. \A i \in DOMAIN y : y[i] # Space
      BY <2>2, <2>5
    <3>4. y \in [1 .. Len(y) -> rest]
      BY <3>2, <3>3
    <3> HIDE DEF rest
    <3> QED
      BY <3>2, <3>4, SeqDef
  <2>9. x \in Seq(T \cup {Space}) /\ y \in Seq(T \cup {Space}) /\ z \in Seq(T \cup {Space})
    BY <2>6, <2>7, <2>8, SeqMonotonic
  <2>10. (x \o y) \o z = m
    <3>1. x \o y = SubSeq(m, 1, B)
      <4>1. SubSeq(m, 1, A - 1) \o SubSeq(m, (A - 1) + 1, B) = SubSeq(m, 1, B)
        <5>1. 1 \in 1 .. Len(m) + 1 /\ A - 1 \in 1 - 1 .. Len(m) /\ B \in A - 1 .. Len(m)
          BY <1>1, <2>3 DEF n
        <5> QED
          BY <5>1, ConcatAdjacentSubSeq
      <4>2. (A - 1) + 1 = A
        BY <2>3
      <4> QED
        BY <2>5, <4>1, <4>2
    <3>2. SubSeq(m, 1, B) \o SubSeq(m, B + 1, Len(m)) = SubSeq(m, 1, Len(m))
      <4>1. 1 \in 1 .. Len(m) + 1 /\ B \in 1 - 1 .. Len(m) /\ Len(m) \in B .. Len(m)
        BY <1>1, <2>3 DEF n
      <4> QED
        BY <4>1, ConcatAdjacentSubSeq
    <3>3. SubSeq(m, 1, Len(m)) = m
      BY SubSeqFull
    <3> QED
      BY <2>5, <3>1, <3>2, <3>3 DEF n
  <2>11. {Space} \cap rest = {}
    OBVIOUS
  <2> HIDE DEF rest
  <2>12. Only(x, rest) = <<>> /\ Only(z, rest) = <<>> /\ Only(y, rest) = y
    BY <2>6, <2>7, <2>8, <2>11, OnlyKeepsNone, OnlyKeepsAll
  <2>13. PICK W : W = T \cup {Space}
    OBVIOUS
  <2>14. x \in Seq(W) /\ y \in Seq(W) /\ z \in Seq(W)
    BY <2>9, <2>13
  <2>15. Only((x \o y) \o z, rest) = y
    BY <2>12, <2>14, OnlyTheMiddle
  <2> QED
    BY <2>2, <2>5, <2>10, <2>15 DEF rest
<1> QED
  BY <1>4, <1>5

\* The capitals and digits of a plate.
LEMMA PlateIsPlain ==
  ASSUME NEW plate \in Seq(D!Characters), D!PlateShape(plate)
  PROVE  plate \in Seq(D!Digits \cup Capitals) /\ Len(plate) = 7
<1>1. plate \in [1 .. 7 -> D!Characters] /\ Len(plate) = 7
  BY LenProperties DEF D!PlateShape
<1>2. \A i \in 1 .. 7 : i \in {1, 2, 3} \/ i \in {4, 6, 7} \/ i = 5
  OBVIOUS
<1>3. \A i \in 1 .. 7 : plate[i] \in D!Digits \cup Capitals
  BY <1>2 DEF D!PlateShape
<1>4. plate \in [1 .. 7 -> D!Digits \cup Capitals]
  BY <1>1, <1>3
<1>5. plate \in Seq(D!Digits \cup Capitals)
  <2>1. PICK n \in Nat : n = 7
    OBVIOUS
  <2>2. plate \in [1 .. n -> D!Digits \cup Capitals]
    BY <1>4, <2>1
  <2> QED
    BY <2>2, SeqDef
<1> QED
  BY <1>1, <1>5

\* Capitals and digits are left as they are.
LEMMA PlainIsKept ==
  ASSUME NEW plate \in Seq(D!Digits \cup Capitals)
  PROVE  D!Strip(D!Only(D!Uppercase(plate), D!Characters \ {Hyphen})) = plate
<1> DEFINE P == D!Digits \cup Capitals
<1>1. P \cap DOMAIN UpperOf = {} /\ Hyphen \notin P /\ Space \notin P /\ P \subseteq D!Characters
  BY LettersAssumption DEF D!Characters
<1>2. Len(plate) \in Nat /\ plate \in [1 .. Len(plate) -> P] /\ DOMAIN plate = 1 .. Len(plate)
  BY LenProperties
<1>3. D!Uppercase(plate) = plate
  <2> HIDE DEF P
  <2>1. \A i \in DOMAIN plate : plate[i] \notin DOMAIN UpperOf
    BY <1>1, <1>2
  <2>2. plate = [i \in DOMAIN plate |-> plate[i]]
    BY <1>2
  <2> QED
    BY <2>1, <2>2 DEF D!Uppercase
<1>4. plate \in Seq(D!Characters \ {Hyphen}) /\ plate \in Seq(D!Characters \ {Space})
  BY <1>1, SeqMonotonic
<1>5. Only(plate, D!Characters \ {Hyphen}) = plate /\ Only(plate, D!Characters \ {Space}) = plate
  BY <1>4, OnlyKeepsAll
<1>6. D!Strip(plate) = plate
  <2>1. \A i \in DOMAIN plate : plate[i] # Space
    BY <1>1, <1>2
  <2>2. {i \in DOMAIN plate : plate[i] # Space} = 1 .. Len(plate)
    BY <1>2, <2>1
  <2>3. D!Strip(plate) = IF 1 .. Len(plate) = {} THEN <<>>
                         ELSE SubSeq(plate, D!Min(1 .. Len(plate)), D!Max(1 .. Len(plate)))
    BY <2>2 DEF D!Strip
  <2>4. CASE 1 .. Len(plate) = {}
    <3>1. Len(plate) = 0
      BY <1>2, <2>4
    <3>2. plate = <<>>
      BY <3>1, EmptySeq
    <3> QED
      BY <2>3, <2>4, <3>2
  <2>5. CASE 1 .. Len(plate) # {}
    <3>1. PICK n \in Nat : n = Len(plate)
      BY <1>2
    <3>2. IsFiniteSet(1 .. n) /\ 1 .. n \subseteq Int
      BY FS_Interval
    <3>3. PICK l, h : l = D!Min(1 .. n) /\ h = D!Max(1 .. n)
      OBVIOUS
    <3>4. l \in 1 .. n /\ h \in 1 .. n /\ \A i \in 1 .. n : l <= i /\ i <= h
      BY <2>5, <3>1, <3>2, <3>3, BoundsExist
    <3>5. l = 1 /\ h = n
      BY <3>4
    <3>6. SubSeq(plate, 1, n) = plate
      BY <3>1, SubSeqFull
    <3> QED
      BY <2>3, <2>5, <3>1, <3>3, <3>5, <3>6
  <2> QED
    BY <2>4, <2>5
<1> QED
  BY <1>3, <1>5, <1>6, SameOnly

\* What a registration makes of a plate.
LEMMA PlatesAccepted ==
  ASSUME NEW text \in Seq(D!Characters), D!RegisteredPlate(text) # None
  PROVE  LET plate == D!RegisteredPlate(text) IN
         /\ D!RegisteredPlate(plate) = plate
         /\ plate = Only(D!Uppercase(text), D!Characters \ {Hyphen, Space})
<1> DEFINE C == D!Characters
           u == D!Uppercase(text)
           m == Only(u, C \ {Hyphen})
           plate == D!RegisteredPlate(text)
<1>1. plate = D!Strip(m) /\ D!PlateShape(plate)
  BY SameOnly DEF D!RegisteredPlate
<1>2. u \in Seq(C)
  <2>1. Len(text) \in Nat /\ text \in [1 .. Len(text) -> C] /\ DOMAIN text = 1 .. Len(text)
    BY LenProperties
  <2>2. \A i \in 1 .. Len(text) : (IF text[i] \in DOMAIN UpperOf THEN UpperOf[text[i]] ELSE text[i]) \in C
    <3>1. \A c \in DOMAIN UpperOf : UpperOf[c] \in C
      BY LettersAssumption DEF D!Characters
    <3> HIDE DEF C
    <3> QED
      BY <2>1, <3>1
  <2>3. u \in [1 .. Len(text) -> C]
    <3> HIDE DEF C
    <3> QED
      BY <2>1, <2>2 DEF D!Uppercase
  <2> HIDE DEF C, u
  <2> QED
    BY <2>1, <2>3, SeqDef
<1> HIDE DEF u
<1>3. m \in Seq(C)
  <2>1. m \in Seq(C \cap (C \ {Hyphen}))
    BY <1>2, OnlyType
  <2> QED
    BY <2>1, SeqMonotonic
<1> HIDE DEF m, plate
<1>4. plate \in Seq(C)
  <2>1. \A i \in DOMAIN m : m[i] \in C
    BY <1>3, LenProperties
  <2> DEFINE kept == {i \in DOMAIN m : m[i] # Space}
  <2>2. D!Strip(m) = IF kept = {} THEN <<>> ELSE SubSeq(m, D!Min(kept), D!Max(kept))
    BY DEF D!Strip
  <2>3. CASE kept = {}
    BY <1>1, <2>2, <2>3, EmptySeq
  <2>4. CASE kept # {}
    <3>1. Len(m) \in Nat /\ DOMAIN m = 1 .. Len(m)
      BY <1>3, LenProperties
    <3>2. kept \subseteq 1 .. Len(m) /\ kept \subseteq Int
      BY <3>1
    <3>3. IsFiniteSet(kept)
      <4>1. PICK n \in Nat : n = Len(m)
        BY <3>1
      <4>2. IsFiniteSet(1 .. n)
        BY FS_Interval
      <4> HIDE DEF kept
      <4> QED
        BY <3>2, <4>1, <4>2, FS_Subset
    <3> HIDE DEF kept
    <3>4. D!Min(kept) \in 1 .. Len(m) /\ D!Max(kept) \in 1 .. Len(m)
      BY <2>4, <3>2, <3>3, BoundsExist
    <3>5. PICK l, h : l = D!Min(kept) /\ h = D!Max(kept)
      OBVIOUS
    <3>6. l \in Int /\ h \in Int /\ \A i \in l .. h : m[i] \in C
      BY <2>1, <3>1, <3>4, <3>5
    <3>7. SubSeq(m, l, h) \in Seq(C)
      BY <3>6, SubSeqProperties
    <3> QED
      BY <1>1, <2>2, <2>4, <3>5, <3>7
  <2> QED
    BY <2>3, <2>4
<1>5. plate \in Seq(D!Digits \cup Capitals)
  BY <1>1, <1>4, PlateIsPlain
<1>6. \A i \in DOMAIN plate : plate[i] # Space
  <2>1. Space \notin D!Digits \cup Capitals
    BY LettersAssumption
  <2> QED
    BY <1>5, <2>1, LenProperties
<1>7. plate = Only(m, C \ {Space})
  BY <1>1, <1>3, <1>6, StrippedOfSpaces
<1>8. (C \ {Hyphen}) \cap (C \ {Space}) = C \ {Hyphen, Space}
  OBVIOUS
<1>9. plate = Only(u, C \ {Hyphen, Space})
  BY <1>2, <1>7, <1>8, OnlyTwice DEF m
<1>10. D!RegisteredPlate(plate) = plate
  BY <1>1, <1>5, PlainIsKept DEF D!RegisteredPlate
<1> QED
  BY <1>9, <1>10 DEF plate, u

\* The key of a document.
LEMMA DocumentKey ==
  ASSUME question.text \in Documents,
         answer = [registered |-> D!RegisteredDocument(question.text), found |-> D!LogInDocument(question.text)],
         answer.registered # None
  PROVE  /\ answer.found \in {None, answer.registered}
         /\ \A sub \in {answer.registered, D!FormatMasked(question.text)} :
              D!TokenDocument(sub) = answer.registered
         /\ D!RegisteredDocument(D!FormatMasked(question.text)) = answer.registered
<1> DEFINE text == question.text
           digits == D!Normalize(text)
<1>1. text \in Seq(D!Characters)
  BY LettersAssumption
<1>2. answer.registered = D!RegisteredDocument(text) /\ answer.found = D!LogInDocument(text)
  OBVIOUS
<1> HIDE DEF text
<1>3. answer.registered = digits /\ answer.found \in {None, digits}
  BY <1>1, <1>2, DocumentsAccepted
<1>4. digits \in Seq(D!Digits)
  BY <1>1, NormalizeType
<1>5. D!TokenDocument(digits) = digits /\ D!TokenDocument(D!FormatMasked(text)) = digits
  <2>1. digits \in Seq(D!Digits \cup Superscripts)
    BY <1>4, SeqMonotonic
  <2> HIDE DEF digits
  <2>2. D!TokenDocument(digits) = digits
    BY <2>1, OnlyKeepsAll, SameOnly DEF D!TokenDocument
  <2> QED
    BY <1>1, <2>2, MaskedIsSame DEF digits
<1>6. D!RegisteredDocument(D!FormatMasked(text)) = D!RegisteredDocument(text)
  BY <1>1, MaskedIsSame DEF D!RegisteredDocument
<1> QED
  BY <1>2, <1>3, <1>5, <1>6 DEF text

-----------------------------------------------------------------------------
(***************************************************************************)
(* The theorems: an answer is what the rules compute of the question, and  *)
(* what they compute has the properties                                    *)
(***************************************************************************)

\* What has been asked so far, and answered.
Answered ==
  \/ question.kind = "none"
  \/ /\ question.kind = "document" /\ question.text \in Documents
     /\ answer = [registered |-> D!RegisteredDocument(question.text), found |-> D!LogInDocument(question.text)]
  \/ /\ question.kind = "plate" /\ question.text \in Plates
     /\ answer = D!RegisteredPlate(question.text)
  \/ /\ question.kind = "list" /\ question.orders \in OrderSets /\ question.status \in Q!Statuses \cup {None}
     /\ answer \in Q!ListServiceOrders(question.orders, question.status)
  \/ /\ question.kind = "average" /\ question.orders \in OrderSets
     /\ answer \in Q!AverageExecutionTime(question.orders)
  \/ /\ question.kind = "settings" /\ question.dsn \in Dsns /\ question.channel \in Channels
     /\ question.host \in BOOLEAN
     /\ answer = [dsn      |-> S!NormalizeAsyncDsn(question.dsn),
                  notifier |-> S!BuildNotifier(question.channel, question.host)]

\* A question is answered when it is asked, by what the rules compute.
LEMMA AlwaysAnswered ==
  Spec => []Answered
<1>1. Init => Answered
  BY DEF Init, Answered
<1>2. Answered /\ [Next]_vars => Answered'
  <2> SUFFICES ASSUME Answered, [Next]_vars
               PROVE  Answered'
    OBVIOUS
  <2>1. CASE AskDocument
    BY <2>1 DEF AskDocument, Ask, Answered
  <2>2. CASE AskPlate
    BY <2>2 DEF AskPlate, Ask, Answered
  <2>3. CASE AskList
    BY <2>3 DEF AskList, Ask, Answered
  <2>4. CASE AskAverage
    BY <2>4 DEF AskAverage, Ask, Answered
  <2>5. CASE AskSettings
    BY <2>5 DEF AskSettings, Ask, Answered
  <2>6. CASE UNCHANGED vars
    BY <2>6 DEF vars, Answered
  <2> QED
    BY <2>1, <2>2, <2>3, <2>4, <2>5, <2>6 DEF Next
<1> QED
  BY <1>1, <1>2, PTL DEF Spec

\* The check digits that the schema of a registration computes, the ones that the domain
\* computes at a log-in and the rules of the Receita Federal accept the same documents, of
\* every text there is (cpf.py: is_valid; client_schema.py: _validate_cpf, _validate_cnpj).
THEOREM RegistrationAndLogInAgree == Spec => []DocumentRulesAgree
<1>1. Answered => DocumentRulesAgree
  BY DocumentAnswered DEF Answered, DocumentRulesAgree, Asked
<1> QED
  BY <1>1, AlwaysAnswered, PTL

\* However a document or a plate is written, what a registration keeps of it is the same,
\* and what a log-in or a token looks up is what was kept (validate_cpf_cnpj,
\* validate_plate, normalize, format_masked, _only_digits).
THEOREM EveryThingHasOneKey == Spec => []OneKeyPerThing
<1>1. Answered => OneKeyPerThing
  <2> SUFFICES ASSUME Answered PROVE OneKeyPerThing
    OBVIOUS
  <2>1. CASE Asked("document")
    <3>1. /\ question.kind = "document" /\ question.text \in Documents
          /\ answer = [registered |-> D!RegisteredDocument(question.text), found |-> D!LogInDocument(question.text)]
      BY <2>1 DEF Answered, Asked
    <3> QED
      BY <2>1, <3>1, DocumentKey DEF OneKeyPerThing, Asked
  <2>2. CASE Asked("plate")
    <3>1. question.kind = "plate" /\ question.text \in Seq(D!Characters) /\ answer = D!RegisteredPlate(question.text)
      BY <2>2, LettersAssumption DEF Answered, Asked
    <3> QED
      BY <3>1, PlatesAccepted DEF OneKeyPerThing, Asked
  <2>3. CASE ~Asked("document") /\ ~Asked("plate")
    BY <2>3 DEF OneKeyPerThing
  <2> QED
    BY <2>1, <2>2, <2>3
<1> QED
  BY <1>1, AlwaysAnswered, PTL

\* The work list of any set of orders shows each open one once, by the priority of its
\* status, then by age, then by id; a filtered list shows each order of its status once
\* (list_open_ordered, get_by_status).
THEOREM WorkListIsSorted == Spec => []WorkListInOrder
<1>1. Answered => WorkListInOrder
  BY ListAnswered DEF Answered, WorkListInOrder, Asked
<1> QED
  BY <1>1, AlwaysAnswered, PTL

\* The average execution time of any set of orders lies between the shortest and the longest
\* of them, rounding aside, and is absent without a delivered order
\* (GetAverageExecutionTimeUseCase).
THEOREM AverageIsAMean == Spec => []AverageWithinRange
<1>1. Answered => AverageWithinRange
  BY AverageAnswered DEF Answered, AverageWithinRange, Asked
<1> QED
  BY <1>1, AlwaysAnswered, PTL

\* Whatever keys and values a connection string for asyncpg lists, only the code's list of
\* parameters is dropped, TLS is on or off as it was asked for (not with the checks that were
\* asked for: verify-full becomes require), reading the result again changes nothing, and the
\* driver accepts it if the string has no repeated parameter and none that neither the code
\* nor the driver knows; notices go by e-mail exactly when the channel allows it and there is
\* a server (normalize_async_dsn, build_notifier).
THEOREM SettingsAreUsable == Spec => []SettingsUsable
<1>1. Answered => SettingsUsable
  BY SettingsAnswered DEF Answered, SettingsUsable, Asked
<1> QED
  BY <1>1, AlwaysAnswered, PTL
=============================================================================
