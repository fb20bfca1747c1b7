----------------------------- MODULE StockProofs -----------------------------
(***************************************************************************)
(* The stock of parts: that it accounts for every committed request, that  *)
(* it covers the orders, and that the handlers implement the order book,   *)
(* wherever no two overlapping requests shared a row.                      *)
(*                                                                         *)
(* The inductive invariant is RunInv.  It says of a handler in the middle  *)
(* of its transaction what it has already done to each part it names: its  *)
(* session sees the committed stock plus its share (Share), the sum of the *)
(* lines its loop has passed.  A commit then adds the whole of what was    *)
(* asked, and the sum over committed requests gains one summand.           *)
(***************************************************************************)
EXTENDS OrderHistoryProofs, SumFacts

-----------------------------------------------------------------------------
(***************************************************************************)
(* What lines ask, as sums                                                 *)
(***************************************************************************)
Asking(lines, p)  == {i \in DOMAIN lines : lines[i].part = p}
Quantities(lines) == [i \in DOMAIN lines |-> lines[i].qty]

\* What the lines before the n-th ask of p.
AskedBefore(lines, p, n) == SumFunctionOnSet(Quantities(lines), {i \in Asking(lines, p) : i < n})

\* What each request, once committed, adds to the stock of p.
EffectsOn(p) == [r \in Requests |-> Effect(r, p)]

\* Asked as one of those sums, both as a map folded over the lines.
LEMMA AskedIsSum ==
  ASSUME NEW lines, NEW p
  PROVE  Asked(lines, p) = SumFunctionOnSet(Quantities(lines), Asking(lines, p))
<1> DEFINE S == Asking(lines, p)
           Added(iter) ==
             [s \in SUBSET S |->
                IF s = {} THEN 0 ELSE lines[CHOOSE x \in s : TRUE].qty + iter[s \ {CHOOSE x \in s : TRUE}]]
           Summed(iter) ==
             [s \in SUBSET S |->
                IF s = {} THEN 0
                ELSE Quantities(lines)[CHOOSE x \in s : TRUE] + iter[s \ {CHOOSE x \in s : TRUE}]]
<1>1. Asked(lines, p) = (CHOOSE iter : iter = Added(iter))[S]
  BY DEF Asked, MapThenSumSet, MapThenFoldSet, Asking
<1>2. SumFunctionOnSet(Quantities(lines), S) = (CHOOSE iter : iter = Summed(iter))[S]
  BY SumIsChosen DEF IsSum
<1>3. ASSUME NEW iter
      PROVE  Added(iter) = Summed(iter)
  BY DEF Quantities, Asking
<1> HIDE DEF Added, Summed
<1>4. \A iter : Added(iter) = Summed(iter)
  BY <1>3
<1> QED
  BY <1>1, <1>2, <1>4

\* The lines that ask for p are finitely many, with integer quantities.
LEMMA AskingType ==
  ASSUME NEW lines \in Seq(Line), NEW p
  PROVE  /\ IsFiniteSet(Asking(lines, p))
         /\ \A i \in Asking(lines, p) : /\ i \in 1 .. Len(lines) /\ lines[i].part = p
                                      /\ Quantities(lines)[i] = lines[i].qty
                                      /\ Quantities(lines)[i] \in Int
<1>1. IsFiniteSet(1 .. Len(lines)) /\ DOMAIN lines = 1 .. Len(lines)
  BY FS_Interval
<1>2. IsFiniteSet(Asking(lines, p))
  BY <1>1, FS_Subset DEF Asking
<1>3. ASSUME NEW i \in Asking(lines, p)
      PROVE  /\ i \in 1 .. Len(lines) /\ lines[i].part = p
             /\ Quantities(lines)[i] = lines[i].qty /\ Quantities(lines)[i] \in Int
  <2>1. i \in DOMAIN lines /\ lines[i].part = p
    BY DEF Asking
  <2>2. lines[i].qty \in Int
    BY <1>1, <2>1, LineType
  <2> QED
    BY <1>1, <2>1, <2>2 DEF Quantities
<1> QED
  BY <1>2, <1>3

\* The lines that ask for a part are finitely many, and any of them sum to an integer.
LEMMA SomeAskingType ==
  ASSUME NEW lines \in Seq(Line), NEW p, NEW S \in SUBSET Asking(lines, p)
  PROVE  IsFiniteSet(S) /\ SumFunctionOnSet(Quantities(lines), S) \in Int
<1>1. IsFiniteSet(S)
  BY AskingType, FS_Subset
<1>2. \A i \in S : Quantities(lines)[i] \in Int
  BY AskingType
<1> QED
  BY <1>1, <1>2, SumTakesOut

\* So what a request asks of a part, in all or up to a line, is an integer.
LEMMA AskedType ==
  ASSUME NEW lines \in Seq(Line), NEW p
  PROVE  Asked(lines, p) \in Int /\ \A n : AskedBefore(lines, p, n) \in Int
BY AskedIsSum, SomeAskingType DEF AskedBefore

\* Nothing is asked of a part that is not named, nor before the first line; past the last
\* line everything is; and one line more adds what it asks.
LEMMA AskedOfNone ==
  ASSUME NEW lines \in Seq(Line), NEW p, p \notin PartsOf(lines)
  PROVE  Asked(lines, p) = 0 /\ \A n : AskedBefore(lines, p, n) = 0
<1>1. Asking(lines, p) = {}
  BY DEF Asking, PartsOf
<1>2. \A n : {i \in Asking(lines, p) : i < n} = {}
  BY <1>1
<1> QED
  BY <1>1, <1>2, AskedIsSum, SumOfNone DEF AskedBefore

\* Before the first line nothing was asked: a loop starts with no debt.
LEMMA AskedFirst ==
  ASSUME NEW lines \in Seq(Line), NEW p
  PROVE  AskedBefore(lines, p, 1) = 0
<1>1. {i \in Asking(lines, p) : i < 1} = {}
  BY DEF Asking
<1> QED
  BY <1>1, SumOfNone DEF AskedBefore

\* Past the last line everything was: a loop that ran to its end has done its work.
LEMMA AskedAll ==
  ASSUME NEW lines \in Seq(Line), NEW p, NEW n \in Nat, n > Len(lines)
  PROVE  AskedBefore(lines, p, n) = Asked(lines, p)
<1>1. {i \in Asking(lines, p) : i < n} = Asking(lines, p)
  BY DEF Asking
<1> QED
  BY <1>1, AskedIsSum DEF AskedBefore

\* One turn of a loop adds what its line asks.
LEMMA AskedNext ==
  ASSUME NEW lines \in Seq(Line), NEW p, NEW n \in 1 .. Len(lines)
  PROVE  AskedBefore(lines, p, n + 1) =
           AskedBefore(lines, p, n) + (IF lines[n].part = p THEN lines[n].qty ELSE 0)
<1> DEFINE S == {i \in Asking(lines, p) : i < n}
           T == {i \in Asking(lines, p) : i < n + 1}
           q == Quantities(lines)
<1>1. S \in SUBSET Asking(lines, p) /\ n \notin S
  OBVIOUS
<1>2. AskedBefore(lines, p, n) = SumFunctionOnSet(q, S) /\ AskedBefore(lines, p, n + 1) = SumFunctionOnSet(q, T)
  BY DEF AskedBefore
<1>3. CASE lines[n].part = p
  <2>1. T = S \cup {n} /\ n \in Asking(lines, p)
    BY <1>3, AskingType DEF Asking
  <2>2. q[n] = lines[n].qty /\ q[n] \in Int
    BY <2>1, AskingType
  <2>3. \A i \in S \cup {n} : q[i] \in Int
    BY <2>2, AskingType
  <2> HIDE DEF S, T, q
  <2>4. IsFiniteSet(S) /\ SumFunctionOnSet(q, S) \in Int
    BY <1>1, SomeAskingType DEF q
  <2>5. SumFunctionOnSet(q, S \cup {n}) = q[n] + SumFunctionOnSet(q, S)
    BY <1>1, <2>3, <2>4, SumAddsOne
  <2> QED
    BY <1>2, <1>3, <2>1, <2>2, <2>4, <2>5
<1>4. CASE lines[n].part # p
  <2>1. T = S
    BY <1>4, AskingType DEF Asking
  <2>2. AskedBefore(lines, p, n) \in Int
    BY AskedType
  <2> HIDE DEF S, T, q
  <2>3. AskedBefore(lines, p, n + 1) = AskedBefore(lines, p, n)
    BY <1>2, <2>1
  <2> QED
    BY <1>4, <2>2, <2>3
<1> QED
  BY <1>3, <1>4

\* Of a part named on one line, what is asked is what that line asks.
LEMMA AskedOnce ==
  ASSUME NEW lines \in Seq(Line), NEW p, ~RepeatsPart(lines, p), NEW n \in DOMAIN lines, lines[n].part = p
  PROVE  Asked(lines, p) = lines[n].qty
<1> DEFINE S == Asking(lines, p)
           q == Quantities(lines)
<1>1. n \in S /\ S \ {n} = {}
  BY DEF Asking, RepeatsPart
<1>2. IsFiniteSet(S) /\ (\A i \in S : q[i] \in Int) /\ q[n] = lines[n].qty
  BY <1>1, AskingType
<1>3. Asked(lines, p) = SumFunctionOnSet(q, S)
  BY AskedIsSum
<1> HIDE DEF S, q
<1>4. SumFunctionOnSet(q, S) = q[n] + SumFunctionOnSet(q, S \ {n})
  BY <1>1, <1>2, SumTakesOut
<1>5. SumFunctionOnSet(q, S \ {n}) = 0
  BY <1>1, SumOfNone
<1>6. q[n] \in Int
  BY <1>1, <1>2
<1> QED
  BY <1>2, <1>3, <1>4, <1>5, <1>6

\* A single line asks what it says.
LEMMA AskedOfOne ==
  ASSUME NEW lines \in Seq(Line), Len(lines) = 1
  PROVE  PartsOf(lines) = {lines[1].part} /\ Asked(lines, lines[1].part) = lines[1].qty
<1>1. DOMAIN lines = {1}
  OBVIOUS
<1>2. ~RepeatsPart(lines, lines[1].part)
  BY <1>1 DEF RepeatsPart
<1>3. 1 \in DOMAIN lines
  BY <1>1
<1>4. Asked(lines, lines[1].part) = lines[1].qty
  BY <1>2, <1>3, AskedOnce
<1> QED
  BY <1>1, <1>4 DEF PartsOf

\* What a request does to the stock, once committed, is an integer.
LEMMA EffectType ==
  ASSUME TypeOK, NEW r \in Requests, NEW p
  PROVE  Effect(r, p) \in Int /\ EffectsOn(p)[r] = Effect(r, p)
<1>1. Asked(job[r].lines, p) \in Int
  BY AskedType DEF TypeOK, Jobs
<1>2. Effect(r, p) \in Int
  BY <1>1 DEF Effect
<1> QED
  BY <1>2 DEF EffectsOn

\* The sum of the effects of what was committed, in this state and in the next.
LEMMA EffectsAreSum ==
  ASSUME NEW p, committed \subseteq Requests
  PROVE  MapThenSumSet(LAMBDA r : Effect(r, p), committed) = SumFunctionOnSet(EffectsOn(p), committed)
<1> DEFINE S == committed
           Added(iter) ==
             [s \in SUBSET S |->
                IF s = {} THEN 0 ELSE Effect(CHOOSE x \in s : TRUE, p) + iter[s \ {CHOOSE x \in s : TRUE}]]
           Summed(iter) ==
             [s \in SUBSET S |->
                IF s = {} THEN 0
                ELSE EffectsOn(p)[CHOOSE x \in s : TRUE] + iter[s \ {CHOOSE x \in s : TRUE}]]
<1>1. MapThenSumSet(LAMBDA r : Effect(r, p), committed) = (CHOOSE iter : iter = Added(iter))[S]
  BY DEF MapThenSumSet, MapThenFoldSet
<1>2. SumFunctionOnSet(EffectsOn(p), S) = (CHOOSE iter : iter = Summed(iter))[S]
  BY SumIsChosen DEF IsSum
<1>3. ASSUME NEW iter
      PROVE  Added(iter) = Summed(iter)
  BY DEF EffectsOn
<1> HIDE DEF Added, Summed
<1>4. \A iter : Added(iter) = Summed(iter)
  BY <1>3
<1> QED
  BY <1>1, <1>2, <1>4

\* The same of the next state.
LEMMA EffectsAreSumNext ==
  ASSUME NEW p, committed' \subseteq Requests
  PROVE  MapThenSumSet(LAMBDA r : Effect(r, p), committed)' = SumFunctionOnSet(EffectsOn(p)', committed')
<1> DEFINE S == committed'
           Added(iter) ==
             [s \in SUBSET S |->
                IF s = {} THEN 0 ELSE Effect(CHOOSE x \in s : TRUE, p)' + iter[s \ {CHOOSE x \in s : TRUE}]]
           Summed(iter) ==
             [s \in SUBSET S |->
                IF s = {} THEN 0
                ELSE EffectsOn(p)'[CHOOSE x \in s : TRUE] + iter[s \ {CHOOSE x \in s : TRUE}]]
<1>1. MapThenSumSet(LAMBDA r : Effect(r, p), committed)' = (CHOOSE iter : iter = Added(iter))[S]
  BY DEF MapThenSumSet, MapThenFoldSet
<1>2. SumFunctionOnSet(EffectsOn(p)', S) = (CHOOSE iter : iter = Summed(iter))[S]
  BY SumIsChosen DEF IsSum
<1>3. ASSUME NEW iter
      PROVE  Added(iter) = Summed(iter)
  BY DEF EffectsOn
<1> HIDE DEF Added, Summed
<1>4. \A iter : Added(iter) = Summed(iter)
  BY <1>3
<1> QED
  BY <1>1, <1>2, <1>4

-----------------------------------------------------------------------------
\* What r has done so far to the stock of p, its last UPDATE pending or not.
Share(r, p) ==
  CASE pc[r] = "take"                   -> -AskedBefore(job[r].lines, p, session[r].line)
    [] pc[r] \in {"return", "saveOrder"} -> AskedBefore(job[r].lines, p, session[r].line)
    [] pc[r] = "savePart"               -> Asked(job[r].lines, p)
    [] OTHER                            -> 0

\* The stages at which a handler has written nothing.
Fresh == {"idle", "check", "reloadOrder", "reloadPart", "reloadDelete", "erase"}

\* What a handler was asked, by the stage it is in.
Asks(r) ==
  LET j == job[r] IN
  /\ pc[r] \in {"check", "take"} => j.op = "open" /\ j.lines \in OpenLines
  /\ pc[r] \in Deciding =>
       /\ j.op \in {"update", "approve"}
       /\ \/ j.lines = <<>>
          \/ j.op = "approve" /\ j.target = "ORCAMENTO_RECUSADO" /\ j.lines = Lines(j.order)
  /\ pc[r] = "return" => j.op = "approve"
  /\ pc[r] = "reloadOrder" => j.lines = <<>>
  /\ pc[r] = "saveOrder" => session[r].line > Len(j.lines)
  /\ pc[r] \in {"reloadPart", "savePart"} =>
       \/ j.op = "adjust" /\ j.lines[1].qty \in Deltas /\ session[r].held >= 0
       \/ j.op = "edit" /\ j.lines[1].qty = 0
  /\ pc[r] \in {"reloadDelete", "erase"} => j.op = "delete"

\* What a handler's session holds of a part.
Carries(r) ==
  /\ pc[r] = "idle" => session[r].line = 1
  /\ pc[r] \in Fresh => \A p \in Parts : Flushed(r)[p] = None
  /\ pc[r] \in Reading => \A p \in Parts \ Footprint(job[r]) : Flushed(r)[p] = None
  /\ pc[r] \in Reading => \A p \in (live \cap Footprint(job[r])) \ contended :
       /\ StockSeenBy(r, p) = stock[p] + Share(r, p)
       /\ pc[r] \in {"reloadPart", "savePart"} => session[r].held = stock[p] + job[r].lines[1].qty

\* Every line an opening has tested is still covered by the stock.
Covered(r) ==
  pc[r] \in {"check", "take"} =>
    \A i \in DOMAIN job[r].lines :
      LET l == job[r].lines[i] IN
      l.part \in live \ contended /\ (pc[r] = "take" \/ i < session[r].line) => l.qty <= stock[l.part]

\* All that must be true of a request, whoever else runs.
Handled(r) == Asks(r) /\ Carries(r) /\ Covered(r)

\* A row that two running requests share is contended.
Exclusive ==
  \A q, r \in Requests :
    q # r /\ pc[q] \in Reading /\ pc[r] \in Reading => Footprint(job[q]) \cap Footprint(job[r]) \subseteq contended

\* A part that an order used stays.
UsedPartsLive == \A o \in opened : PartsOf(Lines(o)) \subseteq live

CommittedPast == \A r \in committed : pc[r] \notin Reading \cup {"idle"}

\* The inductive invariant.
RunInv == (\A r \in Requests : Handled(r)) /\ Exclusive /\ UsedPartsLive /\ CommittedPast

-----------------------------------------------------------------------------
(***************************************************************************)
(* The parts of RunInv a step can disturb                                  *)
(***************************************************************************)
LEMMA JobLines == ASSUME TypeOK, NEW r \in Requests PROVE job[r].lines \in Seq(Line) /\ PartsOf(job[r].lines) \subseteq Parts
BY PartsOfType DEF TypeOK, Jobs

\* A request has done nothing to a part it does not name, and an integer to the others.
LEMMA ShareType ==
  ASSUME TypeOK, NEW r \in Requests, NEW p
  PROVE  Share(r, p) \in Int /\ (p \notin PartsOf(job[r].lines) => Share(r, p) = 0 /\ Effect(r, p) = 0)
<1>1. job[r].lines \in Seq(Line)
  BY JobLines
<1>2. Asked(job[r].lines, p) \in Int /\ AskedBefore(job[r].lines, p, session[r].line) \in Int
  BY <1>1, AskedType
<1>3. p \notin PartsOf(job[r].lines) =>
        Asked(job[r].lines, p) = 0 /\ AskedBefore(job[r].lines, p, session[r].line) = 0
  BY <1>1, AskedOfNone
<1>4. Share(r, p) \in Int
  BY <1>2 DEF Share
<1>5. p \notin PartsOf(job[r].lines) => Share(r, p) = 0
  BY <1>3 DEF Share
<1>6. p \notin PartsOf(job[r].lines) => Effect(r, p) = 0
  BY <1>3 DEF Effect
<1> QED
  BY <1>4, <1>5, <1>6

\* At the start nobody runs and nothing was done.
LEMMA RunInit == Init => RunInv
<1> SUFFICES ASSUME Init
             PROVE  RunInv
  OBVIOUS
<1>1. ASSUME NEW r \in Requests
      PROVE  Handled(r)
  BY <1>1 DEF Init, Handled, Asks, Carries, Covered, Deciding, Reading, Fresh, Flushed, NoSession
<1>2. Exclusive
  BY DEF Init, Exclusive, Reading
<1>3. UsedPartsLive
  BY PartsOfType, InputsAssumption, RequestsAssumption DEF Init, UsedPartsLive, Lines
<1>4. CommittedPast
  BY DEF Init, CommittedPast
<1> QED
  BY <1>1, <1>2, <1>3, <1>4 DEF RunInv

\* What another request's step leaves of q: its own session, and the stock of the parts
\* nobody else may write.
LEMMA HandledKept ==
  ASSUME TypeInv, NEW q \in Requests, Handled(q),
         pc'[q] = pc[q], job'[q] = job[q], session'[q] = session[q],
         live' \subseteq live, contended \subseteq contended',
         pc[q] \in Reading => \A p \in (live' \cap Footprint(job[q])) \ contended' : stock'[p] = stock[p],
         pc[q] \in Deciding => Lines(job[q].order)' = Lines(job[q].order)
  PROVE  Handled(q)'
<1>1. Flushed(q)' = Flushed(q)
  BY DEF Flushed
<1>2. \A p : Share(q, p)' = Share(q, p)
  BY DEF Share
<1>3. Asks(q)'
  BY DEF Handled, Asks
<1>4. Carries(q)'
  BY <1>1, <1>2 DEF Handled, Carries, StockSeenBy
<1>5. Covered(q)'
  <2> SUFFICES ASSUME pc[q] \in {"check", "take"}, NEW i \in DOMAIN job[q].lines,
                      job[q].lines[i].part \in live' \ contended',
                      pc[q] = "take" \/ i < session[q].line
               PROVE  job[q].lines[i].qty <= stock'[job[q].lines[i].part]
    BY DEF Covered
  <2>1. job[q].lines[i].part \in Footprint(job[q])
    BY DEF Handled, Asks, Footprint, PartsOf
  <2>2. stock'[job[q].lines[i].part] = stock[job[q].lines[i].part]
    BY <2>1 DEF Reading
  <2> QED
    BY <2>2 DEF Handled, Covered
<1> QED
  BY <1>3, <1>4, <1>5 DEF Handled

\* A step of r past its start: the others keep what they hold, since no running request
\* shares with r a part that is not contended.
LEMMA StepRun ==
  ASSUME TypeInv, HistoryInv, RunInv, NEW r \in Requests, UNCHANGED <<job, contended>>,
         \A q \in Requests \ {r} : pc'[q] = pc[q] /\ session'[q] = session[q],
         pc'[r] \in Reading => pc[r] \in Reading, pc'[r] # "idle",
         live' \subseteq live,
         pc[r] \in Reading \/ UNCHANGED stock,
         \A p \in Parts \ Footprint(job[r]) : stock'[p] = stock[p],
         committed' \subseteq committed \cup {r}, r \in committed' => pc'[r] \notin Reading,
         Handled(r)', UsedPartsLive'
  PROVE  RunInv'
<1>1. \A o : Lines(o)' = Lines(o)
  BY DEF Lines
<1>2. ASSUME NEW q \in Requests \ {r}
      PROVE  Handled(q)'
  <2>1. Handled(q)
    BY DEF RunInv
  <2>2. ASSUME pc[q] \in Reading, NEW p \in (live' \cap Footprint(job[q])) \ contended'
        PROVE  stock'[p] = stock[p]
    <3>1. p \in Parts
      BY <2>2 DEF TypeInv, TypeOK
    <3>2. CASE pc[r] \in Reading
      <4>1. p \notin Footprint(job[r])
        BY <2>2, <3>2 DEF RunInv, Exclusive
      <4> QED
        BY <3>1, <4>1
    <3> QED
      BY <3>2
  <2> QED
    BY <1>1, <2>1, <2>2, HandledKept
<1>3. Exclusive'
  BY DEF RunInv, Exclusive
<1>4. CommittedPast'
  BY DEF RunInv, CommittedPast, TypeInv, TypeOK
<1> QED
  BY <1>2, <1>3, <1>4 DEF RunInv

\* A transaction that rolls back leaves no share of its own and no row changed.
LEMMA RollbackRun ==
  ASSUME TypeInv, HistoryInv, RunInv, NEW r \in Requests, NEW outcome \in Ended, Rollback(r, outcome)
  PROVE  RunInv'
<1>1. /\ pc'[r] \in Ended /\ UNCHANGED <<job, contended, live, stock, opened, committed>>
      /\ \A q \in Requests \ {r} : pc'[q] = pc[q] /\ session'[q] = session[q]
  BY DEF Rollback, database, history, TypeInv, TypeOK
<1>2. pc'[r] \notin Reading \cup {"idle", "check", "take", "return", "reloadOrder", "saveOrder"} \cup Fresh
  BY <1>1 DEF Ended, Reading, Fresh
<1>3. Handled(r)'
  BY <1>2 DEF Handled, Asks, Carries, Covered, Deciding, Reading
<1>4. UsedPartsLive'
  BY <1>1 DEF RunInv, UsedPartsLive, Lines
<1> QED
  BY <1>1, <1>2, <1>3, <1>4, StepRun

\* A transaction whose commit may come next.
Due(r) == \/ pc[r] = "take" /\ session[r].line > Len(job[r].lines)
          \/ pc[r] \in {"saveOrder", "savePart", "erase"}

\* What a transaction is about to commit is what its request was to do.
LEMMA Settled ==
  ASSUME TypeInv, RunInv, NEW r \in Requests, Due(r), NEW p \in Parts,
         p \in live \ contended \/ p \notin Footprint(job[r])
  PROVE  StockSeenBy(r, p) = stock[p] + Effect(r, p)
<1> DEFINE lines == job[r].lines
<1>1. lines \in Seq(Line) /\ session[r].line \in Nat /\ stock[p] \in Int
  BY JobLines, SessionType DEF TypeInv, TypeOK, Sessions
<1>2. Handled(r) /\ pc[r] \in Reading
  BY DEF RunInv, Due, Reading
<1>3. Asked(lines, p) \in Int /\ (p \notin PartsOf(lines) => Asked(lines, p) = 0 /\ Effect(r, p) = 0)
  <2>1. Asked(lines, p) \in Int
    BY <1>1, AskedType
  <2>2. p \notin PartsOf(lines) => Asked(lines, p) = 0
    BY <1>1, AskedOfNone
  <2>3. p \notin PartsOf(lines) => Effect(r, p) = 0
    BY ShareType DEF TypeInv
  <2> QED
    BY <2>1, <2>2, <2>3
<1>4. CASE p \notin Footprint(job[r])
  <2>1. StockSeenBy(r, p) = stock[p]
    BY <1>2, <1>4 DEF Handled, Carries, StockSeenBy
  <2>2. Effect(r, p) = 0
    BY <1>3, <1>4 DEF Footprint, Effect
  <2> QED
    BY <1>1, <2>1, <2>2
<1>5. CASE p \in Footprint(job[r])
  <2>1. StockSeenBy(r, p) = stock[p] + Share(r, p)
    BY <1>2, <1>5 DEF Handled, Carries
  <2>2. Share(r, p) = Effect(r, p)
    <3>1. CASE pc[r] = "take"
      <4>1. job[r].op = "open" /\ AskedBefore(lines, p, session[r].line) = Asked(lines, p)
        BY <1>1, <1>2, <3>1, AskedAll DEF Due, Handled, Asks
      <4> QED
        BY <3>1, <4>1 DEF Share, Effect
    <3>2. CASE pc[r] = "saveOrder"
      <4>1. AskedBefore(lines, p, session[r].line) = Asked(lines, p)
        BY <1>1, <1>2, <3>2, AskedAll DEF Handled, Asks
      <4>2. Share(r, p) = Asked(lines, p)
        BY <3>2, <4>1 DEF Share
      <4>3. CASE job[r].op = "approve"
        BY <4>2, <4>3 DEF Effect
      <4>4. CASE job[r].op = "update"
        <5>1. lines = <<>>
          BY <1>2, <3>2, <4>4 DEF Handled, Asks, Deciding
        <5>2. Asked(lines, p) = 0
          BY <1>3, <5>1 DEF PartsOf
        <5> QED
          BY <4>2, <4>4, <5>2 DEF Effect
      <4> QED
        BY <1>2, <3>2, <4>3, <4>4 DEF Handled, Asks, Deciding
    <3>3. CASE pc[r] = "savePart"
      <4>1. Len(lines) = 1
        BY <3>3 DEF TypeInv, JobsFit, PartStages
      <4>2. PartsOf(lines) = {lines[1].part} /\ Asked(lines, lines[1].part) = lines[1].qty
        BY <1>1, <4>1, AskedOfOne
      <4>3. Share(r, p) = Asked(lines, p)
        BY <3>3 DEF Share
      <4>4. CASE job[r].op = "adjust"
        BY <4>3, <4>4 DEF Effect
      <4>5. CASE job[r].op = "edit" /\ lines[1].qty = 0
        <5>1. Asked(lines, p) = 0
          BY <1>3, <4>2, <4>5
        <5> QED
          BY <4>3, <4>5, <5>1 DEF Effect
      <4> QED
        BY <1>2, <3>3, <4>4, <4>5 DEF Handled, Asks
    <3>4. CASE pc[r] = "erase"
      <4>1. job[r].op = "delete"
        BY <1>2, <3>4 DEF Handled, Asks
      <4> QED
        BY <3>4, <4>1 DEF Share, Effect
    <3> QED
      BY <3>1, <3>2, <3>3, <3>4 DEF Due
  <2> QED
    BY <2>1, <2>2
<1> QED
  BY <1>4, <1>5

\* A commit writes what its own session saw, and so no part it does not name.
LEMMA CommitRun ==
  ASSUME TypeInv, HistoryInv, RunInv, NEW r \in Requests, Due(r), NEW next \in Replying \cup Ended,
         Commit(r, next), live' \subseteq live, UsedPartsLive'
  PROVE  RunInv'
<1>1. /\ pc'[r] = next /\ UNCHANGED <<job, contended>> /\ committed' = committed \cup {r}
      /\ \A q \in Requests \ {r} : pc'[q] = pc[q] /\ session'[q] = session[q]
      /\ \A p \in Parts : stock'[p] = StockSeenBy(r, p)
  BY DEF Commit, TypeInv, TypeOK
<1>2. pc[r] \in Reading /\ Handled(r)
  BY DEF Due, Reading, RunInv
<1>3. pc'[r] \notin Reading \cup {"idle", "check", "take", "return", "reloadOrder", "saveOrder"} \cup Fresh
  BY <1>1 DEF Replying, Ended, Reading, Fresh
<1>4. Handled(r)'
  BY <1>3 DEF Handled, Asks, Carries, Covered, Deciding, Reading
<1>5. \A p \in Parts \ Footprint(job[r]) : stock'[p] = stock[p]
  BY <1>1, <1>2 DEF Handled, Carries, StockSeenBy
<1> QED
  BY <1>1, <1>2, <1>3, <1>4, <1>5, StepRun

\* A statement inside a transaction is invisible to everybody else.
LEMMA ContinueRun ==
  ASSUME TypeInv, HistoryInv, RunInv, NEW r \in Requests, pc[r] \in Reading, NEW next \in Reading, NEW s,
         Continue(r, next, s), Handled(r)'
  PROVE  RunInv'
<1>1. /\ pc'[r] = next /\ UNCHANGED <<job, contended, live, stock, opened, committed>>
      /\ \A q \in Requests \ {r} : pc'[q] = pc[q] /\ session'[q] = session[q]
  BY DEF Continue, database, history, TypeInv, TypeOK
<1>2. UsedPartsLive'
  BY <1>1 DEF RunInv, UsedPartsLive, Lines
<1>3. pc'[r] # "idle" /\ (r \in committed' => pc'[r] \notin Reading)
  BY <1>1 DEF Reading, RunInv, CommittedPast
<1> QED
  BY <1>1, <1>2, <1>3, StepRun

-----------------------------------------------------------------------------
(***************************************************************************)
(* The steps of RunInv                                                     *)
(***************************************************************************)

\* A request that starts, with what its first SELECTs gave it.
LEMMA StartRun ==
  ASSUME TypeInv, HistoryInv, RunInv, NEW r \in Requests, NEW j \in Jobs,
         NEW next \in {"check", "rejected", "return", "reloadOrder", "reloadPart", "reloadDelete"},
         Start(r, j, next),
         \A q \in Requests \ {r} : session'[q] = session[q],
         session'[r].line = session[r].line, session'[r].dirty = session[r].dirty,
         session'[r].flushed = session[r].flushed,
         next # "rejected" => Asks(r)',
         next = "reloadPart" => Len(j.lines) = 1 /\ session'[r].held = stock[j.lines[1].part] + j.lines[1].qty
  PROVE  RunInv'
<1>1. /\ pc[r] = "idle" /\ pc'[r] = next /\ job'[r] = j
      /\ \A q \in Requests \ {r} : pc'[q] = pc[q] /\ job'[q] = job[q]
      /\ UNCHANGED <<opened, row, stock, live, committed>> /\ contended \subseteq contended'
  BY DEF Start, database, TypeInv, TypeOK
<1>2. r \notin opened /\ r \notin committed /\ \A q \in Requests : pc[q] \in Deciding => job[q].order \in opened
  BY <1>1 DEF HistoryInv, UnderwayAt, RunInv, CommittedPast
<1>3. \A o \in opened : Lines(o)' = Lines(o)
  BY <1>1, <1>2 DEF Lines, TypeInv, TypeOK
<1>4. ASSUME NEW q \in Requests \ {r}
      PROVE  Handled(q)'
  <2>1. Handled(q)
    BY DEF RunInv
  <2> QED
    BY <1>1, <1>2, <1>3, <2>1, HandledKept
<1>5. Handled(r)'
  <2>1. CASE next = "rejected"
    BY <1>1, <2>1 DEF Handled, Asks, Carries, Covered, Deciding, Reading, Fresh
  <2>2. CASE next # "rejected"
    <3>1. Handled(r) /\ session[r].line = 1
      BY <1>1 DEF RunInv, Handled, Carries
    <3>2. \A p \in Parts : Flushed(r)'[p] = None
      BY <1>1, <3>1 DEF Handled, Carries, Flushed, Fresh
    <3>3. ASSUME NEW p \in Parts
          PROVE  StockSeenBy(r, p)' = stock'[p] + Share(r, p)' /\ stock[p] \in Int
      <4>1. j.lines \in Seq(Line) /\ stock[p] \in Int
        BY DEF Jobs, TypeInv, TypeOK
      <4>2. AskedBefore(j.lines, p, 1) = 0
        BY <4>1, AskedFirst
      <4>3. Share(r, p)' = 0
        BY <1>1, <3>1, <4>2 DEF Share
      <4>4. StockSeenBy(r, p)' = stock'[p]
        BY <3>2 DEF StockSeenBy
      <4> QED
        BY <1>1, <4>1, <4>3, <4>4
    <3>4. live \subseteq Parts /\ j.lines \in Seq(Line)
      BY DEF Jobs, TypeInv, TypeOK
    <3>5. next = "reloadPart" => \A p \in (live' \cap Footprint(j)) \ contended' :
                                   session'[r].held = stock'[p] + j.lines[1].qty
      <4> SUFFICES ASSUME next = "reloadPart", NEW p \in (live' \cap Footprint(j)) \ contended'
                   PROVE  session'[r].held = stock'[p] + j.lines[1].qty
        OBVIOUS
      <4>1. PartsOf(j.lines) = {j.lines[1].part}
        BY <3>4, AskedOfOne
      <4>2. j.op \in {"adjust", "edit"}
        BY <1>1 DEF Asks
      <4> QED
        BY <1>1, <4>1, <4>2 DEF Footprint
    <3>6. Carries(r)'
      <4>1. /\ pc'[r] # "idle" /\ pc'[r] # "savePart" /\ job'[r] = j
            /\ live' \subseteq Parts
        BY <1>1, <3>4
      <4> QED
        BY <1>1, <3>2, <3>3, <3>5, <4>1 DEF Carries
    <3>7. Covered(r)'
      <4>1. \A i \in DOMAIN j.lines : ~(i < 1)
        BY <3>4
      <4> QED
        BY <1>1, <3>1, <4>1 DEF Covered
    <3> QED
      BY <2>2, <3>6, <3>7 DEF Handled
  <2> QED
    BY <2>1, <2>2
<1>6. Exclusive'
  <2>1. ASSUME NEW q \in Requests \ {r}, pc[q] \in Reading, next \in Reading,
               NEW x \in Footprint(j), x \in Footprint(job[q])
        PROVE  x \in contended'
    <3>1. next # "rejected"
      BY <2>1 DEF Reading
    <3>2. x \in Overlap(r, j)
      BY <2>1 DEF Overlap
    <3> QED
      BY <3>1, <3>2 DEF Start
  <2> QED
    BY <1>1, <2>1 DEF RunInv, Exclusive
<1>7. UsedPartsLive'
  BY <1>1, <1>3 DEF RunInv, UsedPartsLive
<1>8. CommittedPast'
  BY <1>1, <1>2 DEF RunInv, CommittedPast, TypeInv, TypeOK
<1> QED
  BY <1>4, <1>5, <1>6, <1>7, <1>8 DEF RunInv

\* The arrival of each kind of request.
LEMMA ArriveRun ==
  ASSUME TypeInv, HistoryInv, RunInv, NEW r \in Requests, Arrive(r)
  PROVE  RunInv'
<1>1. TypeOK /\ r \in OrderIds /\ session[r] \in Sessions /\ (\A o \in OrderIds : Lines(o) \in Seq(Line))
  BY SessionType, LinesType DEF TypeInv, OrderIds
<1>2. ASSUME NEW o \in OrderIds, NEW new \in Statuses, Load(r, o, new) \/ UNCHANGED session
      PROVE  /\ \A q \in Requests \ {r} : session'[q] = session[q]
             /\ session'[r].line = session[r].line /\ session'[r].dirty = session[r].dirty
             /\ session'[r].flushed = session[r].flushed
  BY <1>1, <1>2 DEF Load, Sessions, TypeOK
<1>3. ASSUME NEW held, session' \in {session, [session EXCEPT ![r].held = held]}
      PROVE  /\ \A q \in Requests \ {r} : session'[q] = session[q]
             /\ session'[r].line = session[r].line /\ session'[r].dirty = session[r].dirty
             /\ session'[r].flushed = session[r].flushed
  BY <1>1, <1>3 DEF Sessions, TypeOK
<1>4. ASSUME NEW j, NEW next, Start(r, j, next)
      PROVE  job'[r] = j /\ pc'[r] = next /\ UNCHANGED opened /\ pc[r] = "idle"
             /\ (\A q \in Requests \ {r} : job'[q] = job[q])
  BY <1>1, <1>4 DEF Start, TypeOK, database
<1>5. CASE OpenServiceOrder(r)
  <2>1. PICK lines \in OpenLines, next \in {"check", "rejected"} :
          Start(r, Job("open", r, "RECEBIDA", lines), next) /\ UNCHANGED <<session, counted>>
    BY <1>5 DEF OpenServiceOrder
  <2> DEFINE j == Job("open", r, "RECEBIDA", lines)
  <2>2. j \in Jobs
    BY <1>1, OrderJob, InputsAssumption DEF Statuses
  <2>3. j.op = "open" /\ j.lines = lines
    BY DEF Job
  <2> HIDE DEF j
  <2>4. Start(r, j, next)
    BY <2>1 DEF j
  <2>5. next # "rejected" => Asks(r)'
    BY <1>4, <2>3, <2>4 DEF Asks, Deciding
  <2> QED
    BY <2>1, <2>2, <2>4, <2>5, StartRun
<1>6. CASE UpdateStatus(r)
  <2>1. PICK o \in OrderIds, new \in Statuses, next \in {"reloadOrder", "rejected"} :
          /\ Start(r, Job("update", o, new, <<>>), next)
          /\ Load(r, o, new) \/ UNCHANGED session
    BY <1>6 DEF UpdateStatus
  <2> DEFINE j == Job("update", o, new, <<>>)
  <2>2. j \in Jobs
    <3>1. <<>> \in Seq(Line)
      OBVIOUS
    <3> QED
      BY <3>1, OrderJob
  <2>3. j.op = "update" /\ j.lines = <<>>
    BY DEF Job
  <2> HIDE DEF j
  <2>4. Start(r, j, next)
    BY <2>1 DEF j
  <2>5. next # "rejected" => Asks(r)'
    BY <1>4, <2>3, <2>4 DEF Asks, Deciding
  <2> QED
    BY <1>2, <2>1, <2>2, <2>4, <2>5, StartRun
<1>7. CASE ApproveBudget(r)
  <2>1. PICK o \in OrderIds, new \in Statuses, lines \in Seq(Line), next \in {"return", "reloadOrder", "rejected"} :
          /\ Start(r, Job("approve", o, new, lines), next)
          /\ Load(r, o, new) \/ UNCHANGED session
          /\ next = "reloadOrder" => lines = <<>>
          /\ next = "return" => new = "ORCAMENTO_RECUSADO" /\ lines = Lines(o) /\ o \in opened
    <3>1. <<>> \in Seq(Line) /\ {"EM_EXECUCAO", "ORCAMENTO_RECUSADO"} \subseteq Statuses
      BY DEF Statuses
    <3>2. PICK o \in OrderIds, approved \in BOOLEAN :
            LET new == IF approved THEN "EM_EXECUCAO" ELSE "ORCAMENTO_RECUSADO" IN
            IF CanTransition(o, new)
              THEN /\ Start(r, Job("approve", o, new, IF approved THEN <<>> ELSE Lines(o)),
                            IF approved THEN "reloadOrder" ELSE "return")
                   /\ Load(r, o, new)
              ELSE Start(r, Job("approve", o, new, <<>>), "rejected") /\ UNCHANGED session
      BY <1>7 DEF ApproveBudget
    <3>3. CASE approved /\ CanTransition(o, "EM_EXECUCAO")
      <4>1. Start(r, Job("approve", o, "EM_EXECUCAO", <<>>), "reloadOrder") /\ Load(r, o, "EM_EXECUCAO")
        BY <3>2, <3>3
      <4> QED
        BY <3>1, <4>1
    <3>4. CASE ~approved /\ CanTransition(o, "ORCAMENTO_RECUSADO")
      <4>1. /\ Start(r, Job("approve", o, "ORCAMENTO_RECUSADO", Lines(o)), "return")
            /\ Load(r, o, "ORCAMENTO_RECUSADO")
        BY <3>2, <3>4
      <4> QED
        BY <1>1, <3>1, <3>4, <4>1 DEF CanTransition
    <3>5. ASSUME NEW new \in Statuses, Start(r, Job("approve", o, new, <<>>), "rejected"), UNCHANGED session
          PROVE  \E x \in OrderIds, new1 \in Statuses, lines \in Seq(Line), next \in {"return", "reloadOrder", "rejected"} :
                   /\ Start(r, Job("approve", x, new1, lines), next)
                   /\ Load(r, x, new1) \/ UNCHANGED session
                   /\ next = "reloadOrder" => lines = <<>>
                   /\ next = "return" => new1 = "ORCAMENTO_RECUSADO" /\ lines = Lines(x) /\ x \in opened
      BY <3>1, <3>5
    <3> QED
      BY <3>1, <3>2, <3>3, <3>4, <3>5
  <2> DEFINE j == Job("approve", o, new, lines)
  <2>2. j \in Jobs
    BY OrderJob
  <2>3. j.op = "approve" /\ j.lines = lines /\ j.target = new /\ j.order = o
    BY DEF Job
  <2> HIDE DEF j
  <2>4. Start(r, j, next)
    BY <2>1 DEF j
  <2>5. next = "return" => Lines(o)' = Lines(o)
    BY <1>4, <2>1, <2>4 DEF HistoryInv, UnderwayAt, Lines
  <2>6. next # "rejected" => Asks(r)'
    BY <1>4, <2>1, <2>3, <2>4, <2>5 DEF Asks, Deciding
  <2> QED
    BY <1>2, <2>1, <2>2, <2>4, <2>6, StartRun
<1>8. CASE AdjustPartStock(r)
  <2>1. PICK p \in Parts, d \in Deltas, next \in {"reloadPart", "rejected"} :
          /\ Start(r, Job("adjust", None, "RECEBIDA", <<[part |-> p, qty |-> d]>>), next)
          /\ IF next = "rejected" THEN UNCHANGED session
             ELSE stock[p] + d >= 0 /\ session' = [session EXCEPT ![r].held = stock[p] + d]
    BY <1>8 DEF AdjustPartStock
  <2> DEFINE l == [part |-> p, qty |-> d]
             j == Job("adjust", None, "RECEBIDA", <<l>>)
  <2>2. j \in Jobs /\ j.op = "adjust" /\ Len(j.lines) = 1 /\ d \in Int
    BY PartJob, InputsAssumption
  <2>3. j.lines[1].part = p /\ j.lines[1].qty = d
    BY DEF Job
  <2> HIDE DEF j, l
  <2>4. Start(r, j, next)
    BY <2>1 DEF j, l
  <2>5. next = "reloadPart" => session'[r].held = stock[p] + d /\ session'[r].held >= 0
    BY <1>1, <2>1 DEF Sessions, TypeOK
  <2>6. next # "rejected" => Asks(r)'
    BY <1>4, <2>2, <2>3, <2>4, <2>5 DEF Asks, Deciding
  <2>7. session' \in {session, [session EXCEPT ![r].held = stock[p] + d]}
    BY <2>1
  <2>8. /\ \A q \in Requests \ {r} : session'[q] = session[q]
        /\ session'[r].line = session[r].line /\ session'[r].dirty = session[r].dirty
        /\ session'[r].flushed = session[r].flushed
    BY <1>3, <2>7
  <2> QED
    BY <2>2, <2>3, <2>4, <2>5, <2>6, <2>8, StartRun
<1>9. CASE UpdatePart(r)
  <2>1. PICK p \in Parts, next \in {"reloadPart", "rejected"} :
          /\ Start(r, Job("edit", None, "RECEBIDA", <<[part |-> p, qty |-> 0]>>), next)
          /\ IF next = "rejected" THEN UNCHANGED session
             ELSE session' = [session EXCEPT ![r].held = stock[p]]
    BY <1>9 DEF UpdatePart
  <2> DEFINE l == [part |-> p, qty |-> 0]
             j == Job("edit", None, "RECEBIDA", <<l>>)
  <2>2. j \in Jobs /\ j.op = "edit" /\ Len(j.lines) = 1 /\ stock[p] \in Int
    BY <1>1, PartJob DEF TypeOK
  <2>3. j.lines[1].part = p /\ j.lines[1].qty = 0
    BY DEF Job
  <2> HIDE DEF j, l
  <2>4. Start(r, j, next)
    BY <2>1 DEF j, l
  <2>5. next = "reloadPart" => session'[r].held = stock[p] + 0
    BY <1>1, <2>1, <2>2 DEF Sessions, TypeOK
  <2>6. next # "rejected" => Asks(r)'
    BY <1>4, <2>2, <2>3, <2>4 DEF Asks, Deciding
  <2>7. session' \in {session, [session EXCEPT ![r].held = stock[p]]}
    BY <2>1
  <2>8. /\ \A q \in Requests \ {r} : session'[q] = session[q]
        /\ session'[r].line = session[r].line /\ session'[r].dirty = session[r].dirty
        /\ session'[r].flushed = session[r].flushed
    BY <1>3, <2>7
  <2> QED
    BY <2>2, <2>3, <2>4, <2>5, <2>6, <2>8, StartRun
<1>10. CASE DeletePart(r)
  <2>1. PICK p \in Parts, next \in {"reloadDelete", "rejected"} :
          Start(r, Job("delete", None, "RECEBIDA", <<[part |-> p, qty |-> 0]>>), next) /\ UNCHANGED session
    BY <1>10 DEF DeletePart
  <2> DEFINE j == Job("delete", None, "RECEBIDA", <<[part |-> p, qty |-> 0]>>)
  <2>2. j \in Jobs /\ j.op = "delete"
    BY PartJob
  <2> HIDE DEF j
  <2>3. Start(r, j, next)
    BY <2>1 DEF j
  <2>4. next # "rejected" => Asks(r)'
    BY <1>4, <2>2, <2>3 DEF Asks, Deciding
  <2> QED
    BY <2>1, <2>2, <2>3, <2>4, StartRun
<1> QED
  BY <1>5, <1>6, <1>7, <1>8, <1>9, <1>10 DEF Arrive

\* Assigning `new' to part p of the session changes what the session sees of p only, also
\* when it is what the session saw and nothing becomes pending.
LEMMA PendingSeen ==
  ASSUME TypeInv, NEW r \in Requests, NEW p \in Parts, NEW new \in Int, UNCHANGED stock,
         session'[r].flushed = Flushed(r), session'[r].dirty = Pending(p, StockSeenBy(r, p), new)
  PROVE  /\ \A q \in Parts : StockSeenBy(r, q)' = IF q = p THEN new ELSE StockSeenBy(r, q)
         /\ \A q \in Parts \ {p} : Flushed(r)'[q] = Flushed(r)[q]
<1>1. Flushed(r) \in [Parts -> Int \cup {None}] /\ new # None
  BY SessionType, RequestsAssumption DEF TypeInv
<1>2. CASE new = StockSeenBy(r, p)
  <2>1. Flushed(r)' = Flushed(r)
    BY <1>2 DEF Flushed, Pending
  <2> QED
    BY <1>2, <2>1 DEF StockSeenBy
<1>3. CASE new # StockSeenBy(r, p)
  <2>1. session'[r].dirty = [part |-> p, value |-> new]
    BY <1>3 DEF Pending
  <2>2. session'[r].dirty # None
    BY <2>1, RequestsAssumption
  <2>3. Flushed(r)' = [Flushed(r) EXCEPT ![p] = new]
    BY <2>1, <2>2 DEF Flushed
  <2> QED
    BY <1>1, <2>3 DEF StockSeenBy
<1> QED
  BY <1>2, <1>3

\* One turn of the loop that takes or returns a line, on a part that exists or not.
LEMMA AssignRun ==
  ASSUME TypeInv, HistoryInv, RunInv, NEW r \in Requests, DecrementStock(r) \/ IncrementStock(r)
  PROVE  RunInv'
<1> DEFINE s     == session[r]
           lines == job[r].lines
           l     == lines[s.line]
           old   == StockSeenBy(r, l.part)
<1>1. /\ TypeOK /\ s \in Sessions /\ lines \in Seq(Line) /\ live \subseteq Parts
      /\ \A p \in Parts : StockSeenBy(r, p) \in Int /\ stock[p] \in Int
  BY JobLines, SessionType DEF TypeInv, TypeOK
<1>2. /\ pc[r] \in {"take", "return"} /\ Handled(r) /\ UNCHANGED <<job, stock, live, contended, row>>
      /\ s.line \in 1 .. Len(lines) /\ pc'[r] = pc[r]
  BY <1>1 DEF DecrementStock, IncrementStock, AssignStock, Continue, RunInv, database, history, Sessions, TypeOK
<1>3. PICK sign \in {-1, 1} : /\ AssignStock(r, sign)
                             /\ sign = IF pc[r] = "take" THEN -1 ELSE 1
  BY DEF DecrementStock, IncrementStock
<1>4. l \in Line /\ l.part \in Parts /\ l.qty \in Int /\ l.part \in PartsOf(lines)
  BY <1>1, <1>2, LineType DEF PartsOf
<1> DEFINE new  == old + sign * l.qty
           d    == IF l.part \in live THEN Pending(l.part, old, new) ELSE None
           next == [s EXCEPT !.line = @ + 1, !.flushed = Flushed(r), !.dirty = d]
<1>5. old \in Int /\ new \in Int /\ new = IF pc[r] = "take" THEN old - l.qty ELSE old + l.qty
  BY <1>1, <1>3, <1>4
<1>6. Continue(r, pc[r], next)
  BY <1>3 DEF AssignStock
<1>7. next.line = s.line + 1 /\ next.flushed = Flushed(r) /\ next.dirty = d
  <2> HIDE DEF d
  <2> QED
    BY <1>1 DEF Sessions
<1>8. session'[r] = next
  BY <1>1, <1>6 DEF Continue, TypeOK
<1> HIDE DEF next
<1>9. ASSUME NEW p \in Parts
      PROVE  /\ StockSeenBy(r, p)' = IF p = l.part /\ l.part \in live THEN new ELSE StockSeenBy(r, p)
             /\ p # l.part => Flushed(r)'[p] = Flushed(r)[p]
  <2>1. CASE l.part \in live
    <3>1. session'[r].dirty = Pending(l.part, StockSeenBy(r, l.part), new)
      BY <1>7, <1>8, <2>1
    <3> HIDE DEF new, l
    <3> QED
      BY <1>2, <1>4, <1>5, <1>7, <1>8, <2>1, <3>1, PendingSeen
  <2>2. CASE l.part \notin live
    <3>1. Flushed(r)' = Flushed(r)
      BY <1>7, <1>8, <2>2 DEF Flushed
    <3> QED
      BY <1>2, <2>2, <3>1 DEF StockSeenBy
  <2> QED
    BY <2>1, <2>2
<1>10. ASSUME NEW p \in (live \cap Footprint(job[r])) \ contended
       PROVE  StockSeenBy(r, p)' = stock[p] + Share(r, p)'
  <2>1. p \in Parts /\ StockSeenBy(r, p) = stock[p] + Share(r, p)
    BY <1>1, <1>2, <1>10 DEF Handled, Carries, Reading
  <2>2. AskedBefore(lines, p, s.line + 1) = AskedBefore(lines, p, s.line) + (IF l.part = p THEN l.qty ELSE 0)
    BY <1>1, <1>2, AskedNext
  <2>3. AskedBefore(lines, p, s.line) \in Int
    BY <1>1, AskedType
  <2>4. Share(r, p) = IF pc[r] = "take" THEN -AskedBefore(lines, p, s.line) ELSE AskedBefore(lines, p, s.line)
    BY <1>2 DEF Share
  <2>5. Share(r, p)' = IF pc[r] = "take" THEN -AskedBefore(lines, p, s.line + 1) ELSE AskedBefore(lines, p, s.line + 1)
    BY <1>2, <1>7, <1>8 DEF Share
  <2>6. StockSeenBy(r, p)' = IF p = l.part THEN new ELSE StockSeenBy(r, p)
    BY <1>9, <1>10, <2>1
  <2> DEFINE before == AskedBefore(lines, p, s.line)
             after  == AskedBefore(lines, p, s.line + 1)
             part   == l.part
             qty    == l.qty
             have   == stock[p]
  <2>7. /\ before \in Int /\ have \in Int /\ qty \in Int
        /\ after = before + (IF part = p THEN qty ELSE 0)
        /\ Share(r, p)' = IF pc[r] = "take" THEN -after ELSE after
        /\ StockSeenBy(r, p) = have + (IF pc[r] = "take" THEN -before ELSE before)
        /\ part = p => new = IF pc[r] = "take" THEN StockSeenBy(r, p) - qty ELSE StockSeenBy(r, p) + qty
        /\ StockSeenBy(r, p)' = IF p = part THEN new ELSE StockSeenBy(r, p)
    BY <1>1, <1>4, <1>5, <2>1, <2>2, <2>3, <2>4, <2>5, <2>6
  <2> HIDE DEF before, after, part, qty, have, new
  <2>8. StockSeenBy(r, p)' = have + Share(r, p)'
    BY <2>7
  <2> QED
    BY <2>8 DEF have
<1>11. Carries(r)'
  <2>1. l.part \in Footprint(job[r])
    BY <1>2, <1>4 DEF Footprint, Handled, Asks, Deciding
  <2>2. \A p \in Parts \ Footprint(job[r]) : Flushed(r)'[p] = None
    BY <1>2, <1>9, <2>1 DEF Handled, Carries, Reading
  <2> HIDE DEF l
  <2> QED
    BY <1>2, <1>10, <2>2 DEF Carries, Fresh
<1>12. Asks(r)' /\ Covered(r)'
  BY <1>2 DEF Handled, Asks, Covered, Deciding, Lines
<1> QED
  BY <1>2, <1>6, <1>11, <1>12, ContinueRun DEF Handled, Reading

\* The loop that tests the lines, and the count after it: nothing is written.
LEMMA TestRun ==
  ASSUME TypeInv, HistoryInv, RunInv, NEW r \in Requests, CheckPart(r) \/ CountOrders(r)
  PROVE  RunInv'
<1> DEFINE s     == session[r]
           lines == job[r].lines
<1>1. TypeOK /\ s \in Sessions /\ lines \in Seq(Line) /\ pc[r] = "check" /\ Handled(r)
  BY JobLines, SessionType DEF TypeInv, RunInv, CheckPart, CountOrders
<1>2. ASSUME NEW next \in {"check", "take"}, NEW n \in {s.line + 1, 1}, Continue(r, next, [s EXCEPT !.line = n]),
             next = "take" => n = 1,
             Covered(r)'
      PROVE  RunInv'
  <2>1. /\ pc'[r] = next /\ session'[r].line = n /\ session'[r].flushed = s.flushed
        /\ session'[r].dirty = s.dirty /\ UNCHANGED <<job, stock, live, contended>>
    BY <1>1, <1>2 DEF Continue, TypeOK, Sessions, database, history
  <2>2. \A p \in Parts : Flushed(r)'[p] = None
    BY <1>1, <2>1 DEF Handled, Carries, Fresh, Flushed
  <2>3. ASSUME NEW p \in Parts
        PROVE  StockSeenBy(r, p)' = stock[p] + Share(r, p)'
    <3>1. StockSeenBy(r, p)' = stock[p] /\ stock[p] \in Int
      BY <1>1, <2>1, <2>2 DEF StockSeenBy, TypeOK
    <3>2. AskedBefore(lines, p, 1) = 0
      BY <1>1, AskedFirst
    <3>3. Share(r, p)' = 0
      BY <1>2, <2>1, <3>2 DEF Share
    <3> QED
      BY <3>1, <3>3
  <2>4. Carries(r)'
    BY <1>1, <2>1, <2>2, <2>3 DEF Carries, TypeOK
  <2>5. Asks(r)'
    BY <1>1, <2>1 DEF Handled, Asks, Deciding
  <2> QED
    BY <1>1, <1>2, <2>4, <2>5, ContinueRun DEF Handled, Reading
<1>3. CASE CheckPart(r)
  <2>1. CASE Rollback(r, "rejected")
    BY <2>1, RollbackRun DEF Ended
  <2>2. CASE /\ lines[s.line].part \in live /\ stock[lines[s.line].part] >= lines[s.line].qty
             /\ s.line <= Len(lines) /\ Continue(r, "check", [s EXCEPT !.line = @ + 1])
    <3>1. s.line \in 1 .. Len(lines)
      BY <1>1, <2>2 DEF Sessions
    <3>2. pc'[r] = "check" /\ session'[r].line = s.line + 1 /\ UNCHANGED <<job, stock, live, contended>>
      BY <1>1, <2>2 DEF Continue, TypeOK, Sessions, database, history
    <3>3. ASSUME NEW i \in DOMAIN lines, lines[i].part \in live \ contended, i < s.line + 1
          PROVE  lines[i].qty <= stock[lines[i].part]
      <4>1. i \in 1 .. Len(lines) /\ lines[i].part \in Parts /\ lines[i].qty \in Int
        BY <1>1, <3>3, LineType
      <4>2. CASE i = s.line
        BY <1>1, <2>2, <4>1, <4>2 DEF TypeOK
      <4>3. CASE i < s.line
        BY <1>1, <3>3, <4>3 DEF Handled, Covered
      <4> QED
        BY <3>1, <3>3, <4>1, <4>2, <4>3
    <3>4. Covered(r)'
      BY <3>2, <3>3 DEF Covered
    <3> QED
      BY <1>2, <2>2, <3>4
  <2> QED
    BY <1>3, <2>1, <2>2 DEF CheckPart
<1>4. CASE CountOrders(r)
  <2>1. s.line > Len(lines) /\ Continue(r, "take", [s EXCEPT !.line = 1])
    BY <1>4 DEF CountOrders
  <2>2. pc'[r] = "take" /\ UNCHANGED <<job, stock, live, contended>>
    BY <1>1, <2>1 DEF Continue, TypeOK, database, history
  <2>3. \A i \in DOMAIN lines : i < s.line
    BY <1>1, <2>1 DEF Sessions
  <2>4. Covered(r)'
    BY <1>1, <2>2, <2>3 DEF Handled, Covered
  <2> QED
    BY <1>2, <2>1, <2>4
<1> QED
  BY <1>3, <1>4

\* The second SELECT of an order: it flushes the last returned line, and moves no stock.
LEMMA ReloadOrderRun ==
  ASSUME TypeInv, HistoryInv, RunInv, NEW r \in Requests, ReloadOrder(r)
  PROVE  RunInv'
<1> DEFINE s     == session[r]
           lines == job[r].lines
           c     == Differ(s.entity, row[job[r].order])
           next  == [s EXCEPT !.flushed = Flushed(r), !.dirty = None, !.changed = c]
<1>1. TypeOK /\ s \in Sessions /\ lines \in Seq(Line) /\ Handled(r)
  BY JobLines, SessionType DEF TypeInv, RunInv
<1>2. pc[r] = "reloadOrder" \/ (pc[r] = "return" /\ s.line > Len(lines))
  BY DEF ReloadOrder
<1>3. next.line = s.line /\ next.flushed = Flushed(r) /\ next.dirty = None
  <2> HIDE DEF c
  <2> QED
    BY <1>1 DEF Sessions
<1>4. Continue(r, "saveOrder", next)
  BY DEF ReloadOrder
<1> HIDE DEF next
<1>11. /\ pc'[r] = "saveOrder" /\ session'[r] = next
       /\ UNCHANGED <<job, stock, live, contended, row>>
  BY <1>1, <1>4 DEF Continue, TypeOK, database, history
<1>5. Flushed(r)' = Flushed(r)
  BY <1>3, <1>11 DEF Flushed
<1>6. s.line > Len(lines)
  <2>1. CASE pc[r] = "reloadOrder"
    <3>1. lines = <<>> /\ s.line \in Nat \ {0}
      BY <1>1, <2>1 DEF Handled, Asks, Sessions
    <3> QED
      BY <3>1
  <2> QED
    BY <1>2, <2>1
<1>7. Asks(r)' /\ Covered(r)'
  BY <1>1, <1>2, <1>3, <1>11, <1>6 DEF Handled, Asks, Covered, Deciding, Lines
<1>8. \A p : Share(r, p)' = AskedBefore(lines, p, s.line)
  BY <1>3, <1>11 DEF Share
<1>9. ASSUME NEW p \in Parts, p \in Footprint(job[r]) /\ p \in live /\ p \notin contended
      PROVE  StockSeenBy(r, p)' = stock[p] + Share(r, p)'
  <2>1. StockSeenBy(r, p) = stock[p] + Share(r, p)
    BY <1>1, <1>2, <1>9 DEF Handled, Carries, Reading
  <2>2. StockSeenBy(r, p)' = StockSeenBy(r, p)
    BY <1>11, <1>5 DEF StockSeenBy
  <2>3. CASE pc[r] = "return"
    BY <1>8, <2>1, <2>2, <2>3 DEF Share
  <2>4. CASE pc[r] = "reloadOrder"
    <3>1. p \notin PartsOf(lines)
      BY <1>1, <2>4 DEF Handled, Asks, PartsOf
    <3>2. Share(r, p) = 0 /\ AskedBefore(lines, p, s.line) = 0
      BY <1>1, <3>1, AskedOfNone, ShareType
    <3> QED
      BY <1>8, <2>1, <2>2, <3>2
  <2> QED
    BY <1>2, <2>3, <2>4
<1>10. Carries(r)'
  <2>1. \A p \in Parts \ Footprint(job[r]) : Flushed(r)[p] = None
    BY <1>1, <1>2 DEF Handled, Carries, Reading
  <2> QED
    BY <1>1, <1>11, <1>5, <1>9, <2>1 DEF Carries, Fresh, TypeOK
<1> QED
  BY <1>2, <1>4, <1>7, <1>10, ContinueRun DEF Handled, Reading

\* The second SELECT of a part: what is then assigned is the sum or the value computed from
\* the first, which is still the stock unless an overlapping request shared the part.
LEMMA ReloadPartRun ==
  ASSUME TypeInv, HistoryInv, RunInv, NEW r \in Requests, ReloadPart(r) \/ ReloadDelete(r)
  PROVE  RunInv'
<1> DEFINE s == session[r]
<1>1. TypeOK /\ s \in Sessions /\ Handled(r) /\ job[r].lines \in Seq(Line) /\ Len(job[r].lines) = 1
  BY JobLines, SessionType DEF TypeInv, RunInv, ReloadPart, ReloadDelete, JobsFit, PartStages
<1>2. PICK p \in Parts : /\ p = job[r].lines[1].part /\ PartsOf(job[r].lines) = {p}
                        /\ Asked(job[r].lines, p) = job[r].lines[1].qty
  BY <1>1, LineType, AskedOfOne
<1>3. CASE Rollback(r, "failed") \/ Rollback(r, "ok")
  BY <1>3, RollbackRun DEF Ended
<1> DEFINE next == [s EXCEPT !.dirty = Pending(p, stock[p], s.held)]
<1>4. CASE ReloadPart(r) /\ Continue(r, "savePart", next)
  <2>1. next.flushed = s.flushed /\ next.held = s.held /\ next.dirty = Pending(p, stock[p], s.held)
        /\ next.line = s.line
    <3> DEFINE d == Pending(p, stock[p], s.held)
    <3> HIDE DEF d
    <3>1. [s EXCEPT !.dirty = d].flushed = s.flushed /\ [s EXCEPT !.dirty = d].held = s.held
          /\ [s EXCEPT !.dirty = d].dirty = d /\ [s EXCEPT !.dirty = d].line = s.line
      BY <1>1 DEF Sessions
    <3> QED
      BY <3>1 DEF d
  <2> HIDE DEF next
  <2>2. /\ pc[r] = "reloadPart" /\ pc'[r] = "savePart" /\ session'[r] = next
        /\ UNCHANGED <<job, stock, live, contended, row>>
    BY <1>1, <1>4 DEF ReloadPart, Continue, TypeOK, database, history
  <2>3. s.dirty = None /\ Flushed(r) = s.flushed /\ \A x \in Parts : StockSeenBy(r, x) = stock[x] /\ Flushed(r)[x] = None
    <3>1. \A x \in Parts : Flushed(r)[x] = None
      BY <1>1, <2>2 DEF Handled, Carries, Fresh
    <3>2. s.dirty = None
      <4> SUFFICES ASSUME s.dirty # None
                   PROVE  FALSE
        OBVIOUS
      <4>1. s.dirty.part \in Parts /\ s.dirty.value \in Int
        BY <1>1 DEF Sessions
      <4>2. Flushed(r)[s.dirty.part] = s.dirty.value
        BY <1>1, <4>1 DEF Flushed, Sessions
      <4> QED
        BY <3>1, <4>1, <4>2, RequestsAssumption
    <3> QED
      BY <3>1, <3>2 DEF Flushed, StockSeenBy
  <2>4. s.held \in Int
    BY <1>1 DEF Sessions
  <2>5. session'[r].flushed = Flushed(r) /\ session'[r].dirty = Pending(p, StockSeenBy(r, p), s.held)
    BY <1>2, <2>1, <2>2, <2>3
  <2>6. /\ \A x \in Parts : StockSeenBy(r, x)' = IF x = p THEN s.held ELSE stock[x]
        /\ \A x \in Parts \ {p} : Flushed(r)'[x] = None
    <3> QED
      BY <1>2, <2>2, <2>3, <2>4, <2>5, PendingSeen
  <2>7. Footprint(job[r]) = {p}
    BY <1>1, <1>2, <2>2 DEF Handled, Asks, Footprint
  <2>8. Share(r, p)' = job[r].lines[1].qty
    BY <1>2, <2>2 DEF Share
  <2>9. p \in live \ contended => s.held = stock[p] + job[r].lines[1].qty
    BY <1>1, <2>2, <2>7 DEF Handled, Carries, Reading
  <2>10. Carries(r)'
    <3>1. \A x \in (live' \cap Footprint(job[r])) \ contended' :
             /\ StockSeenBy(r, x)' = stock[x] + Share(r, x)'
             /\ session'[r].held = stock[x] + job[r].lines[1].qty
      <4> SUFFICES ASSUME p \in live \ contended
                   PROVE  /\ StockSeenBy(r, p)' = stock[p] + Share(r, p)'
                          /\ session'[r].held = stock[p] + job[r].lines[1].qty
        BY <2>2, <2>7
      <4>1. StockSeenBy(r, p)' = s.held
        BY <1>2, <2>6
      <4> QED
        BY <2>1, <2>2, <2>8, <2>9, <4>1
    <3> QED
      BY <2>2, <2>6, <2>7, <3>1 DEF Carries, Fresh
  <2>11. Asks(r)' /\ Covered(r)'
    BY <1>1, <2>1, <2>2 DEF Handled, Asks, Covered, Deciding
  <2> QED
    BY <1>4, <2>2, <2>10, <2>11, ContinueRun DEF Handled, Reading
<1>5. CASE ReloadDelete(r) /\ Continue(r, "erase", s)
  <2>1. /\ pc[r] = "reloadDelete" /\ pc'[r] = "erase" /\ session'[r] = s
        /\ UNCHANGED <<job, stock, live, contended, row>>
    BY <1>1, <1>5 DEF ReloadDelete, Continue, TypeOK, database, history
  <2>2. Flushed(r)' = Flushed(r)
    BY <2>1 DEF Flushed
  <2>3. Handled(r)'
    BY <1>1, <2>1, <2>2 DEF Handled, Asks, Carries, Covered, Deciding, Fresh, Reading, StockSeenBy, Share
  <2> QED
    BY <1>5, <2>1, <2>3, ContinueRun DEF Reading
<1> QED
  BY <1>2, <1>3, <1>4, <1>5 DEF ReloadPart, ReloadDelete

\* What each commit does to the catalogue: the used parts stay, for an opening inserts
\* only parts that exist and a deletion spares those an order names.
LEMMA CommitStepRun ==
  ASSUME TypeInv, HistoryInv, RunInv, NEW r \in Requests,
         CommitOpen(r) \/ CommitOrder(r) \/ CommitPart(r) \/ CommitDelete(r)
  PROVE  RunInv'
<1>1. \A o : UNCHANGED job => Lines(o)' = Lines(o)
  BY DEF Lines
<1>2. ASSUME NEW outcome \in Ended, Rollback(r, outcome)
      PROVE  RunInv'
  BY <1>2, RollbackRun
<1>3. ASSUME NEW next \in Replying \cup Ended, Commit(r, next), Due(r), UNCHANGED <<opened, live>>
      PROVE  RunInv'
  <2>1. UsedPartsLive'
    BY <1>1, <1>3 DEF RunInv, UsedPartsLive, Commit
  <2> QED
    BY <1>3, <2>1, CommitRun
<1>4. CASE CommitOpen(r)
  <2>1. /\ Commit(r, "respond") /\ Due(r) /\ opened' = opened \cup {r} /\ UNCHANGED live
        /\ PartsOf(job[r].lines) \subseteq live
    BY <1>4 DEF CommitOpen, Due, Insertable, PartsExist
  <2>2. UsedPartsLive'
    BY <1>1, <2>1 DEF RunInv, UsedPartsLive, Commit, Lines
  <2> QED
    BY <2>1, <2>2, CommitRun DEF Replying
<1>5. CASE CommitOrder(r)
  BY <1>3, <1>5 DEF CommitOrder, Due, Replying
<1>6. CASE CommitPart(r)
  BY <1>2, <1>3, <1>6 DEF CommitPart, Due, Replying, Ended
<1>7. CASE CommitDelete(r)
  <2>1. CASE Rollback(r, "failed")
    BY <1>2, <2>1 DEF Ended
  <2>2. CASE /\ pc[r] = "erase" /\ Commit(r, "ok") /\ live' = live \ {job[r].lines[1].part} /\ UNCHANGED opened
             /\ \A o \in opened : job[r].lines[1].part \notin PartsOf(Lines(o))
    <3>1. UsedPartsLive'
      BY <1>1, <2>2 DEF RunInv, UsedPartsLive, Commit
    <3> QED
      BY <2>2, <3>1, CommitRun DEF Due, Ended
  <2> QED
    BY <1>7, <2>1, <2>2 DEF CommitDelete
<1> QED
  BY <1>4, <1>5, <1>6, <1>7

\* What follows a commit touches no row.
LEMMA ReplyRun ==
  ASSUME TypeInv, HistoryInv, RunInv, NEW r \in Requests,
         RespondOpened(r) \/ NotifyStatusChange(r) \/ RefreshPart(r)
  PROVE  RunInv'
<1>1. /\ pc'[r] \in Ended /\ UNCHANGED <<job, contended, live, stock, opened, committed, session>>
      /\ \A q \in Requests \ {r} : pc'[q] = pc[q]
  BY DEF RespondOpened, NotifyStatusChange, RefreshPart, database, history, effects, Ended, TypeInv, TypeOK
<1>2. pc'[r] \notin Reading \cup {"idle", "check", "take", "return", "reloadOrder", "saveOrder"} \cup Fresh
  BY <1>1 DEF Ended, Reading, Fresh
<1>3. Handled(r)'
  BY <1>2 DEF Handled, Asks, Carries, Covered, Deciding, Reading
<1>4. UsedPartsLive'
  BY <1>1 DEF RunInv, UsedPartsLive, Lines
<1> QED
  BY <1>1, <1>2, <1>3, <1>4, StepRun

\* RunInv is inductive, given the types and the histories.
LEMMA RunStep == TypeInv /\ HistoryInv /\ RunInv /\ [Next]_vars => RunInv'
<1> SUFFICES ASSUME TypeInv, HistoryInv, RunInv, [Next]_vars
             PROVE  RunInv'
  OBVIOUS
<1>1. CASE UNCHANGED vars
  <2>1. \A r \in Requests : Handled(r)
    BY DEF RunInv
  <2>2. \A r \in Requests : Handled(r)'
    BY <1>1, <2>1, HandledKept DEF vars, database, history, Lines
  <2> QED
    BY <1>1, <2>2 DEF RunInv, Exclusive, UsedPartsLive, CommittedPast, vars, database, history, Lines
<1>2. ASSUME NEW r \in Requests, Proceed(r)
      PROVE  RunInv'
  <2>1. CASE InsertFails(r) \/ FlushError(r) \/ DeadlockVictim(r)
    BY <2>1, RollbackRun DEF InsertFails, FlushError, DeadlockVictim, Ended
  <2>2. CASE CheckPart(r) \/ CountOrders(r)
    BY <2>2, TestRun
  <2>3. CASE DecrementStock(r) \/ IncrementStock(r)
    BY <2>3, AssignRun
  <2>4. CASE CommitOpen(r) \/ CommitOrder(r) \/ CommitPart(r) \/ CommitDelete(r)
    BY <2>4, CommitStepRun
  <2>5. CASE RespondOpened(r) \/ NotifyStatusChange(r) \/ RefreshPart(r)
    BY <2>5, ReplyRun
  <2>6. CASE ReloadOrder(r)
    BY <2>6, ReloadOrderRun
  <2>7. CASE ReloadPart(r) \/ ReloadDelete(r)
    BY <2>7, ReloadPartRun
  <2> QED
    BY <1>2, <2>1, <2>2, <2>3, <2>4, <2>5, <2>6, <2>7 DEF Proceed
<1>3. ASSUME NEW r \in Requests, Crash(r)
      PROVE  RunInv'
  BY <1>3, RollbackRun DEF Crash, Ended
<1> QED
  BY <1>1, <1>2, <1>3, ArriveRun DEF Next, AllEnded

-----------------------------------------------------------------------------
(***************************************************************************)
(* What the stock adds up to                                               *)
(***************************************************************************)

\* The stock moves only with a commit, by what the committing session sees.
LEMMA StockMoves ==
  ASSUME TypeInv, HistoryInv, RunInv, [Next]_vars
  PROVE  /\ live' \subseteq live /\ contended \subseteq contended' /\ committed \subseteq Requests
         /\ \/ /\ UNCHANGED <<stock, committed>>
               /\ \A q \in committed : job'[q] = job[q]
            \/ \E r \in Requests : /\ Due(r) /\ r \notin committed /\ committed' = committed \cup {r}
                                  /\ UNCHANGED <<job, contended>>
                                  /\ \A p \in Parts : stock'[p] = StockSeenBy(r, p)
<1> DEFINE Quiet == /\ live' \subseteq live /\ contended \subseteq contended' /\ UNCHANGED <<stock, committed>>
                    /\ \A q \in committed : job'[q] = job[q]
           Moved(r) == /\ Due(r) /\ r \notin committed /\ committed' = committed \cup {r}
                       /\ live' \subseteq live /\ UNCHANGED <<job, contended>>
                       /\ \A p \in Parts : stock'[p] = StockSeenBy(r, p)
<1>0. committed \subseteq Requests /\ TypeOK
  BY DEF TypeInv, TypeOK
<1>1. CASE UNCHANGED vars
  BY <1>0, <1>1 DEF vars, database, history
<1>2. ASSUME NEW r \in Requests, NEW outcome, Rollback(r, outcome)
      PROVE  Quiet
  BY <1>2 DEF Rollback, database, history
<1>3. ASSUME NEW r \in Requests, NEW next, NEW s, Continue(r, next, s)
      PROVE  Quiet
  BY <1>3 DEF Continue, database, history
<1>4. ASSUME NEW r \in Requests, NEW next, Commit(r, next), Due(r), live' \subseteq live
      PROVE  Moved(r)
  BY <1>4 DEF Commit, Due, Reading, RunInv, CommittedPast
<1>5. ASSUME NEW r \in Requests, Arrive(r)
      PROVE  Quiet
  <2>1. PICK j, next : Start(r, j, next)
    BY <1>5 DEF Arrive, OpenServiceOrder, UpdateStatus, ApproveBudget, AdjustPartStock, UpdatePart, DeletePart
  <2>2. r \notin committed
    BY <2>1 DEF Start, RunInv, CommittedPast
  <2> QED
    BY <1>0, <2>1, <2>2 DEF Start, database, TypeOK
<1>6. ASSUME NEW r \in Requests, Proceed(r)
      PROVE  Quiet \/ Moved(r)
  <2>1. CASE CheckPart(r) \/ CountOrders(r) \/ DecrementStock(r) \/ IncrementStock(r) \/ ReloadOrder(r)
    BY <1>2, <1>3, <2>1 DEF CheckPart, CountOrders, DecrementStock, IncrementStock, AssignStock, ReloadOrder
  <2>2. CASE ReloadPart(r) \/ ReloadDelete(r) \/ InsertFails(r) \/ FlushError(r) \/ DeadlockVictim(r)
    BY <1>2, <1>3, <2>2 DEF ReloadPart, ReloadDelete, InsertFails, FlushError, DeadlockVictim
  <2>3. CASE CommitOpen(r) \/ CommitOrder(r)
    BY <1>4, <2>3 DEF CommitOpen, CommitOrder, Due
  <2>4. CASE CommitPart(r) \/ CommitDelete(r)
    BY <1>2, <1>4, <2>4 DEF CommitPart, CommitDelete, Due
  <2>5. CASE RespondOpened(r) \/ NotifyStatusChange(r) \/ RefreshPart(r)
    BY <2>5 DEF RespondOpened, NotifyStatusChange, RefreshPart, database, history
  <2> QED
    BY <1>6, <2>1, <2>2, <2>3, <2>4, <2>5 DEF Proceed
<1>7. ASSUME NEW r \in Requests, Crash(r)
      PROVE  Quiet
  BY <1>2, <1>7 DEF Crash
<1> QED
  BY <1>0, <1>1, <1>5, <1>6, <1>7 DEF Next, AllEnded

\* Before any commit the stock is what it was at the start.
LEMMA AccountInit == Init => StockAccountedFor
<1> SUFFICES ASSUME Init, NEW p \in live \ contended
             PROVE  stock[p] = InitialStock[p] + MapThenSumSet(LAMBDA r : Effect(r, p), committed)
  BY DEF StockAccountedFor
<1>1. committed = {} /\ stock = InitialStock /\ p \in Parts
  BY DEF Init
<1>2. MapThenSumSet(LAMBDA r : Effect(r, p), committed) = 0
  <2>1. committed \subseteq Requests /\ SumFunctionOnSet(EffectsOn(p), committed) = 0
    BY <1>1, SumOfNone
  <2> QED
    BY <2>1, EffectsAreSum
<1> QED
  BY <1>1, <1>2, InputsAssumption

\* A commit adds its own effect to the sum, once.
LEMMA AccountStep ==
  ASSUME TypeInv, HistoryInv, RunInv, StockAccountedFor, [Next]_vars
  PROVE  StockAccountedFor'
<1> SUFFICES ASSUME NEW p \in live' \ contended'
             PROVE  stock'[p] = InitialStock[p] + MapThenSumSet(LAMBDA r : Effect(r, p), committed)'
  BY DEF StockAccountedFor
<1> DEFINE total == SumFunctionOnSet(EffectsOn(p), committed)
<1>1. /\ TypeOK /\ TypeOK' /\ p \in live \ contended /\ p \in Parts /\ stock[p] \in Int /\ InitialStock[p] \in Int
      /\ committed \subseteq Requests /\ committed' \subseteq Requests /\ IsFiniteSet(committed)
  BY StockMoves, TypeStep, RequestsAssumption, InputsAssumption, FS_Subset DEF TypeInv, TypeOK
<1>2. \A r \in Requests : Effect(r, p) \in Int /\ EffectsOn(p)[r] = Effect(r, p)
  BY <1>1, EffectType
<1>3. total \in Int /\ stock[p] = InitialStock[p] + total
  <2>1. \A r \in committed : EffectsOn(p)[r] \in Int
    BY <1>1, <1>2
  <2>2. total \in Int
    BY <1>1, <2>1, SumTakesOut
  <2> QED
    BY <1>1, <2>2, EffectsAreSum DEF StockAccountedFor
<1>4. MapThenSumSet(LAMBDA r : Effect(r, p), committed)' = SumFunctionOnSet(EffectsOn(p)', committed')
  BY <1>1, EffectsAreSumNext
<1>5. CASE UNCHANGED <<stock, committed>> /\ \A q \in committed : job'[q] = job[q]
  <2>1. \A q \in committed : EffectsOn(p)[q] \in Int /\ EffectsOn(p)'[q] = EffectsOn(p)[q]
    <3>1. \A q \in committed : Effect(q, p)' = Effect(q, p)
      BY <1>5 DEF Effect
    <3> QED
      BY <1>1, <1>2, <3>1 DEF EffectsOn
  <2>2. SumFunctionOnSet(EffectsOn(p)', committed) = total
    BY <1>1, <2>1, SumOfEqual
  <2> QED
    BY <1>3, <1>4, <1>5, <2>2
<1>6. ASSUME NEW r \in Requests, Due(r), r \notin committed, committed' = committed \cup {r},
             UNCHANGED job, stock'[p] = StockSeenBy(r, p)
      PROVE  stock'[p] = InitialStock[p] + SumFunctionOnSet(EffectsOn(p)', committed')
  <2>1. EffectsOn(p)' = EffectsOn(p)
    BY <1>6 DEF EffectsOn, Effect
  <2>2. \A q \in committed \cup {r} : EffectsOn(p)[q] \in Int
    BY <1>1, <1>2
  <2>3. SumFunctionOnSet(EffectsOn(p), committed \cup {r}) = EffectsOn(p)[r] + total
    BY <1>1, <1>6, <2>2, SumAddsOne
  <2>4. stock'[p] = stock[p] + Effect(r, p)
    BY <1>1, <1>6, Settled
  <2> HIDE DEF total
  <2> QED
    BY <1>1, <1>2, <1>3, <1>6, <2>1, <2>3, <2>4
<1> QED
  BY <1>1, <1>4, <1>5, <1>6, StockMoves

\* No commit takes a part below zero: each line of an opening is still covered, and an
\* adjustment leaves what its test allowed.
LEMMA CommitCovers ==
  ASSUME TypeInv, RunInv, NEW r \in Requests, Due(r), NEW p \in live \ contended, stock[p] >= 0,
         ~RepeatsPart(job[r].lines, p), job[r].op = "approve" => ~AsksBelowZero(job[r].lines, p)
  PROVE  stock[p] + Effect(r, p) >= 0
<1> DEFINE lines == job[r].lines
<1>1. lines \in Seq(Line) /\ p \in Parts /\ stock[p] \in Int /\ Handled(r)
  BY JobLines DEF TypeInv, TypeOK, RunInv
<1>2. CASE p \notin PartsOf(lines)
  BY <1>1, <1>2, ShareType DEF TypeInv
<1>3. CASE p \in PartsOf(lines)
  <2>1. PICK n \in DOMAIN lines : lines[n].part = p
    BY <1>3 DEF PartsOf
  <2>2. Asked(lines, p) = lines[n].qty /\ lines[n].qty \in Int
    BY <1>1, <2>1, AskedOnce, LineType
  <2>3. CASE pc[r] = "take"
    <3>1. job[r].op = "open" /\ lines[n].qty <= stock[p]
      BY <1>1, <2>1, <2>3 DEF Handled, Asks, Covered
    <3>2. Effect(r, p) = -lines[n].qty
      BY <2>2, <3>1 DEF Effect
    <3> QED
      BY <1>1, <2>2, <3>1, <3>2
  <2>4. CASE pc[r] = "saveOrder"
    <3>1. CASE job[r].op = "approve"
      <4>1. ~(lines[n].qty < 0) /\ Effect(r, p) = lines[n].qty
        BY <2>1, <2>2, <3>1 DEF AsksBelowZero, Effect
      <4> QED
        BY <1>1, <2>2, <4>1
    <3>2. CASE job[r].op = "update"
      <4>1. Effect(r, p) = 0
        BY <3>2 DEF Effect
      <4> QED
        BY <1>1, <4>1
    <3> QED
      BY <1>1, <2>4, <3>1, <3>2 DEF Handled, Asks, Deciding
  <2>5. CASE pc[r] = "savePart"
    <3>1. CASE job[r].op = "adjust" /\ session[r].held >= 0
      <4>1. Len(lines) = 1
        BY <2>5 DEF TypeInv, JobsFit, PartStages
      <4>2. n = 1
        BY <1>1, <2>1, <4>1
      <4>3. p \in Footprint(job[r])
        BY <1>3, <3>1 DEF Footprint
      <4>4. session[r].held = stock[p] + lines[n].qty
        BY <1>1, <2>5, <4>2, <4>3 DEF Handled, Carries, Reading
      <4>5. Effect(r, p) = lines[n].qty
        BY <2>2, <3>1 DEF Effect
      <4> QED
        BY <3>1, <4>4, <4>5
    <3>2. CASE job[r].op = "edit"
      <4>1. Effect(r, p) = 0
        BY <3>2 DEF Effect
      <4> QED
        BY <1>1, <4>1
    <3> QED
      BY <1>1, <2>5, <3>1, <3>2 DEF Handled, Asks
  <2>6. CASE pc[r] = "erase"
    <3>1. Effect(r, p) = 0
      BY <1>1, <2>6 DEF Handled, Asks, Effect
    <3> QED
      BY <1>1, <3>1
  <2> QED
    BY <2>3, <2>4, <2>5, <2>6 DEF Due
<1> QED
  BY <1>2, <1>3

\* No other step moves the stock.
LEMMA CoverStep ==
  ASSUME TypeInv, HistoryInv, RunInv, StockCoversOrders, [Next]_vars
  PROVE  StockCoversOrders'
<1> SUFFICES ASSUME NEW p \in live' \ contended', InitialStock[p] >= 0,
                    \A r \in committed' : /\ ~RepeatsPart(job'[r].lines, p)
                                          /\ job'[r].op = "approve" => ~AsksBelowZero(job'[r].lines, p)
             PROVE  stock'[p] >= 0
  BY DEF StockCoversOrders
<1>1. p \in live \ contended /\ p \in Parts
  BY StockMoves DEF TypeInv, TypeOK
<1>2. ASSUME committed \subseteq committed', \A q \in committed : job'[q] = job[q]
      PROVE  stock[p] >= 0
  BY <1>1, <1>2 DEF StockCoversOrders
<1>3. CASE UNCHANGED <<stock, committed>> /\ \A q \in committed : job'[q] = job[q]
  BY <1>2, <1>3
<1>4. ASSUME NEW r \in Requests, Due(r), committed' = committed \cup {r}, UNCHANGED job,
             stock'[p] = StockSeenBy(r, p)
      PROVE  stock'[p] >= 0
  <2>1. stock[p] >= 0 /\ ~RepeatsPart(job[r].lines, p) /\ (job[r].op = "approve" => ~AsksBelowZero(job[r].lines, p))
    BY <1>2, <1>4
  <2>2. stock[p] + Effect(r, p) >= 0
    BY <1>1, <1>4, <2>1, CommitCovers
  <2> QED
    BY <1>1, <1>4, <2>2, Settled
<1> QED
  BY <1>1, <1>3, <1>4, StockMoves

\* The invariants together.
LEMMA StockAlways == Spec => [](TypeInv /\ HistoryInv /\ RunInv /\ StockAccountedFor /\ StockCoversOrders)
<1>1. Init => TypeInv /\ HistoryInv /\ RunInv /\ StockAccountedFor
  BY TypeInit, HistoryInit, RunInit, AccountInit
<1>2. Init => StockCoversOrders
  BY DEF Init, StockCoversOrders
<1>3. /\ TypeInv /\ HistoryInv /\ RunInv /\ StockAccountedFor /\ StockCoversOrders
      /\ [Next]_vars
      => (TypeInv /\ HistoryInv /\ RunInv /\ StockAccountedFor /\ StockCoversOrders)'
  BY TypeStep, HistoryStep, RunStep, AccountStep, CoverStep
<1> QED
  BY <1>1, <1>2, <1>3, PTL DEF Spec

\* Every unit of a part that no two overlapping requests wrote is accounted for, for any
\* number of requests, lines and parts: each committed opening took all its lines once,
\* each refusal returned them once, and whatever failed or crashed changed nothing.
THEOREM StockIsAccountedFor == Spec => []StockAccountedFor
BY StockAlways, PTL

\* The handlers' own tests keep such a part from going negative, though the loop that
\* tests a line and the loop that takes it are statements apart.
THEOREM StockIsCovered == Spec => []StockCoversOrders
BY StockAlways, PTL

-----------------------------------------------------------------------------
(***************************************************************************)
(* The handlers implement the order book                                   *)
(***************************************************************************)

\* The status and the lines of each order, as the order book has them.
StatusOf == [o \in OrderIds |-> IF o \in opened THEN row[o].status ELSE None]
SheetOf  == [o \in OrderIds |-> IF o \in opened THEN Lines(o) ELSE <<>>]

\* The order book adds up lines as the handlers do.
LEMMA BookAsks == \A lines, p : Book!TotalAsked(lines, p) = Asked(lines, p)
BY DEF Asked, MapThenSumSet, MapThenFoldSet, Book!TotalAsked, Book!MapThenSumSet, Book!MapThenFoldSet

\* The handlers start where the order book does.
LEMMA BookInit == Init => Book!Init
<1> SUFFICES ASSUME Init
             PROVE  Book!Init
  OBVIOUS
<1>1. TypeOK
  BY TypeInit DEF TypeInv
<1>2. \A o \in OrderIds : row[o].status \in Statuses
  BY <1>1 DEF TypeOK, Row
<1>3. StatusOf \in [OrderIds -> Statuses \cup {None}]
  BY <1>2 DEF StatusOf
<1> QED
  BY <1>1, <1>3 DEF Book!Init, Book!Statuses, Statuses, StatusOf, TypeOK

\* A step that writes no order, no stock and no part is none of the book's.
LEMMA BookStutters ==
  ASSUME UNCHANGED <<opened, stock, live>>, \A o \in opened : row'[o] = row[o] /\ Lines(o)' = Lines(o)
  PROVE  UNCHANGED Book!book
<1>1. StatusOf' = StatusOf /\ SheetOf' = SheetOf
  BY DEF StatusOf, SheetOf
<1> QED
  BY <1>1 DEF Book!book, StatusOf, SheetOf

\* With nothing contended, a commit adds its effect to every part.
LEMMA CommitEffect ==
  ASSUME TypeInv, RunInv, contended = {}, NEW r \in Requests, NEW next, Commit(r, next), Due(r),
         PartsOf(job[r].lines) \subseteq live
  PROVE  /\ stock' = [p \in Parts |-> stock[p] + Effect(r, p)]
         /\ \A p \in Parts : stock[p] \in Int /\ Effect(r, p) \in Int
         /\ UNCHANGED job
<1>1. \A p \in Parts : StockSeenBy(r, p) = stock[p] + Effect(r, p)
  <2> SUFFICES ASSUME NEW p \in Parts
               PROVE  StockSeenBy(r, p) = stock[p] + Effect(r, p)
    OBVIOUS
  <2>1. CASE p \in live
    BY <2>1, Settled
  <2>2. CASE p \notin live
    <3>1. p \notin PartsOf(job[r].lines)
      BY <2>2
    <3>2. p \notin Footprint(job[r]) \/ job[r].order = p
      BY <3>1 DEF Footprint
    <3>3. p \notin Footprint(job[r])
      <4>1. CASE pc[r] \in Deciding
        BY <3>1, <4>1, RequestsAssumption DEF TypeInv, JobsFit, Deciding, OrderStages, Footprint
      <4>2. CASE pc[r] \notin Deciding
        BY <3>1, <4>2 DEF Due, Footprint, RunInv, Handled, Asks, Deciding
      <4> QED
        BY <4>1, <4>2
    <3> QED
      BY <3>3, Settled
  <2> QED
    BY <2>1, <2>2
<1> QED
  BY <1>1, EffectType DEF Commit, TypeInv, TypeOK

\* The commit of an opening is the book's Open: its lines are still covered when they go.
LEMMA OpenInBook ==
  ASSUME TypeInv, HistoryInv, RunInv, contended = {}, NEW r \in Requests, CommitOpen(r)
  PROVE  Book!Open(r) /\ r \in OrderIds
<1> DEFINE lines == job[r].lines
<1>1. /\ pc[r] = "take" /\ Commit(r, "respond") /\ Due(r) /\ opened' = opened \cup {r}
      /\ row' = [row EXCEPT ![r] = NewRow] /\ UNCHANGED live /\ PartsOf(lines) \subseteq live
      /\ r \in OrderIds /\ r \notin opened /\ Handled(r)
  BY DEF CommitOpen, Due, Insertable, PartsExist, OrderIds, HistoryInv, UnderwayAt, RunInv
<1>2. lines \in OpenLines /\ job[r].op = "open"
  BY <1>1 DEF Handled, Asks
<1>3. /\ stock' = [p \in Parts |-> stock[p] + Effect(r, p)]
      /\ (\A p \in Parts : stock[p] \in Int /\ Effect(r, p) \in Int) /\ UNCHANGED job
  BY <1>1, CommitEffect
<1>4. \A i \in DOMAIN lines : lines[i].part \in live /\ lines[i].qty <= stock[lines[i].part]
  BY <1>1 DEF PartsOf, Handled, Covered
<1>5. \A p \in Parts : stock[p] + Effect(r, p) = stock[p] - Book!TotalAsked(lines, p)
  <2>1. ASSUME NEW p \in Parts
        PROVE  stock[p] + Effect(r, p) = stock[p] - Asked(lines, p)
    <3>1. Effect(r, p) = -Asked(lines, p)
      BY <1>2 DEF Effect
    <3>2. Asked(lines, p) \in Int
      BY JobLines, AskedType DEF TypeInv
    <3> QED
      BY <1>3, <3>1, <3>2
  <2> QED
    BY <2>1, BookAsks
<1>6. stock' = [p \in Parts |-> stock[p] - Book!TotalAsked(lines, p)]
  BY <1>3, <1>5
<1>7. StatusOf[r] = None /\ StatusOf' = [StatusOf EXCEPT ![r] = "RECEBIDA"]
  <2>1. row'[r].status = "RECEBIDA" /\ \A o \in OrderIds \ {r} : row'[o] = row[o]
    BY <1>1 DEF NewRow, TypeInv, TypeOK
  <2>2. \A o \in OrderIds : (IF o \in opened' THEN row'[o].status ELSE None)
                             = IF o = r THEN "RECEBIDA" ELSE IF o \in opened THEN row[o].status ELSE None
    BY <1>1, <2>1
  <2>3. StatusOf' = [o \in OrderIds |-> IF o = r THEN "RECEBIDA" ELSE IF o \in opened THEN row[o].status ELSE None]
    BY <2>2 DEF StatusOf
  <2> QED
    BY <1>1, <2>3 DEF StatusOf
<1>8. SheetOf' = [SheetOf EXCEPT ![r] = lines]
  <2>1. \A o : Lines(o)' = Lines(o)
    BY <1>3 DEF Lines
  <2>2. Lines(r) = lines
    BY DEF Lines
  <2> QED
    BY <1>1, <2>1, <2>2 DEF SheetOf
<1> HIDE DEF lines
<1> QED
  BY <1>1, <1>2, <1>4, <1>6, <1>7, <1>8 DEF Book!Open, StatusOf, SheetOf

\* The commit of a changed order is the book's Advance, or its Refuse when parts return.
LEMMA OrderInBook ==
  ASSUME TypeInv, HistoryInv, IsolationInv, RunInv, contended = {}, NEW r \in Requests, CommitOrder(r)
  PROVE  \E o \in OrderIds : Book!Advance(o) \/ Book!Refuse(o)
<1>1. PICK o \in OrderIds : o = job[r].order /\ o \in opened
  BY DEF HistoryInv, UnderwayAt, Deciding, CommitOrder, TypeInv, TypeOK
<1>2. /\ pc[r] = "saveOrder" /\ Commit(r, "notify") /\ Due(r) /\ UNCHANGED <<opened, live>>
      /\ row' = [row EXCEPT ![o] = Merged(r)] /\ Handled(r) /\ row[o] \in Row(Marks)
  BY <1>1 DEF CommitOrder, Due, RunInv, TypeInv, TypeOK
<1>3. PICK new \in Statuses : /\ new = job[r].target /\ new \in VALID_TRANSITIONS[row[o].status]
                             /\ Merged(r).status = new
  <2>1. /\ job[r].target \in VALID_TRANSITIONS[row[o].status]
        /\ session[r].entity = TransitionTo(row[o], job[r].target, r)
        /\ session[r].changed = Differ(session[r].entity, row[o])
    BY <1>1, <1>2 DEF IsolationInv, Alone, Deciding
  <2>2. Merged(r) = session[r].entity
    BY <1>1, <1>2, <2>1, MergedIsEntity
  <2>3. session[r].entity.status = job[r].target
    BY <1>2, <2>1 DEF TransitionTo, Row
  <2> QED
    BY <2>1, <2>2, <2>3 DEF TypeInv, TypeOK, Jobs
<1>4. StatusOf[o] = row[o].status /\ StatusOf' = [StatusOf EXCEPT ![o] = new]
  <2>1. \A x \in OrderIds : (IF x \in opened' THEN row'[x].status ELSE None)
                             = IF x = o THEN new ELSE IF x \in opened THEN row[x].status ELSE None
    BY <1>1, <1>2, <1>3 DEF TypeInv, TypeOK
  <2>2. StatusOf' = [x \in OrderIds |-> IF x = o THEN new ELSE IF x \in opened THEN row[x].status ELSE None]
    BY <2>1 DEF StatusOf
  <2> QED
    BY <1>1, <2>2 DEF StatusOf
<1>5. SheetOf[o] = Lines(o) /\ SheetOf' = SheetOf
  <2>1. \A x : Lines(x)' = Lines(x)
    BY <1>2 DEF Commit, Lines
  <2> QED
    BY <1>1, <1>2, <2>1 DEF SheetOf
<1>6. row[o].status # None
  <2>1. row[o].status \in Statuses /\ new \in VALID_TRANSITIONS[row[o].status]
    BY <1>2, <1>3 DEF Row
  <2> QED
    BY <2>1, RequestsAssumption
<1>7. job[r].lines = <<>> \/ (new = "ORCAMENTO_RECUSADO" /\ job[r].op = "approve" /\ job[r].lines = Lines(o))
  BY <1>1, <1>2, <1>3 DEF Handled, Asks, Deciding
<1>8. PartsOf(job[r].lines) \subseteq live
  BY <1>1, <1>7 DEF RunInv, UsedPartsLive, PartsOf
<1>9. /\ stock' = [p \in Parts |-> stock[p] + Effect(r, p)]
      /\ \A p \in Parts : stock[p] \in Int /\ Effect(r, p) \in Int
  BY <1>2, <1>8, CommitEffect
<1>10. CASE job[r].lines = <<>>
  <2>1. \A p \in Parts : Effect(r, p) = 0
    BY <1>10, ShareType DEF PartsOf, TypeInv
  <2>2. stock' = stock
    BY <1>9, <2>1 DEF TypeInv, TypeOK
  <2>3. Book!VALID_TRANSITIONS = VALID_TRANSITIONS
    BY DEF Book!VALID_TRANSITIONS, VALID_TRANSITIONS, Book!Statuses, Statuses
  <2> QED
    BY <1>1, <1>2, <1>3, <1>4, <1>5, <1>6, <2>2, <2>3 DEF Book!Advance, StatusOf, SheetOf
<1>11. CASE new = "ORCAMENTO_RECUSADO" /\ job[r].op = "approve" /\ job[r].lines = Lines(o)
  <2>1. row[o].status = "AGUARDANDO_APROVACAO"
    BY <1>2, <1>3, <1>11 DEF VALID_TRANSITIONS, Statuses, Row
  <2>2. \A p \in Parts : Effect(r, p) = Book!TotalAsked(SheetOf[o], p)
    BY <1>5, <1>11, BookAsks DEF Effect
  <2>3. stock' = [p \in Parts |-> stock[p] + Book!TotalAsked(SheetOf[o], p)]
    BY <1>9, <2>2
  <2> QED
    BY <1>1, <1>2, <1>4, <1>5, <1>11, <2>1, <2>3 DEF Book!Refuse, StatusOf, SheetOf
<1> QED
  BY <1>1, <1>7, <1>10, <1>11

\* The commit of an adjustment is the book's Adjust; that of an edit is nothing.
LEMMA PartInBook ==
  ASSUME TypeInv, HistoryInv, RunInv, contended = {}, NEW r \in Requests, CommitPart(r)
  PROVE  (\E p \in Parts : Book!Adjust(p)) \/ UNCHANGED Book!book
<1>1. pc[r] = "savePart" /\ Handled(r) /\ job[r].lines \in Seq(Line) /\ Len(job[r].lines) = 1
  BY JobLines DEF CommitPart, RunInv, TypeInv, JobsFit, PartStages
<1>2. PICK p \in Parts : /\ p = job[r].lines[1].part /\ PartsOf(job[r].lines) = {p}
                        /\ Asked(job[r].lines, p) = job[r].lines[1].qty
  BY <1>1, LineType, AskedOfOne
<1>3. ASSUME UNCHANGED <<opened, row, live, job>>
      PROVE  StatusOf' = StatusOf /\ SheetOf' = SheetOf
  BY <1>3 DEF StatusOf, SheetOf, Lines
<1>4. CASE Rollback(r, "failed")
  BY <1>4, BookStutters DEF Rollback, database, Lines
<1>5. CASE p \in live /\ Commit(r, "refresh") /\ UNCHANGED <<opened, row, live, seen>>
  <2>1. /\ stock' = [q \in Parts |-> stock[q] + Effect(r, q)]
        /\ (\A q \in Parts : stock[q] \in Int /\ Effect(r, q) \in Int) /\ UNCHANGED job
    BY <1>1, <1>2, <1>5, CommitEffect DEF Due
  <2>2. CASE job[r].op = "edit" /\ job[r].lines[1].qty = 0
    <3>1. \A q \in Parts : Effect(r, q) = 0
      BY <2>2 DEF Effect
    <3>2. stock' = stock
      BY <2>1, <3>1 DEF TypeInv, TypeOK
    <3> QED
      BY <1>5, <2>1, <3>2, BookStutters DEF Lines
  <2>3. CASE job[r].op = "adjust" /\ job[r].lines[1].qty \in Deltas /\ session[r].held >= 0
    <3>1. PICK d \in Deltas : d = job[r].lines[1].qty
      BY <2>3
    <3>2. Effect(r, p) = d /\ \A q \in Parts \ {p} : Effect(r, q) = 0
      <4>1. Effect(r, p) = d
        BY <1>2, <2>3, <3>1 DEF Effect
      <4>2. \A q \in Parts \ {p} : Effect(r, q) = 0
        BY <1>2, ShareType DEF TypeInv
      <4> QED
        BY <4>1, <4>2
    <3>3. stock' = [stock EXCEPT ![p] = @ + d]
      <4>1. \A q \in Parts : stock[q] + Effect(r, q) = IF q = p THEN stock[p] + d ELSE stock[q]
        BY <2>1, <3>2
      <4> QED
        BY <1>2, <2>1, <4>1 DEF TypeInv, TypeOK
    <3>4. p \in Footprint(job[r])
      BY <1>2, <2>3 DEF Footprint
    <3>5. session[r].held = stock[p] + d
      BY <1>1, <1>5, <3>1, <3>4 DEF Handled, Carries, Reading
    <3>6. stock[p] + d >= 0
      BY <2>3, <3>5
    <3>7. Book!Adjust(p)
      BY <1>3, <1>5, <2>1, <3>3, <3>6 DEF Book!Adjust, StatusOf, SheetOf
    <3> QED
      BY <3>7
  <2> QED
    BY <1>1, <2>2, <2>3 DEF Handled, Asks
<1> QED
  BY <1>2, <1>4, <1>5 DEF CommitPart

\* The commit of a deletion is the book's Withdraw, unless an order uses the part.
LEMMA DeleteInBook ==
  ASSUME TypeInv, HistoryInv, RunInv, contended = {}, NEW r \in Requests, CommitDelete(r)
  PROVE  (\E p \in Parts : Book!Withdraw(p)) \/ UNCHANGED Book!book
<1>1. pc[r] = "erase" /\ Handled(r) /\ job[r].lines \in Seq(Line) /\ Len(job[r].lines) = 1
  BY JobLines DEF CommitDelete, RunInv, TypeInv, JobsFit, PartStages
<1>2. PICK p \in Parts : p = job[r].lines[1].part
  BY <1>1, LineType
<1>3. CASE Rollback(r, "failed")
  BY <1>3, BookStutters DEF Rollback, database, Lines
<1>4. CASE /\ \A o \in opened : p \notin PartsOf(Lines(o))
           /\ Commit(r, "ok") /\ live' = live \ {p} /\ UNCHANGED <<opened, row, seen>>
  <2>1. \A q \in Parts : StockSeenBy(r, q) = stock[q]
    BY <1>1 DEF Handled, Carries, Fresh, StockSeenBy
  <2>2. stock' = stock
    BY <1>4, <2>1 DEF Commit, TypeInv, TypeOK
  <2>3. StatusOf' = StatusOf /\ SheetOf' = SheetOf
    BY <1>4 DEF StatusOf, SheetOf, Lines, Commit
  <2>4. ASSUME NEW o \in OrderIds, StatusOf[o] # None, NEW i \in DOMAIN SheetOf[o]
        PROVE  SheetOf[o][i].part # p
    <3>1. o \in opened /\ SheetOf[o] = Lines(o)
      BY <2>4 DEF StatusOf, SheetOf
    <3> QED
      BY <1>4, <2>4, <3>1 DEF PartsOf
  <2>5. Book!Withdraw(p)
    BY <1>4, <2>2, <2>3, <2>4 DEF Book!Withdraw, StatusOf, SheetOf
  <2> QED
    BY <2>5
<1> QED
  BY <1>2, <1>3, <1>4 DEF CommitDelete

\* Every step of a handler is one operation of the book or none.
LEMMA BookStep ==
  ASSUME TypeInv, HistoryInv, IsolationInv, RunInv, [Next]_vars, contended' = {}
  PROVE  Book!Next \/ UNCHANGED Book!book
<1>1. contended = {}
  BY StockMoves
<1>2. CASE UNCHANGED vars
  BY <1>2, BookStutters DEF vars, database, Lines
<1>3. ASSUME NEW r \in Requests, Arrive(r)
      PROVE  UNCHANGED Book!book
  <2>1. PICK j, next : Start(r, j, next)
    BY <1>3 DEF Arrive, OpenServiceOrder, UpdateStatus, ApproveBudget, AdjustPartStock, UpdatePart, DeletePart
  <2>2. r \notin opened
    BY <2>1 DEF Start, HistoryInv, UnderwayAt
  <2>3. \A o \in opened : Lines(o)' = Lines(o)
    BY <2>1, <2>2 DEF Start, Lines, TypeInv, TypeOK
  <2> QED
    BY <2>1, <2>3, BookStutters DEF Start, database
<1>4. ASSUME NEW r \in Requests, NEW outcome, Rollback(r, outcome)
      PROVE  UNCHANGED Book!book
  BY <1>4, BookStutters DEF Rollback, database, Lines
<1>5. ASSUME NEW r \in Requests, NEW next, NEW s, Continue(r, next, s)
      PROVE  UNCHANGED Book!book
  BY <1>5, BookStutters DEF Continue, database, Lines
<1>6. ASSUME NEW r \in Requests, Proceed(r)
      PROVE  Book!Next \/ UNCHANGED Book!book
  <2>1. CASE CheckPart(r) \/ CountOrders(r) \/ DecrementStock(r) \/ IncrementStock(r) \/ ReloadOrder(r)
    BY <1>4, <1>5, <2>1 DEF CheckPart, CountOrders, DecrementStock, IncrementStock, AssignStock, ReloadOrder
  <2>2. CASE ReloadPart(r) \/ ReloadDelete(r) \/ InsertFails(r) \/ FlushError(r) \/ DeadlockVictim(r)
    BY <1>4, <1>5, <2>2 DEF ReloadPart, ReloadDelete, InsertFails, FlushError, DeadlockVictim
  <2>3. CASE RespondOpened(r) \/ NotifyStatusChange(r) \/ RefreshPart(r)
    BY <2>3, BookStutters DEF RespondOpened, NotifyStatusChange, RefreshPart, database, Lines
  <2>4. CASE CommitOpen(r)
    BY <1>1, <2>4, OpenInBook DEF Book!Next
  <2>5. CASE CommitOrder(r)
    BY <1>1, <2>5, OrderInBook DEF Book!Next
  <2>6. CASE CommitPart(r)
    BY <1>1, <2>6, PartInBook DEF Book!Next
  <2>7. CASE CommitDelete(r)
    BY <1>1, <2>7, DeleteInBook DEF Book!Next
  <2> QED
    BY <1>6, <2>1, <2>2, <2>3, <2>4, <2>5, <2>6, <2>7 DEF Proceed
<1>7. ASSUME NEW r \in Requests, Crash(r)
      PROVE  UNCHANGED Book!book
  BY <1>4, <1>7 DEF Crash
<1> QED
  BY <1>2, <1>3, <1>6, <1>7 DEF Next, AllEnded

\* Until two overlapping requests share a row, each commit is one operation of the order
\* book and every other statement, failure or crash is none, for any catalogue and any
\* number of requests: the awaits between the statements are invisible.
THEOREM HandlersImplementTheBook == Spec => ImplementsOrderBook
<1> DEFINE Always == TypeInv /\ HistoryInv /\ IsolationInv /\ RunInv
           Kept   == contended' = {} => Book!Next \/ UNCHANGED Book!book
<1>1. Spec => Book!Init
  BY BookInit DEF Spec
<1>2. Spec => []Always
  BY IsolationAlways, StockAlways, PTL
<1>3. Always /\ [Next]_vars => [Kept]_vars
  BY BookStep
<1>4. Spec => [][Kept]_vars
  BY <1>2, <1>3, PTL DEF Spec
<1> QED
  BY <1>1, <1>4 DEF ImplementsOrderBook
=============================================================================
