------------------------- MODULE ServiceOrdersProofs -------------------------
(***************************************************************************)
(* Invariance proofs about ServiceOrders, for every finite set of          *)
(* requests, every catalogue and every input.                              *)
(*                                                                         *)
(* A handler moves in one of four ways: it starts, it continues inside its *)
(* transaction, its transaction rolls back, or it commits.  Each way has a *)
(* lemma, and the step of an action cites the lemma of its way.            *)
(***************************************************************************)
EXTENDS ServiceOrders, TLAPS, FiniteSetTheorems, SequenceTheorems

Stages   == {"idle"} \cup Reading \cup Replying \cup Ended
Counters == [{"opened", "transition", "approval", "duration"} -> SUBSET Requests]

\* The stages of a handler that works on one part, and on one existing order.
PartStages  == {"reloadPart", "savePart", "refresh", "reloadDelete", "erase"}
OrderStages == {"return", "reloadOrder", "saveOrder", "notify"}

\* What a handler's later statements take for granted of what it was asked.
JobsFit ==
  \A r \in Requests :
    /\ pc[r] \in PartStages  => Len(job[r].lines) = 1
    /\ pc[r] \in OrderStages => job[r].order \in OrderIds

TypeInv == TypeOK /\ JobsFit

-----------------------------------------------------------------------------
(***************************************************************************)
(* Types of the helpers                                                    *)
(***************************************************************************)
LEMMA ConstantTypes ==
  /\ NewRow \in Row(Marks)
  /\ NoSession \in Sessions
  /\ NoJob \in Jobs
  /\ \A s : RowAt(s) \in [status : {s}, started : Marks, completed : Marks, delivered : Marks]
<1>1. NewRow \in Row(Marks)
  BY DEF NewRow, Row, Marks, Statuses
<1>2. NoSession \in Sessions
  BY <1>1 DEF NoSession, Sessions, Flags, NoFlags
<1>3. NoJob \in Jobs
  BY DEF NoJob, Job, Jobs, Statuses
<1>4. ASSUME NEW s
      PROVE  RowAt(s) \in [status : {s}, started : Marks, completed : Marks, delivered : Marks]
  BY DEF RowAt, Marks
<1> QED
  BY <1>1, <1>2, <1>3, <1>4

LEMMA LinesType ==
  ASSUME TypeOK, NEW o \in OrderIds
  PROVE  Lines(o) \in Seq(Line)
BY InputsAssumption DEF TypeOK, Lines, Jobs, OrderIds

LEMMA LineType ==
  ASSUME NEW lines \in Seq(Line), NEW i \in Nat \ {0}, i <= Len(lines)
  PROVE  lines[i] \in Line /\ lines[i].part \in Parts /\ lines[i].qty \in Int
<1>1. lines[i] \in Line
  BY ElementOfSeq
<1> QED
  BY <1>1 DEF Line

LEMMA PartsOfType ==
  ASSUME NEW lines \in Seq(Line)
  PROVE  PartsOf(lines) \subseteq Parts
<1>1. DOMAIN lines = 1 .. Len(lines)
  OBVIOUS
<1>2. ASSUME NEW i \in DOMAIN lines
      PROVE  lines[i].part \in Parts
  <2>1. i \in 1 .. Len(lines)
    BY <1>1
  <2>2. lines[i] \in Line
    BY <2>1, ElementOfSeq
  <2> QED
    BY <2>2 DEF Line
<1> QED
  BY <1>2 DEF PartsOf

LEMMA SessionType ==
  ASSUME TypeOK, NEW r \in Requests
  PROVE  /\ session[r] \in Sessions
         /\ Flushed(r) \in [Parts -> Int \cup {None}]
         /\ LockFlushed(r) \in [Parts -> Requests \cup {None}]
         /\ Free(r) \in [Parts -> Requests \cup {None}]
         /\ \A p \in Parts : StockSeenBy(r, p) \in Int
<1>1. session[r] \in Sessions
  BY DEF TypeOK
<1>2. Flushed(r) \in [Parts -> Int \cup {None}]
  BY <1>1 DEF Flushed, Sessions
<1>3. LockFlushed(r) \in [Parts -> Requests \cup {None}]
  BY <1>1 DEF LockFlushed, Sessions, TypeOK
<1>4. Free(r) \in [Parts -> Requests \cup {None}]
  BY DEF Free, TypeOK
<1>5. \A p \in Parts : StockSeenBy(r, p) \in Int
  BY <1>2 DEF StockSeenBy, TypeOK
<1> QED
  BY <1>1, <1>2, <1>3, <1>4, <1>5

LEMMA OpenedFinite == TypeOK => IsFiniteSet(opened)
BY RequestsAssumption, FS_Union, FS_Subset DEF TypeOK, OrderIds

LEMMA TransitionType ==
  ASSUME NEW w \in Row(Marks), NEW new \in Statuses, NEW r \in Requests
  PROVE  TransitionTo(w, new, r) \in Row(Marks)
BY DEF TransitionTo, Row, Marks
-----------------------------------------------------------------------------
(***************************************************************************)
(* The four ways a handler moves keep the types                            *)
(***************************************************************************)
LEMMA StartType ==
  ASSUME TypeOK, NEW r \in Requests, NEW j \in Jobs, NEW next \in Stages, Start(r, j, next),
         j.op \in {"update", "approve"} => j.order \in OrderIds,
         session' \in [Requests -> Sessions], counted' \in Counters
  PROVE  TypeOK'
<1>1. pc' \in [Requests -> Stages] /\ job' \in [Requests -> Jobs]
  BY DEF TypeOK, Start, Stages
<1>2. contended' \in SUBSET (Parts \cup OrderIds)
  <2>1. ASSUME NEW k \in Jobs
        PROVE  PartsOf(k.lines) \subseteq Parts
    BY PartsOfType DEF Jobs
  <2>2. ASSUME NEW k \in Jobs
        PROVE  Overlap(r, k) \subseteq Footprint(k)
    BY DEF Overlap
  <2>3. Footprint(j) \subseteq Parts \cup OrderIds
    BY <2>1 DEF Footprint, Jobs
  <2> QED
    BY <2>2, <2>3 DEF Start, TypeOK
<1> QED
  BY <1>1, <1>2 DEF TypeOK, Start, Stages, Counters, database

LEMMA ContinueType ==
  ASSUME TypeOK, NEW r \in Requests, NEW next \in Stages, NEW s \in Sessions, Continue(r, next, s),
         lock' \in [Parts -> Requests \cup {None}], number' \in [Requests -> Numbers \cup {None}]
  PROVE  TypeOK'
BY DEF TypeOK, Continue, Stages, database, effects, history

LEMMA RollbackType ==
  ASSUME TypeOK, NEW r \in Requests, NEW outcome \in Stages, Rollback(r, outcome)
  PROVE  TypeOK'
BY SessionType, ConstantTypes DEF TypeOK, Rollback, Stages, database, effects, history

LEMMA CommitType ==
  ASSUME TypeOK, NEW r \in Requests, NEW next \in Stages, Commit(r, next),
         opened' \in SUBSET OrderIds, row' \in [OrderIds -> Row(Marks)],
         live' \in SUBSET Parts, seen' \in [OrderIds -> SUBSET Statuses]
  PROVE  TypeOK'
<1>1. stock' \in [Parts -> Int] /\ session' \in [Requests -> Sessions] /\ lock' \in [Parts -> Requests \cup {None}]
  BY SessionType, ConstantTypes DEF TypeOK, Commit
<1> QED
  BY <1>1 DEF TypeOK, Commit, Stages, effects

-----------------------------------------------------------------------------
(***************************************************************************)
(* TypeOK is inductive with JobsFit                                        *)
(***************************************************************************)
LEMMA TypeInit == Init => TypeInv
<1> SUFFICES ASSUME Init PROVE TypeInv
  OBVIOUS
<1>1. PICK s \in [Existing -> InitialStatuses] :
        /\ row  = [o \in OrderIds |-> IF o \in Existing THEN RowAt(s[o]) ELSE NewRow]
        /\ seen = [o \in OrderIds |-> IF o \in Existing THEN {s[o]} ELSE {}]
  BY DEF Init
<1>2. row \in [OrderIds -> Row(Marks)] /\ seen \in [OrderIds -> SUBSET Statuses]
  BY <1>1, ConstantTypes, InputsAssumption DEF Row
<1>3. TypeOK
  BY <1>2, ConstantTypes, InputsAssumption DEF Init, TypeOK, OrderIds, Marks
<1>4. JobsFit
  BY DEF Init, JobsFit, PartStages, OrderStages
<1> QED
  BY <1>3, <1>4 DEF TypeInv

LEMMA TurnType ==
  ASSUME NEW s \in Sessions, NEW d \in [part : Parts, value : Int] \cup {None},
         NEW f \in [Parts -> Int \cup {None}]
  PROVE  [s EXCEPT !.line = @ + 1, !.flushed = f, !.dirty = d] \in Sessions
<1> DEFINE t == [s EXCEPT !.line = @ + 1]
<1>1. t \in Sessions
  BY DEF Sessions
<1>2. ASSUME NEW u \in Sessions
      PROVE  [u EXCEPT !.flushed = f, !.dirty = d] \in Sessions
  BY DEF Sessions
<1>3. [t EXCEPT !.flushed = f, !.dirty = d] \in Sessions
  <2> HIDE DEF t
  <2> QED
    BY <1>1, <1>2
<1> QED
  BY <1>3

LEMMA AssignStockType ==
  ASSUME TypeInv, NEW r \in Requests, NEW sign \in {-1, 1}, AssignStock(r, sign)
  PROVE  TypeOK'
<1> DEFINE s   == session[r]
           l   == job[r].lines[s.line]
           old == StockSeenBy(r, l.part)
           d   == IF l.part \in live THEN Pending(l.part, old, old + sign * l.qty) ELSE None
<1>1. TypeOK /\ s \in Sessions /\ job[r].lines \in Seq(Line)
  BY SessionType DEF TypeInv, TypeOK, Jobs
<1>2. s.line \in Nat \ {0} /\ s.line <= Len(job[r].lines)
  BY <1>1 DEF Sessions, AssignStock
<1>3. l.part \in Parts /\ l.qty \in Int
  BY <1>1, <1>2, LineType
<1>4. old \in Int /\ sign * l.qty \in Int
  BY <1>1, <1>3, SessionType
<1>5. d \in [part : Parts, value : Int] \cup {None}
  BY <1>3, <1>4 DEF Pending
<1>6. Flushed(r) \in [Parts -> Int \cup {None}] /\ LockFlushed(r) \in [Parts -> Requests \cup {None}]
  BY <1>1, SessionType
<1>7. [s EXCEPT !.line = @ + 1, !.flushed = Flushed(r), !.dirty = d] \in Sessions
  <2> HIDE DEF s, d
  <2> QED
    BY <1>1, <1>2, <1>5, <1>6, TurnType
<1>8. pc[r] \in Stages /\ number' \in [Requests -> Numbers \cup {None}]
  BY <1>1 DEF TypeOK, Stages, AssignStock
<1> QED
  BY <1>1, <1>6, <1>7, <1>8, ContinueType DEF AssignStock

\* What TransitionTo leaves in the session of an update or an approval.
LEMMA LoadType ==
  ASSUME TypeOK, NEW r \in Requests, NEW o \in OrderIds, NEW new \in Statuses, Load(r, o, new)
  PROVE  session' \in [Requests -> Sessions]
<1>1. TransitionTo(row[o], new, r) \in Row(Marks)
  BY TransitionType DEF TypeOK
<1>2. [session[r] EXCEPT !.entity = TransitionTo(row[o], new, r)] \in Sessions
  BY <1>1, SessionType DEF Sessions
<1> QED
  BY <1>2 DEF Load, TypeOK

\* What a request on a part asks, and a request on an order.
LEMMA PartJob ==
  ASSUME NEW part \in Parts, NEW q \in Int, NEW op \in {"adjust", "edit", "delete"}
  PROVE  LET j == Job(op, None, "RECEBIDA", <<[part |-> part, qty |-> q]>>) IN
         j \in Jobs /\ j.op = op /\ Len(j.lines) = 1
<1>1. <<[part |-> part, qty |-> q]>> \in Seq(Line)
  BY DEF Line
<1> QED
  BY <1>1 DEF Job, Jobs, AllOperations, Statuses

LEMMA OrderJob ==
  ASSUME NEW order \in OrderIds, NEW target \in Statuses, NEW lines \in Seq(Line),
         NEW op \in {"open", "update", "approve"}
  PROVE  LET j == Job(op, order, target, lines) IN
         j \in Jobs /\ j.order = order /\ j.target = target
BY DEF Job, Jobs, AllOperations

LEMMA ArriveType ==
  ASSUME TypeInv, NEW r \in Requests, Arrive(r)
  PROVE  TypeInv'
<1>1. TypeOK /\ JobsFit
  BY DEF TypeInv
<1>2. ASSUME NEW j \in Jobs, NEW next \in {"check", "rejected", "return", "reloadOrder", "reloadPart", "reloadDelete"},
             Start(r, j, next),
             j.op \in {"update", "approve"} => j.order \in OrderIds,
             next \in PartStages  => Len(j.lines) = 1,
             next \in OrderStages => j.order \in OrderIds,
             session' \in [Requests -> Sessions], counted' \in Counters
      PROVE  TypeInv'
  <2>1. TypeOK'
    BY <1>1, <1>2, StartType DEF Stages, Reading, Ended
  <2>2. JobsFit'
    BY <1>1, <1>2 DEF JobsFit, Start, TypeOK
  <2> QED
    BY <2>1, <2>2 DEF TypeInv
<1>3. /\ session \in [Requests -> Sessions] /\ counted \in Counters
      /\ r \in OrderIds
      /\ \A o \in OrderIds : Lines(o) \in Seq(Line) /\ row[o] \in Row(Marks)
      /\ [counted EXCEPT !["duration"] = @ \cup {r}] \in Counters
  BY <1>1, LinesType DEF TypeOK, Counters, OrderIds
<1>4. <<>> \in Seq(Line)
  OBVIOUS
<1>5. CASE OpenServiceOrder(r)
  <2>1. PICK lines \in OpenLines, next \in {"check", "rejected"} :
          Start(r, Job("open", r, "RECEBIDA", lines), next) /\ UNCHANGED <<session, counted>>
    BY <1>5 DEF OpenServiceOrder
  <2>2. Job("open", r, "RECEBIDA", lines) \in Jobs /\ Job("open", r, "RECEBIDA", lines).order = r
    BY <1>3, OrderJob, InputsAssumption DEF Statuses
  <2> QED
    BY <1>2, <1>3, <2>1, <2>2 DEF PartStages, OrderStages
<1>6. CASE UpdateStatus(r)
  <2>1. PICK o \in OrderIds, new \in Statuses, next \in {"reloadOrder", "rejected"} :
          /\ Start(r, Job("update", o, new, <<>>), next)
          /\ Load(r, o, new) \/ UNCHANGED session
          /\ counted' \in {counted, [counted EXCEPT !["duration"] = @ \cup {r}]}
    BY <1>6 DEF UpdateStatus
  <2>2. session' \in [Requests -> Sessions] /\ counted' \in Counters
    BY <1>1, <1>3, <2>1, LoadType
  <2>3. Job("update", o, new, <<>>) \in Jobs /\ Job("update", o, new, <<>>).order = o
    BY OrderJob, <1>4
  <2> QED
    BY <1>2, <2>1, <2>2, <2>3 DEF PartStages, OrderStages
<1>7. CASE ApproveBudget(r)
  <2>1. PICK o \in OrderIds, new \in {"EM_EXECUCAO", "ORCAMENTO_RECUSADO"}, lines \in Seq(Line),
             next \in {"reloadOrder", "return", "rejected"} :
          /\ Start(r, Job("approve", o, new, lines), next)
          /\ Load(r, o, new) \/ UNCHANGED session
          /\ UNCHANGED counted
    BY <1>3, <1>4, <1>7 DEF ApproveBudget
  <2>2. new \in Statuses
    BY DEF Statuses
  <2>3. session' \in [Requests -> Sessions] /\ counted' \in Counters
    BY <1>1, <1>3, <2>1, <2>2, LoadType
  <2>4. Job("approve", o, new, lines) \in Jobs /\ Job("approve", o, new, lines).order = o
    BY OrderJob, <2>2
  <2> QED
    BY <1>2, <2>1, <2>3, <2>4 DEF PartStages, OrderStages
<1>8. CASE AdjustPartStock(r)
  <2>1. PICK p \in Parts, d \in Deltas, next \in {"reloadPart", "rejected"} :
          /\ Start(r, Job("adjust", None, "RECEBIDA", <<[part |-> p, qty |-> d]>>), next)
          /\ session' \in {session, [session EXCEPT ![r].held = stock[p] + d]}
          /\ UNCHANGED counted
    BY <1>8 DEF AdjustPartStock
  <2>2. d \in Int /\ stock[p] + d \in Int
    BY <1>1, InputsAssumption DEF TypeOK
  <2>3. session' \in [Requests -> Sessions]
    BY <1>3, <2>1, <2>2 DEF Sessions
  <2> QED
    BY <1>2, <1>3, PartJob, <2>1, <2>2, <2>3 DEF OrderStages
<1>9. CASE UpdatePart(r)
  <2>1. PICK p \in Parts, next \in {"reloadPart", "rejected"} :
          /\ Start(r, Job("edit", None, "RECEBIDA", <<[part |-> p, qty |-> 0]>>), next)
          /\ session' \in {session, [session EXCEPT ![r].held = stock[p]]}
          /\ UNCHANGED counted
    BY <1>9 DEF UpdatePart
  <2>2. stock[p] \in Int
    BY <1>1 DEF TypeOK
  <2>3. session' \in [Requests -> Sessions]
    BY <1>3, <2>1, <2>2 DEF Sessions
  <2> QED
    BY <1>2, <1>3, PartJob, <2>1, <2>3 DEF OrderStages
<1>10. CASE DeletePart(r)
  <2>1. PICK p \in Parts, next \in {"reloadDelete", "rejected"} :
          /\ Start(r, Job("delete", None, "RECEBIDA", <<[part |-> p, qty |-> 0]>>), next)
          /\ UNCHANGED <<session, counted>>
    BY <1>10 DEF DeletePart
  <2> QED
    BY <1>2, <1>3, PartJob, <2>1 DEF OrderStages
<1> QED
  BY <1>5, <1>6, <1>7, <1>8, <1>9, <1>10 DEF Arrive

\* Past its start a handler keeps its job, and enters a stage of a part, or of an
\* order, only from another such stage.
LEMMA FitKept ==
  ASSUME TypeInv, NEW r \in Requests, NEW next, UNCHANGED job, pc' = [pc EXCEPT ![r] = next],
         next \in PartStages  => pc[r] \in PartStages,
         next \in OrderStages => pc[r] \in OrderStages
  PROVE  JobsFit'
BY DEF TypeInv, TypeOK, JobsFit

LEMMA RollbackInv ==
  ASSUME TypeInv, NEW r \in Requests, NEW outcome \in Ended, Rollback(r, outcome)
  PROVE  TypeInv'
<1>1. TypeOK'
  BY RollbackType DEF TypeInv, Stages
<1>2. JobsFit'
  BY FitKept DEF Rollback, Ended, PartStages, OrderStages
<1> QED
  BY <1>1, <1>2 DEF TypeInv

LEMMA OpeningType ==
  ASSUME TypeInv, NEW r \in Requests,
         CheckPart(r) \/ CountOrders(r) \/ DecrementStock(r) \/ CommitOpen(r) \/ InsertFails(r) \/ RespondOpened(r)
  PROVE  TypeInv'
<1>1. TypeOK /\ session[r] \in Sessions
  BY SessionType DEF TypeInv
<1>2. CASE CheckPart(r)
  <2>1. CASE Rollback(r, "rejected")
    BY <2>1, RollbackInv DEF Ended
  <2>2. CASE /\ pc[r] = "check" /\ UNCHANGED <<lock, number>>
             /\ Continue(r, "check", [session[r] EXCEPT !.line = @ + 1])
    <3>1. [session[r] EXCEPT !.line = @ + 1] \in Sessions
      BY <1>1 DEF Sessions
    <3>2. TypeOK'
      BY <1>1, <2>2, <3>1, ContinueType DEF TypeOK, Stages, Reading
    <3>3. JobsFit'
      BY <2>2, FitKept DEF Continue, PartStages, OrderStages
    <3> QED
      BY <3>2, <3>3 DEF TypeInv
  <2> QED
    BY <1>2, <2>1, <2>2 DEF CheckPart
<1>3. CASE CountOrders(r)
  <2>1. [session[r] EXCEPT !.line = 1] \in Sessions
    BY <1>1 DEF Sessions
  <2>2. Cardinality(opened) \in Nat
    BY <1>1, OpenedFinite, FS_CardinalityType
  <2>3. number' \in [Requests -> Numbers \cup {None}]
    BY <1>1, <1>3, <2>2 DEF CountOrders, TypeOK, Numbers
  <2>4. TypeOK'
    BY <1>1, <1>3, <2>1, <2>3, ContinueType DEF CountOrders, TypeOK, Stages, Reading
  <2>5. JobsFit'
    BY <1>3, FitKept DEF CountOrders, Continue, PartStages, OrderStages
  <2> QED
    BY <2>4, <2>5 DEF TypeInv
<1>4. CASE DecrementStock(r)
  <2>1. TypeOK'
    BY <1>4, AssignStockType DEF DecrementStock
  <2>2. JobsFit'
    BY <1>4, FitKept DEF DecrementStock, AssignStock, Continue, PartStages, OrderStages
  <2> QED
    BY <2>1, <2>2 DEF TypeInv
<1>5. CASE CommitOpen(r)
  <2>1. /\ opened' \in SUBSET OrderIds /\ row' \in [OrderIds -> Row(Marks)]
        /\ live' \in SUBSET Parts /\ seen' \in [OrderIds -> SUBSET Statuses]
    BY <1>1, <1>5, ConstantTypes DEF CommitOpen, TypeOK, OrderIds, Statuses
  <2>2. TypeOK'
    BY <1>1, <1>5, <2>1, CommitType DEF CommitOpen, Stages, Replying
  <2>3. JobsFit'
    BY <1>5, FitKept DEF CommitOpen, Commit, PartStages, OrderStages
  <2> QED
    BY <2>2, <2>3 DEF TypeInv
<1>6. CASE InsertFails(r)
  BY <1>6, RollbackInv DEF InsertFails, Ended
<1>7. CASE RespondOpened(r)
  <2>1. TypeOK'
    BY <1>1, <1>7 DEF RespondOpened, TypeOK, database, history, Ended
  <2>2. JobsFit'
    BY <1>7, FitKept DEF RespondOpened, PartStages, OrderStages
  <2> QED
    BY <2>1, <2>2 DEF TypeInv
<1> QED
  BY <1>2, <1>3, <1>4, <1>5, <1>6, <1>7

LEMMA MergedType ==
  ASSUME TypeInv, NEW r \in Requests, pc[r] \in OrderStages
  PROVE  Merged(r) \in Row(Marks)
<1>1. session[r].entity \in Row(Marks)
  BY SessionType DEF TypeInv, Sessions
<1>2. row[job[r].order] \in Row(Marks)
  BY DEF TypeInv, TypeOK, JobsFit
<1> QED
  BY <1>1, <1>2 DEF Merged, Row

LEMMA OrderChangeType ==
  ASSUME TypeInv, NEW r \in Requests,
         IncrementStock(r) \/ ReloadOrder(r) \/ CommitOrder(r) \/ NotifyStatusChange(r)
  PROVE  TypeInv'
<1>1. TypeOK /\ session[r] \in Sessions
  BY SessionType DEF TypeInv
<1>2. CASE IncrementStock(r)
  <2>1. TypeOK'
    BY <1>2, AssignStockType DEF IncrementStock
  <2>2. JobsFit'
    BY <1>2, FitKept DEF IncrementStock, AssignStock, Continue, PartStages, OrderStages
  <2> QED
    BY <2>1, <2>2 DEF TypeInv
<1>3. CASE ReloadOrder(r)
  <2> DEFINE c == Differ(session[r].entity, row[job[r].order])
  <2>1. c \in Flags
    BY DEF Differ, Flags
  <2>2. ASSUME NEW s \in Sessions, NEW f \in [Parts -> Int \cup {None}], NEW k \in Flags
        PROVE  [s EXCEPT !.flushed = f, !.dirty = None, !.changed = k] \in Sessions
    BY DEF Sessions
  <2>3. [session[r] EXCEPT !.flushed = Flushed(r), !.dirty = None, !.changed = c] \in Sessions
    <3> HIDE DEF c
    <3> QED
      BY <1>1, <2>1, <2>2, SessionType
  <2>4. TypeOK'
    BY <1>1, <1>3, <2>3, SessionType, ContinueType DEF ReloadOrder, TypeOK, Stages, Reading
  <2>5. JobsFit'
    BY <1>3, FitKept DEF ReloadOrder, Continue, PartStages, OrderStages
  <2> QED
    BY <2>4, <2>5 DEF TypeInv
<1>4. CASE CommitOrder(r)
  <2>1. Merged(r) \in Row(Marks) /\ Merged(r).status \in Statuses
    BY <1>4, MergedType DEF CommitOrder, OrderStages, Row
  <2>2. /\ opened' \in SUBSET OrderIds /\ row' \in [OrderIds -> Row(Marks)]
        /\ live' \in SUBSET Parts /\ seen' \in [OrderIds -> SUBSET Statuses]
    BY <1>1, <1>4, <2>1 DEF CommitOrder, TypeOK
  <2>3. TypeOK'
    BY <1>1, <1>4, <2>2, CommitType DEF CommitOrder, Stages, Replying
  <2>4. JobsFit'
    BY <1>4, FitKept DEF CommitOrder, Commit, PartStages, OrderStages
  <2> QED
    BY <2>3, <2>4 DEF TypeInv
<1>5. CASE NotifyStatusChange(r)
  <2>1. counted' \in Counters /\ notices' \in SUBSET Requests /\ pc' \in [Requests -> Stages]
    BY <1>1, <1>5 DEF NotifyStatusChange, TypeOK, Counters, effects, Stages, Ended
  <2>2. TypeOK'
    BY <1>1, <1>5, <2>1 DEF NotifyStatusChange, TypeOK, Counters, Stages, database, history
  <2>3. JobsFit'
    BY <1>5, FitKept DEF NotifyStatusChange, PartStages, OrderStages
  <2> QED
    BY <2>2, <2>3 DEF TypeInv
<1> QED
  BY <1>2, <1>3, <1>4, <1>5

LEMMA PartChangeType ==
  ASSUME TypeInv, NEW r \in Requests,
         ReloadPart(r) \/ CommitPart(r) \/ RefreshPart(r) \/ ReloadDelete(r) \/ CommitDelete(r)
  PROVE  TypeInv'
<1>1. TypeOK /\ session[r] \in Sessions
  BY SessionType DEF TypeInv
<1>2. /\ opened \in SUBSET OrderIds /\ row \in [OrderIds -> Row(Marks)]
      /\ live \in SUBSET Parts /\ seen \in [OrderIds -> SUBSET Statuses]
  BY <1>1 DEF TypeOK
<1>3. CASE ReloadPart(r)
  <2>1. CASE Rollback(r, "failed")
    BY <2>1, RollbackInv DEF Ended
  <2> DEFINE p == job[r].lines[1].part
             d == Pending(p, stock[p], session[r].held)
  <2>2. CASE Continue(r, "savePart", [session[r] EXCEPT !.dirty = d]) /\ UNCHANGED <<lock, number>>
    <3>1. job[r].lines \in Seq(Line) /\ Len(job[r].lines) = 1
      BY <1>1, <1>3 DEF TypeInv, TypeOK, JobsFit, Jobs, ReloadPart, PartStages
    <3>2. p \in Parts
      BY <3>1, LineType
    <3>3. d \in [part : Parts, value : Int] \cup {None}
      BY <1>1, <3>2 DEF Pending, Sessions
    <3>4. [session[r] EXCEPT !.dirty = d] \in Sessions
      <4> HIDE DEF d
      <4> QED
        BY <1>1, <3>3 DEF Sessions
    <3>5. TypeOK'
      BY <1>1, <2>2, <3>4, ContinueType DEF TypeOK, Stages, Reading
    <3>6. JobsFit'
      BY <1>3, <2>2, FitKept DEF ReloadPart, Continue, PartStages, OrderStages
    <3> QED
      BY <3>5, <3>6 DEF TypeInv
  <2> QED
    BY <1>3, <2>1, <2>2 DEF ReloadPart
<1>4. CASE CommitPart(r)
  <2>1. CASE Rollback(r, "failed")
    BY <2>1, RollbackInv DEF Ended
  <2>2. CASE Commit(r, "refresh") /\ UNCHANGED <<opened, row, live, seen>>
    <3>1. TypeOK'
      BY <1>1, <1>2, <2>2, CommitType DEF Stages, Replying
    <3>2. JobsFit'
      BY <1>4, <2>2, FitKept DEF CommitPart, Commit, PartStages, OrderStages
    <3> QED
      BY <3>1, <3>2 DEF TypeInv
  <2> QED
    BY <1>4, <2>1, <2>2 DEF CommitPart
<1>5. CASE RefreshPart(r)
  <2>1. TypeOK'
    BY <1>1, <1>5 DEF RefreshPart, TypeOK, database, effects, history, Ended
  <2>2. JobsFit'
    <3>1. PICK next \in {"ok", "failed"} : pc' = [pc EXCEPT ![r] = next] /\ UNCHANGED job
      BY <1>5 DEF RefreshPart
    <3> QED
      BY <3>1, FitKept DEF PartStages, OrderStages
  <2> QED
    BY <2>1, <2>2 DEF TypeInv
<1>6. CASE ReloadDelete(r)
  <2>1. CASE Rollback(r, "ok")
    BY <2>1, RollbackInv DEF Ended
  <2>2. CASE Continue(r, "erase", session[r]) /\ UNCHANGED <<lock, number>>
    <3>1. TypeOK'
      BY <1>1, <2>2, ContinueType DEF TypeOK, Stages, Reading
    <3>2. JobsFit'
      BY <1>6, <2>2, FitKept DEF ReloadDelete, Continue, PartStages, OrderStages
    <3> QED
      BY <3>1, <3>2 DEF TypeInv
  <2> QED
    BY <1>6, <2>1, <2>2 DEF ReloadDelete
<1>7. CASE CommitDelete(r)
  <2>1. CASE Rollback(r, "failed")
    BY <2>1, RollbackInv DEF Ended
  <2>2. CASE Commit(r, "ok") /\ live' \in SUBSET Parts /\ UNCHANGED <<opened, row, seen>>
    <3>1. TypeOK'
      BY <1>1, <1>2, <2>2, CommitType DEF Stages, Ended
    <3>2. JobsFit'
      BY <2>2, FitKept DEF Commit, PartStages, OrderStages
    <3> QED
      BY <3>1, <3>2 DEF TypeInv
  <2> QED
    BY <1>2, <1>7, <2>1, <2>2 DEF CommitDelete
<1> QED
  BY <1>3, <1>4, <1>5, <1>6, <1>7

LEMMA TypeStep == TypeInv /\ [Next]_vars => TypeInv'
<1> SUFFICES ASSUME TypeInv, [Next]_vars PROVE TypeInv'
  OBVIOUS
<1>1. CASE UNCHANGED vars
  BY <1>1 DEF TypeInv, TypeOK, JobsFit, vars, database, effects, history
<1>2. ASSUME NEW r \in Requests, Arrive(r)
      PROVE  TypeInv'
  BY <1>2, ArriveType
<1>3. ASSUME NEW r \in Requests, Proceed(r)
      PROVE  TypeInv'
  <2>1. CASE FlushError(r) \/ DeadlockVictim(r)
    BY <2>1, RollbackInv DEF FlushError, DeadlockVictim, Ended
  <2> QED
    BY <1>3, <2>1, OpeningType, OrderChangeType, PartChangeType DEF Proceed
<1>4. ASSUME NEW r \in Requests, Crash(r)
      PROVE  TypeInv'
  BY <1>4, RollbackInv DEF Crash, Ended
<1> QED
  BY <1>1, <1>2, <1>3, <1>4 DEF Next, AllEnded

\* Whatever the requests do, every column, lock, session and counter keeps the kind of
\* value the handlers read from it (TypeOK), and a handler that works on a part or on
\* an order has one (JobsFit): no interleaving leaves a statement without its operand.
THEOREM TypeCorrect == Spec => []TypeOK
<1>1. Spec => []TypeInv
  BY TypeInit, TypeStep, PTL DEF Spec
<1>2. TypeInv => TypeOK
  BY DEF TypeInv
<1> QED
  BY <1>1, <1>2, PTL
=============================================================================
