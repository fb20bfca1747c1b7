-------------------------- MODULE OrderHistoryProofs --------------------------
(***************************************************************************)
(* What every interleaving keeps of the orders: the stages one went        *)
(* through, what was said about them, and the numbers given out; then the  *)
(* locks, and the rows that no two overlapping requests shared.            *)
(*                                                                         *)
(* None of it is inductive alone.  A commit writes a status decided from a *)
(* row read long before, so the invariant remembers, for each handler      *)
(* under way, a status the order had had from which the transition is      *)
(* allowed (UnderwayAt).  On an order that nobody else shares it keeps     *)
(* more: what the handler holds is still one transition away from the row  *)
(* (Alone), so that order moves along the machine and carries the instants *)
(* of its status.                                                          *)
(***************************************************************************)
EXTENDS ServiceOrdersProofs

Opening  == {"check", "take", "respond"}
Deciding == {"return", "reloadOrder", "saveOrder"}

UnderwayAt(r) ==
  LET o == job[r].order  new == job[r].target IN
  /\ pc[r] = "idle" => r \notin notices \cup counted["transition"]
  /\ r \in notices \cup counted["transition"] => o \in OrderIds
  /\ pc[r] \in {"idle", "check", "take"} => r \notin opened
  /\ pc[r] \in Opening => o = r /\ new = "RECEBIDA"
  /\ pc[r] \in Deciding => /\ o \in opened
                           /\ session[r].entity.status = new
                           /\ \E q \in seen[o] : new \in VALID_TRANSITIONS[q]
  /\ pc[r] = "saveOrder" /\ ~session[r].changed.status => new \in seen[o]
  /\ pc[r] \in {"respond", "notify"} => new \in seen[o]

SeenFollowsRow ==
  \A o \in OrderIds : IF o \in opened THEN row[o].status \in seen[o] ELSE seen[o] = {}

HistoryInv ==
  /\ SeenFollowsRow
  /\ \A r \in Requests : UnderwayAt(r)
  /\ NoStageSkipped
  /\ ToldStatusHappened

-----------------------------------------------------------------------------
LEMMA HistoryInit == Init => HistoryInv
<1> SUFFICES ASSUME Init PROVE HistoryInv
  OBVIOUS
<1>1. PICK s \in [Existing -> InitialStatuses] :
        /\ row  = [o \in OrderIds |-> IF o \in Existing THEN RowAt(s[o]) ELSE NewRow]
        /\ seen = [o \in OrderIds |-> IF o \in Existing THEN {s[o]} ELSE {}]
  BY DEF Init
<1>2. SeenFollowsRow
  BY <1>1, ConstantTypes DEF Init, SeenFollowsRow, OrderIds
<1>3. \A r \in Requests : UnderwayAt(r)
  BY RequestsAssumption DEF Init, UnderwayAt, Opening, Deciding
<1>4. NoStageSkipped
  BY <1>1 DEF Init, NoStageSkipped, OrderIds
<1>5. ToldStatusHappened
  BY DEF Init, ToldStatusHappened
<1> QED
  BY <1>2, <1>3, <1>4, <1>5 DEF HistoryInv

\* A step that changes only request r and leaves the orders alone has to answer for r only.
LEMMA LocalStep ==
  ASSUME TypeInv, HistoryInv, NEW r \in Requests, UNCHANGED <<opened, row, seen>>,
         \A q \in Requests \ {r} : pc'[q] = pc[q] /\ job'[q] = job[q] /\ session'[q] = session[q],
         \A q \in Requests \ {r} : /\ q \in notices' <=> q \in notices
                                   /\ q \in counted'["transition"] <=> q \in counted["transition"],
         notices' \subseteq Requests, counted'["transition"] \subseteq Requests,
         UnderwayAt(r)',
         r \in notices' \cup counted'["transition"] => job'[r].target \in seen[job'[r].order]
  PROVE  HistoryInv'
<1>1. SeenFollowsRow' /\ NoStageSkipped'
  BY DEF HistoryInv, SeenFollowsRow, NoStageSkipped
<1>2. ASSUME NEW q \in Requests \ {r}
      PROVE  UnderwayAt(q)'
  BY <1>2 DEF HistoryInv, UnderwayAt
<1>3. ToldStatusHappened'
  BY DEF HistoryInv, ToldStatusHappened
<1> QED
  BY <1>1, <1>2, <1>3 DEF HistoryInv

LEMMA RollbackHistory ==
  ASSUME TypeInv, HistoryInv, NEW r \in Requests, NEW outcome \in Ended, Rollback(r, outcome)
  PROVE  HistoryInv'
<1>1. UnderwayAt(r)'
  <2>1. UnderwayAt(r)
    BY DEF HistoryInv
  <2> QED
    BY <2>1 DEF Rollback, UnderwayAt, effects, TypeInv, TypeOK, Ended, Opening, Deciding
<1>2. r \in notices' \cup counted'["transition"] => job'[r].target \in seen[job'[r].order]
  BY DEF HistoryInv, ToldStatusHappened, Rollback, effects
<1> QED
  BY <1>1, <1>2, LocalStep DEF Rollback, TypeInv, TypeOK, database, effects, history

\* A transaction that commits something else than an order.
LEMMA QuietCommitHistory ==
  ASSUME TypeInv, HistoryInv, NEW r \in Requests, NEW next \in {"refresh"} \cup Ended,
         Commit(r, next), UNCHANGED <<opened, row, seen>>
  PROVE  HistoryInv'
<1>1. UnderwayAt(r)'
  <2>1. UnderwayAt(r)
    BY DEF HistoryInv
  <2> QED
    BY <2>1 DEF Commit, UnderwayAt, effects, TypeInv, TypeOK, Ended, Opening, Deciding
<1>2. r \in notices' \cup counted'["transition"] => job'[r].target \in seen[job'[r].order]
  BY DEF HistoryInv, ToldStatusHappened, Commit, effects
<1> QED
  BY <1>1, <1>2, LocalStep DEF Commit, TypeInv, TypeOK, effects

\* A handler that goes on inside its transaction with the same order in mind.
LEMMA ContinueHistory ==
  ASSUME TypeInv, HistoryInv, NEW r \in Requests, NEW next \in Reading, NEW s, Continue(r, next, s),
         next \in {"check", "take"} => pc[r] \in {"check", "take"},
         next \in Deciding => pc[r] \in Deciding /\ s.entity = session[r].entity,
         next = "saveOrder" => s.changed.status = (s.entity.status # row[job[r].order].status)
  PROVE  HistoryInv'
<1>1. /\ pc' = [pc EXCEPT ![r] = next] /\ session' = [session EXCEPT ![r] = s]
      /\ UNCHANGED <<opened, row, seen, job, notices, counted>>
  BY DEF Continue, database, effects, history
<1>2. pc'[r] = next /\ session'[r] = s
  BY <1>1 DEF TypeInv, TypeOK
<1>3. UnderwayAt(r)
  BY DEF HistoryInv
<1>4. next = "saveOrder" /\ ~s.changed.status => job[r].target \in seen[job[r].order]
  <2> SUFFICES ASSUME next = "saveOrder", ~s.changed.status
               PROVE  job[r].target \in seen[job[r].order]
    OBVIOUS
  <2>1. job[r].order \in opened /\ s.entity.status = job[r].target
    BY <1>3 DEF UnderwayAt, Deciding
  <2>2. row[job[r].order].status \in seen[job[r].order]
    BY <2>1 DEF HistoryInv, SeenFollowsRow, TypeInv, TypeOK
  <2> QED
    BY <2>1, <2>2
<1>5. UnderwayAt(r)'
  BY <1>1, <1>2, <1>3, <1>4 DEF UnderwayAt, Opening, Deciding, Reading
<1>6. r \in notices' \cup counted'["transition"] => job'[r].target \in seen[job'[r].order]
  BY <1>1 DEF HistoryInv, ToldStatusHappened
<1> QED
  BY <1>1, <1>5, <1>6, LocalStep DEF TypeInv, TypeOK

\* A request that starts: a transition was allowed by the row as it stands.
LEMMA StartHistory ==
  ASSUME TypeInv, HistoryInv, NEW r \in Requests, NEW j \in Jobs,
         NEW next \in {"check", "rejected", "return", "reloadOrder", "reloadPart", "reloadDelete"},
         Start(r, j, next), counted'["transition"] = counted["transition"],
         \A q \in Requests \ {r} : session'[q] = session[q],
         next = "check" => j.order = r /\ j.target = "RECEBIDA",
         next \in {"return", "reloadOrder"} =>
           CanTransition(j.order, j.target) /\ session'[r].entity.status = j.target
  PROVE  HistoryInv'
<1>1. /\ pc[r] = "idle" /\ pc' = [pc EXCEPT ![r] = next] /\ job' = [job EXCEPT ![r] = j]
      /\ UNCHANGED <<opened, row, seen, notices>>
  BY DEF Start, database
<1>2. pc'[r] = next /\ job'[r] = j
  BY <1>1 DEF TypeInv, TypeOK
<1>3. r \notin opened /\ r \notin notices \cup counted["transition"]
  BY <1>1 DEF HistoryInv, UnderwayAt
<1>4. ASSUME next \in {"return", "reloadOrder"}
      PROVE  /\ j.order \in opened
             /\ \E q \in seen[j.order] : j.target \in VALID_TRANSITIONS[q]
  BY <1>4 DEF CanTransition, HistoryInv, SeenFollowsRow, TypeInv, TypeOK
<1>5. UnderwayAt(r)'
  BY <1>1, <1>2, <1>3, <1>4 DEF UnderwayAt, Opening, Deciding
<1> QED
  BY <1>1, <1>3, <1>5, LocalStep DEF TypeInv, TypeOK

LEMMA ArriveHistory ==
  ASSUME TypeInv, HistoryInv, NEW r \in Requests, Arrive(r)
  PROVE  HistoryInv'
<1>1. TypeOK /\ r \in OrderIds /\ (\A o \in OrderIds : Lines(o) \in Seq(Line) /\ row[o] \in Row(Marks))
  BY LinesType DEF TypeInv, TypeOK, OrderIds
<1>2. <<>> \in Seq(Line)
  OBVIOUS
<1>3. ASSUME NEW o \in OrderIds, NEW new \in Statuses, Load(r, o, new)
      PROVE  /\ session'[r].entity.status = new
             /\ \A q \in Requests \ {r} : session'[q] = session[q]
  <2>1. session'[r].entity = TransitionTo(row[o], new, r)
    BY <1>1, <1>3, SessionType DEF Load, Sessions, TypeOK
  <2>2. TransitionTo(row[o], new, r).status = new
    BY <1>1 DEF TransitionTo, Row
  <2> QED
    BY <1>1, <1>3, <2>1, <2>2 DEF Load, TypeOK
<1>4. CASE OpenServiceOrder(r)
  <2>1. PICK lines \in OpenLines, next \in {"check", "rejected"} :
          Start(r, Job("open", r, "RECEBIDA", lines), next) /\ UNCHANGED <<session, counted>>
    BY <1>4 DEF OpenServiceOrder
  <2>2. /\ Job("open", r, "RECEBIDA", lines) \in Jobs
        /\ Job("open", r, "RECEBIDA", lines).order = r /\ Job("open", r, "RECEBIDA", lines).target = "RECEBIDA"
    BY <1>1, OrderJob, InputsAssumption DEF Statuses
  <2> QED
    BY <2>1, <2>2, StartHistory
<1>5. CASE UpdateStatus(r)
  <2>1. PICK o \in OrderIds, new \in Statuses, next \in {"reloadOrder", "rejected"} :
          /\ Start(r, Job("update", o, new, <<>>), next)
          /\ counted'["transition"] = counted["transition"]
          /\ IF next = "reloadOrder" THEN CanTransition(o, new) /\ Load(r, o, new) ELSE UNCHANGED session
    BY <1>1, <1>5 DEF UpdateStatus, TypeOK
  <2>2. Job("update", o, new, <<>>) \in Jobs /\ Job("update", o, new, <<>>).order = o /\ Job("update", o, new, <<>>).target = new
    BY <1>2, OrderJob
  <2> QED
    BY <1>3, <2>1, <2>2, StartHistory
<1>6. CASE ApproveBudget(r)
  <2>1. PICK o \in OrderIds, new \in {"EM_EXECUCAO", "ORCAMENTO_RECUSADO"}, lines \in Seq(Line),
             next \in {"reloadOrder", "return", "rejected"} :
          /\ Start(r, Job("approve", o, new, lines), next) /\ UNCHANGED counted
          /\ IF next # "rejected" THEN CanTransition(o, new) /\ Load(r, o, new) ELSE UNCHANGED session
    BY <1>1, <1>2, <1>6 DEF ApproveBudget
  <2>2. new \in Statuses
    BY DEF Statuses
  <2>3. Job("approve", o, new, lines) \in Jobs /\ Job("approve", o, new, lines).order = o /\ Job("approve", o, new, lines).target = new
    BY <2>2, OrderJob
  <2> QED
    BY <1>3, <2>1, <2>2, <2>3, StartHistory
<1>7. CASE AdjustPartStock(r)
  <2>1. PICK p \in Parts, d \in Int, next \in {"reloadPart", "rejected"} :
          /\ Start(r, Job("adjust", None, "RECEBIDA", <<[part |-> p, qty |-> d]>>), next) /\ UNCHANGED counted
          /\ \A q \in Requests \ {r} : session'[q] = session[q]
    BY <1>1, <1>7, InputsAssumption DEF AdjustPartStock, TypeOK
  <2>2. Job("adjust", None, "RECEBIDA", <<[part |-> p, qty |-> d]>>) \in Jobs
    BY PartJob
  <2> QED
    BY <2>1, <2>2, StartHistory
<1>8. CASE UpdatePart(r)
  <2>1. PICK p \in Parts, next \in {"reloadPart", "rejected"} :
          /\ Start(r, Job("edit", None, "RECEBIDA", <<[part |-> p, qty |-> 0]>>), next) /\ UNCHANGED counted
          /\ \A q \in Requests \ {r} : session'[q] = session[q]
    BY <1>1, <1>8 DEF UpdatePart, TypeOK
  <2>2. Job("edit", None, "RECEBIDA", <<[part |-> p, qty |-> 0]>>) \in Jobs
    BY PartJob
  <2> QED
    BY <2>1, <2>2, StartHistory
<1>9. CASE DeletePart(r)
  <2>1. PICK p \in Parts, next \in {"reloadDelete", "rejected"} :
          Start(r, Job("delete", None, "RECEBIDA", <<[part |-> p, qty |-> 0]>>), next) /\ UNCHANGED <<session, counted>>
    BY <1>9 DEF DeletePart
  <2>2. Job("delete", None, "RECEBIDA", <<[part |-> p, qty |-> 0]>>) \in Jobs
    BY PartJob
  <2> QED
    BY <2>1, <2>2, StartHistory
<1> QED
  BY <1>4, <1>5, <1>6, <1>7, <1>8, <1>9 DEF Arrive

\* What an order had had it keeps, and every other handler under way is still right.
LEMMA CommitHistory ==
  ASSUME TypeInv, HistoryInv, NEW r \in Requests, NEW next \in {"respond", "notify"}, Commit(r, next),
         NEW o \in OrderIds, NEW w \in Row(Marks),
         job[r].order = o, w.status = job[r].target \/ job[r].target \in seen[o],
         opened' = opened \cup {o}, row' = [row EXCEPT ![o] = w],
         seen' = [seen EXCEPT ![o] = @ \cup {w.status}],
         o \notin opened => o = r,
         \/ o \in opened /\ (w.status = row[o].status \/ \E q \in seen[o] : w.status \in VALID_TRANSITIONS[q])
         \/ o \notin opened,
         next = "respond" => job[r].order = r /\ job[r].target = "RECEBIDA"
  PROVE  HistoryInv'
<1>1. /\ pc' = [pc EXCEPT ![r] = next] /\ UNCHANGED <<job, notices, counted>>
      /\ \A q \in Requests \ {r} : session'[q] = session[q] /\ pc'[q] = pc[q]
      /\ pc'[r] = next
  BY DEF Commit, effects, TypeInv, TypeOK
<1>2. /\ \A x \in OrderIds : seen[x] \subseteq seen'[x]
      /\ seen'[o] = seen[o] \cup {w.status} /\ row'[o] = w
      /\ \A x \in OrderIds \ {o} : seen'[x] = seen[x] /\ row'[x] = row[x]
  BY DEF TypeInv, TypeOK
<1>3. SeenFollowsRow'
  BY <1>2 DEF HistoryInv, SeenFollowsRow
<1>4. ASSUME NEW q \in Requests \ {r}
      PROVE  UnderwayAt(q)'
  <2>1. UnderwayAt(q)
    BY DEF HistoryInv
  <2>2. pc[q] \in OrderStages \cup {"respond"} => job[q].order \in OrderIds
    BY <2>1 DEF UnderwayAt, Opening, OrderIds, TypeInv, JobsFit
  <2>3. q \in opened' <=> q \in opened
    BY <1>4
  <2> QED
    BY <1>1, <1>2, <2>1, <2>2, <2>3 DEF UnderwayAt, Opening, Deciding, OrderStages
<1>5. UnderwayAt(r)'
  <2>1. UnderwayAt(r)
    BY DEF HistoryInv
  <2> QED
    BY <1>1, <1>2, <2>1 DEF UnderwayAt, Opening, Deciding
<1>6. NoStageSkipped'
  <2> SUFFICES ASSUME NEW x \in opened'
               PROVE  \E first \in seen'[x] : \A s \in seen'[x] \ {first} : \E q \in seen'[x] : s \in VALID_TRANSITIONS[q]
    BY DEF NoStageSkipped
  <2>1. CASE x # o
    BY <1>2, <2>1 DEF HistoryInv, NoStageSkipped, TypeInv, TypeOK
  <2>2. CASE x = o /\ o \notin opened
    <3>1. seen'[o] = {w.status}
      BY <1>2, <2>2 DEF HistoryInv, SeenFollowsRow
    <3> QED
      BY <2>2, <3>1
  <2>3. CASE x = o /\ o \in opened
    <3>1. w.status \in seen[o] \/ \E q \in seen[o] : w.status \in VALID_TRANSITIONS[q]
      BY <2>3 DEF HistoryInv, SeenFollowsRow
    <3> QED
      BY <1>2, <2>3, <3>1 DEF HistoryInv, NoStageSkipped
  <2> QED
    BY <2>1, <2>2, <2>3
<1>7. ToldStatusHappened'
  BY <1>1, <1>2 DEF HistoryInv, ToldStatusHappened, UnderwayAt, TypeInv, TypeOK
<1> QED
  BY <1>3, <1>4, <1>5, <1>6, <1>7 DEF HistoryInv

LEMMA CommitOpenHistory ==
  ASSUME TypeInv, HistoryInv, NEW r \in Requests, CommitOpen(r)
  PROVE  HistoryInv'
<1>1. UnderwayAt(r) /\ r \in OrderIds /\ pc[r] = "take"
  BY DEF HistoryInv, OrderIds, CommitOpen
<1>2. r \notin opened /\ job[r].order = r /\ job[r].target = "RECEBIDA"
  BY <1>1 DEF UnderwayAt, Opening
<1>3. seen[r] = {} /\ seen \in [OrderIds -> SUBSET Statuses]
  BY <1>1, <1>2 DEF HistoryInv, SeenFollowsRow, TypeInv, TypeOK
<1>4. seen' = [seen EXCEPT ![r] = @ \cup {NewRow.status}]
  BY <1>3 DEF CommitOpen, NewRow
<1>5. NewRow.status = "RECEBIDA"
  BY DEF NewRow
<1> QED
  BY <1>1, <1>2, <1>4, <1>5, ConstantTypes, CommitHistory DEF CommitOpen

LEMMA CommitOrderHistory ==
  ASSUME TypeInv, HistoryInv, NEW r \in Requests, CommitOrder(r)
  PROVE  HistoryInv'
<1> DEFINE o == job[r].order
           w == Merged(r)
<1>1. UnderwayAt(r) /\ pc[r] = "saveOrder"
  BY DEF HistoryInv, CommitOrder
<1>2. w \in Row(Marks)
  BY <1>1, MergedType DEF OrderStages
<1>3. o \in opened /\ o \in OrderIds
  BY <1>1 DEF UnderwayAt, Deciding, TypeInv, TypeOK
<1>4. /\ Commit(r, "notify") /\ opened' = opened \cup {o} /\ row' = [row EXCEPT ![o] = w]
      /\ seen' = [seen EXCEPT ![o] = @ \cup {w.status}]
  BY <1>3 DEF CommitOrder
<1>5. \/ w.status = job[r].target /\ \E q \in seen[o] : w.status \in VALID_TRANSITIONS[q]
      \/ w.status = row[o].status /\ job[r].target \in seen[o]
  BY <1>1 DEF Merged, UnderwayAt, Deciding
<1>6. job[r].order = o
  OBVIOUS
<1> HIDE DEF o, w
<1> QED
  BY <1>2, <1>3, <1>4, <1>5, <1>6, CommitHistory

\* The controller records what was opened, or what changed, after the commit.
LEMMA ReplyHistory ==
  ASSUME TypeInv, HistoryInv, NEW r \in Requests, RespondOpened(r) \/ NotifyStatusChange(r)
  PROVE  HistoryInv'
<1>1. UnderwayAt(r) /\ TypeOK /\ JobsFit
  BY DEF HistoryInv, TypeInv
<1>2. /\ pc[r] \in {"respond", "notify"} /\ pc'[r] \in {"ok", "failed"}
      /\ UNCHANGED <<opened, row, seen, job, session>>
      /\ \A q \in Requests \ {r} : pc'[q] = pc[q]
      /\ notices' \in {notices, notices \cup {r}}
      /\ counted'["transition"] \in {counted["transition"], counted["transition"] \cup {r}}
  BY <1>1 DEF RespondOpened, NotifyStatusChange, TypeOK, database, history, effects
<1>3. job[r].order \in OrderIds /\ job[r].target \in seen[job[r].order]
  BY <1>1, <1>2 DEF UnderwayAt, Opening, OrderIds, JobsFit, OrderStages
<1>4. UnderwayAt(r)'
  BY <1>1, <1>2, <1>3 DEF UnderwayAt, Opening, Deciding
<1> QED
  BY <1>1, <1>2, <1>3, <1>4, LocalStep DEF TypeOK

LEMMA ProceedHistory ==
  ASSUME TypeInv, HistoryInv, NEW r \in Requests, Proceed(r)
  PROVE  HistoryInv'
<1>1. session[r] \in Sessions
  BY SessionType DEF TypeInv
<1>2. CASE CheckPart(r) \/ CountOrders(r)
  <2>1. CASE Rollback(r, "rejected")
    BY <2>1, RollbackHistory DEF Ended
  <2>2. CASE \E next \in {"check", "take"}, s \in {[session[r] EXCEPT !.line = @ + 1], [session[r] EXCEPT !.line = 1]} :
               pc[r] = "check" /\ Continue(r, next, s)
    BY <2>2, ContinueHistory DEF Reading, Deciding
  <2> QED
    BY <1>2, <2>1, <2>2 DEF CheckPart, CountOrders
<1>3. CASE DecrementStock(r) \/ IncrementStock(r)
  <2>1. \A f, d : [session[r] EXCEPT !.line = @ + 1, !.flushed = f, !.dirty = d].entity = session[r].entity
    BY <1>1 DEF Sessions
  <2>2. PICK s : /\ pc[r] \in {"take", "return"} /\ Continue(r, pc[r], s)
                 /\ s.entity = session[r].entity
    BY <1>3, <2>1 DEF DecrementStock, IncrementStock, AssignStock
  <2> QED
    BY <2>2, ContinueHistory DEF Reading, Deciding
<1>4. CASE ReloadOrder(r)
  <2>1. \A f, d, c : LET s == [session[r] EXCEPT !.flushed = f, !.dirty = d, !.changed = c] IN
          s.entity = session[r].entity /\ s.changed = c
    BY <1>1 DEF Sessions
  <2> DEFINE c == Differ(session[r].entity, row[job[r].order])
             s == [session[r] EXCEPT !.flushed = Flushed(r), !.dirty = None, !.changed = c]
  <2>2. pc[r] \in {"reloadOrder", "return"} /\ Continue(r, "saveOrder", s)
    BY <1>4 DEF ReloadOrder
  <2>3. s.entity = session[r].entity /\ s.changed = c
    BY <2>1
  <2>4. c.status = (session[r].entity.status # row[job[r].order].status)
    BY DEF Differ
  <2> HIDE DEF s, c
  <2> QED
    BY <2>2, <2>3, <2>4, ContinueHistory DEF Reading, Deciding
<1>5. CASE CommitOpen(r) \/ CommitOrder(r)
  BY <1>5, CommitOpenHistory, CommitOrderHistory
<1>6. CASE RespondOpened(r) \/ NotifyStatusChange(r)
  BY <1>6, ReplyHistory
<1>7. CASE ReloadPart(r) \/ ReloadDelete(r)
  <2>1. CASE Rollback(r, "failed") \/ Rollback(r, "ok")
    BY <2>1, RollbackHistory DEF Ended
  <2>2. CASE \E next \in {"savePart", "erase"} : \E s : Continue(r, next, s)
    BY <2>2, ContinueHistory DEF Reading, Deciding
  <2> QED
    BY <1>7, <2>1, <2>2 DEF ReloadPart, ReloadDelete
<1>8. CASE CommitPart(r) \/ CommitDelete(r)
  BY <1>8, RollbackHistory, QuietCommitHistory DEF CommitPart, CommitDelete, Ended
<1>9. CASE RefreshPart(r)
  <2>1. /\ pc'[r] \in {"ok", "failed"} /\ UNCHANGED <<opened, row, seen, job, session, notices, counted>>
        /\ \A q \in Requests \ {r} : pc'[q] = pc[q]
        /\ pc[r] # "idle"
    BY <1>9 DEF RefreshPart, TypeInv, TypeOK, database, effects, history
  <2>2. UnderwayAt(r)'
    BY <2>1 DEF HistoryInv, UnderwayAt, Opening, Deciding
  <2>3. r \in notices' \cup counted'["transition"] => job'[r].target \in seen[job'[r].order]
    BY <2>1 DEF HistoryInv, ToldStatusHappened
  <2> QED
    BY <2>1, <2>2, <2>3, LocalStep DEF TypeInv, TypeOK
<1>10. CASE InsertFails(r) \/ FlushError(r) \/ DeadlockVictim(r)
  BY <1>10, RollbackHistory DEF InsertFails, FlushError, DeadlockVictim, Ended
<1> QED
  BY <1>2, <1>3, <1>4, <1>5, <1>6, <1>7, <1>8, <1>9, <1>10 DEF Proceed

LEMMA HistoryStep == TypeInv /\ HistoryInv /\ [Next]_vars => HistoryInv'
<1> SUFFICES ASSUME TypeInv, HistoryInv, [Next]_vars PROVE HistoryInv'
  OBVIOUS
<1>1. CASE UNCHANGED vars
  BY <1>1 DEF HistoryInv, SeenFollowsRow, UnderwayAt, NoStageSkipped, ToldStatusHappened,
              vars, database, effects, history
<1>2. ASSUME NEW r \in Requests, Crash(r)
      PROVE  HistoryInv'
  BY <1>2, RollbackHistory DEF Crash, Ended
<1> QED
  BY <1>1, <1>2, ArriveHistory, ProceedHistory DEF Next, AllEnded

LEMMA HistoryAlways == Spec => [](TypeInv /\ HistoryInv)
<1>1. Init => TypeInv /\ HistoryInv
  BY TypeInit, HistoryInit
<1>2. (TypeInv /\ HistoryInv) /\ [Next]_vars => (TypeInv /\ HistoryInv)'
  BY TypeStep, HistoryStep
<1> QED
  BY <1>1, <1>2, PTL DEF Spec

\* Two requests may decide on the same row, and the second write what is no longer
\* allowed; still every status of an order's history but the first was reached from one
\* it had had, for transition_to judged a row that some commit had written.
THEOREM StagesNeverSkipped == Spec => []NoStageSkipped
<1>1. HistoryInv => NoStageSkipped
  BY DEF HistoryInv
<1> QED
  BY <1>1, HistoryAlways, PTL

\* What the client is told and the transition counter counts was committed, for any
\* number of requests racing for the same order.
THEOREM ToldIsTrue == Spec => []ToldStatusHappened
<1>1. HistoryInv => ToldStatusHappened
  BY DEF HistoryInv
<1> QED
  BY <1>1, HistoryAlways, PTL

-----------------------------------------------------------------------------
(***************************************************************************)
(* Numbers                                                                 *)
(***************************************************************************)

\* No suffix is above the number of orders, and none being carried is more than one
\* above it: an order never disappears, so a count only grows old downwards.
NumbersBounded ==
  /\ \A o \in opened : Number(o) \in Numbers /\ Number(o).seq <= Cardinality(opened)
  /\ \A r \in Requests :
       pc[r] = "take" => number[r] \in Numbers /\ number[r].seq <= Cardinality(opened) + 1

LEMMA NumbersInit == Init => NumbersBounded
BY RequestsAssumption, NumbersAssumption DEF Init, NumbersBounded, Number

\* Only the count and the commit of an opening bear on the numbers.
LEMMA NumbersFrame ==
  ASSUME TypeInv, [Next]_vars, ~(\E r \in Requests : CountOrders(r) \/ CommitOpen(r))
  PROVE  UNCHANGED <<opened, number>> /\ \A q \in Requests : pc'[q] = "take" => pc[q] = "take"
<1> DEFINE Kept == UNCHANGED <<opened, number>> /\ \A q \in Requests : pc'[q] = "take" => pc[q] = "take"
<1>1. CASE UNCHANGED vars
  BY <1>1 DEF vars, database
<1>2. ASSUME NEW r \in Requests, Arrive(r)
      PROVE  Kept
  <2>1. ASSUME NEW j, NEW next, Start(r, j, next), next # "take"
        PROVE  Kept
    BY <2>1 DEF Start, database, TypeInv, TypeOK
  <2>2. CASE OpenServiceOrder(r)
    BY <2>1, <2>2 DEF OpenServiceOrder
  <2>3. CASE UpdateStatus(r)
    BY <2>1, <2>3 DEF UpdateStatus
  <2>4. CASE ApproveBudget(r)
    BY <2>1, <2>4 DEF ApproveBudget
  <2>5. CASE AdjustPartStock(r) \/ UpdatePart(r) \/ DeletePart(r)
    BY <2>1, <2>5 DEF AdjustPartStock, UpdatePart, DeletePart
  <2> QED
    BY <1>2, <2>2, <2>3, <2>4, <2>5 DEF Arrive
<1>3. ASSUME NEW r \in Requests, NEW outcome \in Ended, Rollback(r, outcome)
      PROVE  Kept
  BY <1>3 DEF Rollback, database, Ended, TypeInv, TypeOK
<1>4. ASSUME NEW r \in Requests, Proceed(r)
      PROVE  Kept
  <2>1. ASSUME NEW next, NEW s, Continue(r, next, s), UNCHANGED number, next = "take" => pc[r] = "take"
        PROVE  Kept
    BY <2>1 DEF Continue, database, TypeInv, TypeOK
  <2>2. ASSUME NEW next, Commit(r, next), UNCHANGED opened, next # "take"
        PROVE  Kept
    BY <2>2 DEF Commit, TypeInv, TypeOK
  <2>3. CASE CheckPart(r)
    BY <1>3, <2>1, <2>3 DEF CheckPart, Ended
  <2>4. CASE DecrementStock(r) \/ IncrementStock(r)
    BY <2>1, <2>4 DEF DecrementStock, IncrementStock, AssignStock
  <2>5. CASE InsertFails(r) \/ FlushError(r) \/ DeadlockVictim(r)
    BY <1>3, <2>5 DEF InsertFails, FlushError, DeadlockVictim, Ended
  <2>6. CASE RespondOpened(r) \/ NotifyStatusChange(r) \/ RefreshPart(r)
    BY <2>6 DEF RespondOpened, NotifyStatusChange, RefreshPart, database, TypeInv, TypeOK
  <2>7. CASE ReloadOrder(r)
    BY <2>1, <2>7 DEF ReloadOrder
  <2>8. CASE CommitOrder(r)
    BY <2>2, <2>8 DEF CommitOrder
  <2>9. CASE ReloadPart(r) \/ ReloadDelete(r)
    BY <1>3, <2>1, <2>9 DEF ReloadPart, ReloadDelete, Ended
  <2>10. CASE CommitPart(r) \/ CommitDelete(r)
    BY <1>3, <2>2, <2>10 DEF CommitPart, CommitDelete, Ended
  <2> QED
    BY <1>4, <2>3, <2>4, <2>5, <2>6, <2>7, <2>8, <2>9, <2>10 DEF Proceed
<1>5. ASSUME NEW r \in Requests, Crash(r)
      PROVE  Kept
  BY <1>3, <1>5 DEF Crash, Ended
<1> QED
  BY <1>1, <1>2, <1>4, <1>5 DEF Next, AllEnded

LEMMA NumbersStep ==
  TypeInv /\ HistoryInv /\ NumbersBounded /\ [Next]_vars => NumbersBounded'
<1> SUFFICES ASSUME TypeInv, HistoryInv, NumbersBounded, [Next]_vars
             PROVE  NumbersBounded'
  OBVIOUS
<1>1. IsFiniteSet(opened) /\ Cardinality(opened) \in Nat
  BY OpenedFinite, FS_CardinalityType DEF TypeInv
<1>2. ASSUME NEW o \in opened, NEW q \in Requests, pc[q] = "check" \/ pc[q] = "take"
      PROVE  o # q
  BY <1>2 DEF HistoryInv, UnderwayAt
<1>3. ASSUME NEW r \in Requests, CountOrders(r)
      PROVE  NumbersBounded'
  <2>1. PICK d \in Days : number' = [number EXCEPT ![r] = [day |-> d, seq |-> Cardinality(opened) + 1]]
    BY <1>3 DEF CountOrders
  <2>2. pc[r] = "check" /\ UNCHANGED opened /\ \A q \in Requests \ {r} : pc'[q] = pc[q]
    BY <1>3 DEF CountOrders, Continue, database, TypeInv, TypeOK
  <2>3. \A q \in Requests \ {r} : number'[q] = number[q]
    BY <2>1 DEF TypeInv, TypeOK
  <2>4. number'[r] \in Numbers /\ number'[r].seq = Cardinality(opened) + 1
    BY <1>1, <2>1 DEF Numbers, TypeInv, TypeOK
  <2>5. \A o \in opened : Number(o)' = Number(o)
    BY <1>2, <2>2, <2>3 DEF Number
  <2> QED
    BY <1>1, <2>2, <2>3, <2>4, <2>5 DEF NumbersBounded
<1>4. ASSUME NEW r \in Requests, CommitOpen(r)
      PROVE  NumbersBounded'
  <2>1. pc[r] = "take" /\ opened' = opened \cup {r} /\ UNCHANGED number /\ \A q \in Requests \ {r} : pc'[q] = pc[q]
    BY <1>4 DEF CommitOpen, Commit, TypeInv, TypeOK
  <2>2. Cardinality(opened') = Cardinality(opened) + 1
    BY <1>1, <1>2, <2>1, FS_AddElement
  <2>3. pc'[r] # "take"
    BY <1>4 DEF CommitOpen, Commit, TypeInv, TypeOK
  <2>4. \A o \in opened' : Number(o)' = Number(o)
    BY <2>1 DEF Number
  <2>5. \A n \in Numbers : n.seq \in Nat
    BY DEF Numbers
  <2> QED
    BY <1>1, <2>1, <2>2, <2>3, <2>4, <2>5 DEF NumbersBounded, Number
<1>5. CASE ~(\E r \in Requests : CountOrders(r) \/ CommitOpen(r))
  BY <1>5, NumbersFrame DEF NumbersBounded, Number
<1> QED
  BY <1>3, <1>4, <1>5

\* As long as an opening's count is the number of orders, no order has its number: only
\* an opening that committed in between can make its INSERT break UNIQUE(number), on
\* whatever days the two were dated.
THEOREM FreshNumbersAreFree == Spec => []FreshNumberIsFree
<1>1. Init => NumbersBounded
  BY NumbersInit
<1>2. TypeInv /\ HistoryInv /\ NumbersBounded => FreshNumberIsFree
  <2> SUFFICES ASSUME TypeInv, NumbersBounded, NEW r \in Requests, pc[r] = "take",
                      number[r].seq = Cardinality(opened) + 1, NEW o \in opened
               PROVE  Number(o) # number[r]
    BY DEF FreshNumberIsFree
  <2>1. Cardinality(opened) \in Nat /\ Number(o).seq \in Nat /\ Number(o).seq <= Cardinality(opened)
    BY OpenedFinite, FS_CardinalityType DEF TypeInv, NumbersBounded, Numbers
  <2> QED
    BY <2>1
<1> QED
  BY <1>1, <1>2, NumbersStep, HistoryAlways, PTL DEF Spec

-----------------------------------------------------------------------------
(***************************************************************************)
(* Locks                                                                   *)
(***************************************************************************)
Writing == {"take", "return", "saveOrder"}

\* A step of r leaves the locks of the others alone, so it answers for its own.
LEMMA OwnersKept ==
  ASSUME TypeInv, LocksHaveOwners, NEW r \in Requests,
         \A q \in Requests \ {r} : pc'[q] = pc[q] /\ session'[q] = session[q],
         \A p \in Parts : lock'[p] \in {lock[p], r, None},
         \A p \in Parts : lock'[p] = r => pc'[r] \in Writing /\ session'[r].flushed[p] # None
  PROVE  LocksHaveOwners'
BY DEF LocksHaveOwners, TypeInv, TypeOK, Writing

\* A transaction that ends frees what it wrote.
LEMMA FreeOwners ==
  ASSUME TypeInv, LocksHaveOwners, NEW r \in Requests, lock' = Free(r),
         \A q \in Requests \ {r} : pc'[q] = pc[q] /\ session'[q] = session[q]
  PROVE  LocksHaveOwners'
<1>1. r # None
  BY RequestsAssumption
<1>2. \A p \in Parts : lock'[p] \in {lock[p], None} /\ lock'[p] # r
  BY <1>1 DEF Free
<1> QED
  BY <1>2, OwnersKept

\* A handler that has written nothing owns nothing.
LEMMA IdleOwners ==
  ASSUME TypeInv, LocksHaveOwners, NEW r \in Requests, pc[r] \notin Writing, UNCHANGED lock,
         \A q \in Requests \ {r} : pc'[q] = pc[q] /\ session'[q] = session[q]
  PROVE  LocksHaveOwners'
<1>1. r # None
  BY RequestsAssumption
<1>2. \A p \in Parts : lock'[p] = lock[p] /\ lock'[p] # r
  BY <1>1 DEF LocksHaveOwners, Writing
<1> QED
  BY <1>2, OwnersKept

\* A SELECT that flushes the pending assignment locks its row, and remembers what it wrote.
LEMMA FlushOwners ==
  ASSUME TypeInv, LocksHaveOwners, NEW r \in Requests, NEW next \in Writing,
         pc' = [pc EXCEPT ![r] = next], lock' = LockFlushed(r), session'[r].flushed = Flushed(r),
         \A q \in Requests \ {r} : session'[q] = session[q]
  PROVE  LocksHaveOwners'
<1>1. r # None /\ TypeOK /\ session[r] \in Sessions
  BY RequestsAssumption, SessionType DEF TypeInv
<1>2. pc'[r] = next /\ \A q \in Requests \ {r} : pc'[q] = pc[q]
  BY <1>1 DEF TypeOK
<1>3. ASSUME NEW p \in Parts
      PROVE  lock'[p] \in {lock[p], r, None}
  BY <1>1 DEF LockFlushed, Sessions, TypeOK
<1>4. ASSUME NEW p \in Parts, lock'[p] = r
      PROVE  Flushed(r)[p] # None
  <2>1. CASE lock[p] = r
    <3>1. session[r].flushed[p] # None
      BY <1>1, <2>1 DEF LocksHaveOwners
    <3> QED
      BY <1>1, <3>1, RequestsAssumption DEF Flushed, Sessions
  <2>2. CASE lock[p] # r
    <3>1. session[r].dirty # None /\ session[r].dirty.part = p
      BY <1>1, <1>4, <2>2 DEF LockFlushed, TypeOK, Sessions
    <3>2. session[r].dirty.value \in Int
      BY <1>1, <3>1 DEF Sessions
    <3> QED
      BY <1>1, <3>1, <3>2, RequestsAssumption DEF Flushed, Sessions
  <2> QED
    BY <2>1, <2>2
<1> QED
  BY <1>2, <1>3, <1>4, OwnersKept

LEMMA OwnersStep == TypeInv /\ LocksHaveOwners /\ [Next]_vars => LocksHaveOwners'
<1> SUFFICES ASSUME TypeInv, LocksHaveOwners, [Next]_vars
             PROVE  LocksHaveOwners'
  OBVIOUS
<1>0. pc \in [Requests -> Stages] /\ session \in [Requests -> Sessions]
  BY DEF TypeInv, TypeOK, Stages
<1>1. CASE UNCHANGED vars
  BY <1>1 DEF LocksHaveOwners, vars
<1>2. ASSUME NEW r \in Requests, Arrive(r)
      PROVE  LocksHaveOwners'
  <2>1. PICK j, next : Start(r, j, next)
    BY <1>2 DEF Arrive, OpenServiceOrder, UpdateStatus, ApproveBudget, AdjustPartStock, UpdatePart, DeletePart
  <2>2. \A q \in Requests \ {r} : session'[q] = session[q]
    BY <1>0, <1>2 DEF Arrive, OpenServiceOrder, UpdateStatus, ApproveBudget, Load,
                      AdjustPartStock, UpdatePart, DeletePart
  <2> QED
    BY <1>0, <2>1, <2>2, IdleOwners DEF Start, Writing
<1>3. ASSUME NEW r \in Requests, NEW outcome, Rollback(r, outcome)
      PROVE  LocksHaveOwners'
  BY <1>0, <1>3, FreeOwners DEF Rollback
<1>4. ASSUME NEW r \in Requests, NEW next, Commit(r, next)
      PROVE  LocksHaveOwners'
  BY <1>0, <1>4, FreeOwners DEF Commit
<1>5. ASSUME NEW r \in Requests, NEW next, NEW s, Continue(r, next, s), pc[r] \notin Writing, UNCHANGED lock
      PROVE  LocksHaveOwners'
  BY <1>0, <1>5, IdleOwners DEF Continue
<1>6. ASSUME NEW r \in Requests, NEW next \in Writing, NEW s, Continue(r, next, s),
             s.flushed = Flushed(r), lock' = LockFlushed(r)
      PROVE  LocksHaveOwners'
  BY <1>0, <1>6, FlushOwners DEF Continue
<1>7. ASSUME NEW r \in Requests, Proceed(r)
      PROVE  LocksHaveOwners'
  <2>1. \A f, d : [session[r] EXCEPT !.line = @ + 1, !.flushed = f, !.dirty = d].flushed = f
    BY <1>0 DEF Sessions
  <2>2. \A f, d, c : [session[r] EXCEPT !.flushed = f, !.dirty = d, !.changed = c].flushed = f
    BY <1>0 DEF Sessions
  <2>3. CASE DecrementStock(r) \/ IncrementStock(r)
    <3>1. PICK s : pc[r] \in Writing /\ Continue(r, pc[r], s) /\ s.flushed = Flushed(r) /\ lock' = LockFlushed(r)
      BY <2>1, <2>3 DEF DecrementStock, IncrementStock, AssignStock, Writing
    <3> QED
      BY <1>6, <3>1
  <2>4. CASE ReloadOrder(r)
    <3> DEFINE c == Differ(session[r].entity, row[job[r].order])
               s == [session[r] EXCEPT !.flushed = Flushed(r), !.dirty = None, !.changed = c]
    <3>1. Continue(r, "saveOrder", s) /\ lock' = LockFlushed(r)
      BY <2>4 DEF ReloadOrder
    <3>2. s.flushed = Flushed(r)
      BY <2>2
    <3> HIDE DEF s
    <3> QED
      BY <1>6, <3>1, <3>2 DEF Writing
  <2>5. CASE CheckPart(r) \/ CountOrders(r) \/ ReloadPart(r) \/ ReloadDelete(r)
    BY <1>3, <1>5, <2>5 DEF CheckPart, CountOrders, ReloadPart, ReloadDelete, Writing
  <2>6. CASE CommitOpen(r) \/ CommitOrder(r) \/ CommitPart(r) \/ CommitDelete(r)
    BY <1>3, <1>4, <2>6 DEF CommitOpen, CommitOrder, CommitPart, CommitDelete
  <2>7. CASE InsertFails(r) \/ FlushError(r) \/ DeadlockVictim(r)
    BY <1>3, <2>7 DEF InsertFails, FlushError, DeadlockVictim
  <2>8. CASE RespondOpened(r) \/ NotifyStatusChange(r) \/ RefreshPart(r)
    BY <1>0, <2>8, IdleOwners DEF RespondOpened, NotifyStatusChange, RefreshPart, Writing
  <2> QED
    BY <1>7, <2>3, <2>4, <2>5, <2>6, <2>7, <2>8 DEF Proceed
<1>8. ASSUME NEW r \in Requests, Crash(r)
      PROVE  LocksHaveOwners'
  BY <1>3, <1>8 DEF Crash
<1> QED
  BY <1>1, <1>2, <1>7, <1>8 DEF Next, AllEnded

\* Whoever waits for a row waits for a transaction that runs and has written it, for any
\* number of requests and parts: no failure or crash leaves a lock behind.
THEOREM NoLockIsLost == Spec => []LocksHaveOwners
<1>1. Init => LocksHaveOwners
  BY DEF Init, LocksHaveOwners
<1> QED
  BY <1>1, TypeInit, TypeStep, OwnersStep, PTL DEF Spec

-----------------------------------------------------------------------------
(***************************************************************************)
(* Orders                                                                  *)
(***************************************************************************)

\* A handler that decides on an order nobody shares: nobody else decides on it, and the
\* entity it holds is the row, one transition on.
Alone(r) ==
  LET o == job[r].order IN
  pc[r] \in Deciding =>
    /\ job[r].op \in {"update", "approve"}
    /\ o \notin contended =>
         /\ \A q \in Requests \ {r} : pc[q] \in Deciding => job[q].order # o
         /\ job[r].target \in VALID_TRANSITIONS[row[o].status]
         /\ session[r].entity = TransitionTo(row[o], job[r].target, r)
         /\ pc[r] = "saveOrder" => session[r].changed = Differ(session[r].entity, row[o])

\* What MarksMatchStatus asks of one row.
MarksMatch(w) ==
  /\ w.started # None   <=> w.status \in {"EM_EXECUCAO", "FINALIZADA", "ENTREGUE"}
  /\ w.completed # None <=> w.status \in {"FINALIZADA", "ENTREGUE"}
  /\ w.delivered # None <=> w.status = "ENTREGUE"

IsolationInv == (\A r \in Requests : Alone(r)) /\ MarksMatchStatus

\* A transition the machine allows keeps the instants with the status.
LEMMA TransitionKeepsMarks ==
  ASSUME NEW w \in Row(Marks), MarksMatch(w), NEW new \in VALID_TRANSITIONS[w.status], NEW r \in Requests
  PROVE  MarksMatch(TransitionTo(w, new, r))
<1>1. r # None
  BY RequestsAssumption
<1>2. w.status \in Statuses
  BY DEF Row
<1> QED
  BY <1>1, <1>2 DEF MarksMatch, TransitionTo, Row, VALID_TRANSITIONS, Statuses

LEMMA IsolationInit == Init => IsolationInv
<1> SUFFICES ASSUME Init
             PROVE  IsolationInv
  OBVIOUS
<1>1. PICK s \in [Existing -> InitialStatuses] :
        row = [o \in OrderIds |-> IF o \in Existing THEN RowAt(s[o]) ELSE NewRow]
  BY DEF Init
<1>2. \A o \in opened : row[o] = RowAt(s[o]) /\ s[o] \in Statuses
  BY <1>1, InputsAssumption DEF Init, OrderIds
<1>3. Past # None
  BY RequestsAssumption
<1>4. \A t \in Statuses : MarksMatch(RowAt(t))
  BY <1>3 DEF MarksMatch, RowAt
<1>5. MarksMatchStatus
  BY <1>2, <1>4 DEF MarksMatchStatus, MarksMatch
<1> QED
  BY <1>5 DEF Init, IsolationInv, Alone, Deciding

\* A step that changes no order, and at most takes r on with the entity it has.
LEMMA LocalIsolation ==
  ASSUME TypeInv, IsolationInv, NEW r \in Requests, UNCHANGED <<opened, row, job, contended>>,
         \A q \in Requests \ {r} : pc'[q] = pc[q] /\ session'[q] = session[q],
         pc'[r] \in Deciding => pc[r] \in Deciding /\ session'[r].entity = session[r].entity,
         pc'[r] = "saveOrder" => session'[r].changed = Differ(session'[r].entity, row[job[r].order])
  PROVE  IsolationInv'
<1>1. MarksMatchStatus'
  BY DEF IsolationInv, MarksMatchStatus
<1>2. ASSUME NEW q \in Requests
      PROVE  Alone(q)'
  BY DEF IsolationInv, Alone
<1> QED
  BY <1>1, <1>2 DEF IsolationInv

\* A request that starts: whoever already decides on its order shares it from now on.
LEMMA StartIsolation ==
  ASSUME TypeInv, IsolationInv, NEW r \in Requests, NEW j \in Jobs,
         NEW next \in {"check", "rejected", "return", "reloadOrder", "reloadPart", "reloadDelete"},
         Start(r, j, next),
         \A q \in Requests \ {r} : session'[q] = session[q],
         next \in {"return", "reloadOrder"} =>
           /\ j.op \in {"update", "approve"}
           /\ CanTransition(j.order, j.target)
           /\ session'[r].entity = TransitionTo(row[j.order], j.target, r)
  PROVE  IsolationInv'
<1>1. /\ pc[r] = "idle" /\ pc'[r] = next /\ job'[r] = j
      /\ \A q \in Requests \ {r} : pc'[q] = pc[q] /\ job'[q] = job[q]
      /\ UNCHANGED <<opened, row>> /\ contended \subseteq contended'
  BY DEF Start, database, TypeInv, TypeOK
<1>2. MarksMatchStatus'
  BY <1>1 DEF IsolationInv, MarksMatchStatus
<1>3. ASSUME NEW q \in Requests \ {r}, pc[q] \in Deciding, next \in {"return", "reloadOrder"}, job[q].order = j.order
      PROVE  j.order \in contended'
  <2>1. job[q].op \in {"update", "approve"} /\ pc[q] \in Reading
    BY <1>3 DEF IsolationInv, Alone, Deciding, Reading
  <2>2. j.order \in Footprint(job[q]) /\ j.order \in Footprint(j)
    BY <1>3, <2>1 DEF Footprint
  <2>3. j.order \in Overlap(r, j)
    BY <2>1, <2>2 DEF Overlap
  <2> QED
    BY <1>3, <2>3 DEF Start
<1>4. ASSUME NEW q \in Requests \ {r}
      PROVE  Alone(q)'
  <2>1. Alone(q)
    BY DEF IsolationInv
  <2> QED
    BY <1>1, <1>3, <2>1 DEF Alone, Deciding
<1>5. Alone(r)'
  BY <1>1, <1>3 DEF Alone, Deciding, CanTransition
<1> QED
  BY <1>2, <1>4, <1>5 DEF IsolationInv

\* A request arrives: a handler that is to decide on an order holds its row, one transition on.
Arrives(r, j, next) ==
  /\ Start(r, j, next)
  /\ \A q \in Requests \ {r} : session'[q] = session[q]
  /\ next \in {"return", "reloadOrder"} =>
       /\ j.op \in {"update", "approve"} /\ CanTransition(j.order, j.target)
       /\ session'[r].entity = TransitionTo(row[j.order], j.target, r)

LEMMA Arrival ==
  ASSUME TypeInv, NEW r \in Requests, Arrive(r)
  PROVE  \E j \in Jobs, next \in {"check", "rejected", "return", "reloadOrder", "reloadPart", "reloadDelete"} :
           Arrives(r, j, next)
<1> DEFINE Arrived == \E j \in Jobs, next \in {"check", "rejected", "return", "reloadOrder", "reloadPart", "reloadDelete"} :
                        Arrives(r, j, next)
<1>1. TypeOK /\ r \in OrderIds /\ (\A o \in OrderIds : Lines(o) \in Seq(Line))
  BY LinesType DEF TypeInv, OrderIds
<1>2. <<>> \in Seq(Line)
  OBVIOUS
<1>3. ASSUME NEW o \in OrderIds, NEW new \in Statuses, Load(r, o, new)
      PROVE  session'[r].entity = TransitionTo(row[o], new, r)
  BY <1>1, <1>3, SessionType DEF Load, Sessions, TypeOK
<1>4. ASSUME NEW o \in OrderIds, NEW new \in Statuses, NEW lines \in Seq(Line), NEW op \in {"update", "approve"},
             NEW next \in {"reloadOrder", "return", "rejected"},
             Start(r, Job(op, o, new, lines), next),
             IF next # "rejected" THEN CanTransition(o, new) /\ Load(r, o, new) ELSE UNCHANGED session
      PROVE  Arrived
  <2> DEFINE j == Job(op, o, new, lines)
  <2>1. j \in Jobs /\ j.op = op /\ j.order = o /\ j.target = new
    BY OrderJob DEF Job
  <2>2. \A q \in Requests \ {r} : session'[q] = session[q]
    BY <1>1, <1>4 DEF Load, TypeOK
  <2>3. next # "rejected" => CanTransition(o, new) /\ session'[r].entity = TransitionTo(row[o], new, r)
    BY <1>3, <1>4
  <2>4. Start(r, j, next)
    BY <1>4
  <2> HIDE DEF j
  <2> QED
    BY <2>1, <2>2, <2>3, <2>4 DEF Arrives
<1>5. ASSUME NEW j \in Jobs, NEW next \in {"check", "rejected", "reloadPart", "reloadDelete"}, Start(r, j, next),
             \A q \in Requests \ {r} : session'[q] = session[q]
      PROVE  Arrived
  BY <1>5 DEF Arrives
<1>6. CASE OpenServiceOrder(r)
  <2>1. PICK lines \in OpenLines, next \in {"check", "rejected"} :
          Start(r, Job("open", r, "RECEBIDA", lines), next) /\ UNCHANGED <<session, counted>>
    BY <1>6 DEF OpenServiceOrder
  <2>2. Job("open", r, "RECEBIDA", lines) \in Jobs
    BY <1>1, OrderJob, InputsAssumption DEF Statuses
  <2> QED
    BY <1>5, <2>1, <2>2
<1>7. CASE UpdateStatus(r)
  <2>1. PICK o \in OrderIds, new \in Statuses, next \in {"reloadOrder", "rejected"} :
          /\ Start(r, Job("update", o, new, <<>>), next)
          /\ IF next # "rejected" THEN CanTransition(o, new) /\ Load(r, o, new) ELSE UNCHANGED session
    BY <1>7 DEF UpdateStatus
  <2> QED
    BY <1>2, <1>4, <2>1
<1>8. CASE ApproveBudget(r)
  <2>1. PICK o \in OrderIds, new \in {"EM_EXECUCAO", "ORCAMENTO_RECUSADO"}, lines \in Seq(Line),
             next \in {"reloadOrder", "return", "rejected"} :
          /\ Start(r, Job("approve", o, new, lines), next)
          /\ IF next # "rejected" THEN CanTransition(o, new) /\ Load(r, o, new) ELSE UNCHANGED session
    BY <1>1, <1>2, <1>8 DEF ApproveBudget
  <2>2. new \in Statuses
    BY DEF Statuses
  <2> QED
    BY <1>4, <2>1, <2>2
<1>9. CASE AdjustPartStock(r)
  <2>1. PICK p \in Parts, d \in Int, next \in {"reloadPart", "rejected"} :
          /\ Start(r, Job("adjust", None, "RECEBIDA", <<[part |-> p, qty |-> d]>>), next)
          /\ \A q \in Requests \ {r} : session'[q] = session[q]
    BY <1>1, <1>9, InputsAssumption DEF AdjustPartStock, TypeOK
  <2>2. Job("adjust", None, "RECEBIDA", <<[part |-> p, qty |-> d]>>) \in Jobs
    BY PartJob
  <2> QED
    BY <1>5, <2>1, <2>2
<1>10. CASE UpdatePart(r)
  <2>1. PICK p \in Parts, next \in {"reloadPart", "rejected"} :
          /\ Start(r, Job("edit", None, "RECEBIDA", <<[part |-> p, qty |-> 0]>>), next)
          /\ \A q \in Requests \ {r} : session'[q] = session[q]
    BY <1>1, <1>10 DEF UpdatePart, TypeOK
  <2>2. Job("edit", None, "RECEBIDA", <<[part |-> p, qty |-> 0]>>) \in Jobs
    BY PartJob
  <2> QED
    BY <1>5, <2>1, <2>2
<1>11. CASE DeletePart(r)
  <2>1. PICK p \in Parts, next \in {"reloadDelete", "rejected"} :
          Start(r, Job("delete", None, "RECEBIDA", <<[part |-> p, qty |-> 0]>>), next) /\ UNCHANGED session
    BY <1>11 DEF DeletePart
  <2>2. Job("delete", None, "RECEBIDA", <<[part |-> p, qty |-> 0]>>) \in Jobs
    BY PartJob
  <2> QED
    BY <1>5, <2>1, <2>2
<1> QED
  BY <1>6, <1>7, <1>8, <1>9, <1>10, <1>11 DEF Arrive

LEMMA ArriveIsolation ==
  ASSUME TypeInv, IsolationInv, NEW r \in Requests, Arrive(r)
  PROVE  IsolationInv'
BY Arrival, StartIsolation DEF Arrives

LEMMA CommitOpenIsolation ==
  ASSUME TypeInv, HistoryInv, IsolationInv, NEW r \in Requests, CommitOpen(r)
  PROVE  IsolationInv'
<1>1. /\ r \in OrderIds /\ pc[r] = "take" /\ pc'[r] = "respond" /\ row'[r] = NewRow
      /\ \A o \in OrderIds \ {r} : row'[o] = row[o]
      /\ \A q \in Requests \ {r} : pc'[q] = pc[q] /\ session'[q] = session[q]
      /\ opened' = opened \cup {r} /\ UNCHANGED <<job, contended>>
  BY DEF CommitOpen, Commit, OrderIds, TypeInv, TypeOK
<1>2. r \notin opened
  BY <1>1 DEF HistoryInv, UnderwayAt
<1>3. MarksMatch(NewRow)
  BY DEF MarksMatch, NewRow
<1>4. MarksMatchStatus'
  BY <1>1, <1>3 DEF IsolationInv, MarksMatchStatus, MarksMatch, TypeInv, TypeOK
<1>5. ASSUME NEW q \in Requests, pc'[q] \in Deciding
      PROVE  Alone(q)'
  <2>1. q # r /\ pc[q] \in Deciding /\ Alone(q) /\ UnderwayAt(q)
    BY <1>1, <1>5 DEF IsolationInv, HistoryInv, Deciding
  <2>2. job[q].order \in opened /\ job[q].order \in OrderIds \ {r}
    BY <1>2, <2>1 DEF UnderwayAt, TypeInv, TypeOK
  <2> QED
    BY <1>1, <2>1, <2>2 DEF Alone, Deciding
<1>6. \A q \in Requests : Alone(q)'
  BY <1>5 DEF Alone
<1> QED
  BY <1>4, <1>6 DEF IsolationInv

\* The columns the ORM writes turn the row into the entity.
LEMMA MergedIsEntity ==
  ASSUME TypeInv, HistoryInv, NEW r \in Requests, pc[r] = "saveOrder",
         session[r].changed = Differ(session[r].entity, row[job[r].order])
  PROVE  Merged(r) = session[r].entity
<1>1. session[r].entity \in Row(Marks) /\ row[job[r].order] \in Row(Marks)
  BY SessionType DEF TypeInv, TypeOK, JobsFit, OrderStages, Sessions
<1> DEFINE e == session[r].entity
           w == row[job[r].order]
           c == session[r].changed
<1>2. /\ c.status = (e.status # w.status) /\ c.started = (e.started # w.started)
      /\ c.completed = (e.completed # w.completed) /\ c.delivered = (e.delivered # w.delivered)
  BY DEF Differ
<1>3. Merged(r) = [status |-> e.status, started |-> e.started, completed |-> e.completed, delivered |-> e.delivered]
  BY <1>2 DEF Merged
<1> HIDE DEF e
<1>4. [status |-> e.status, started |-> e.started, completed |-> e.completed, delivered |-> e.delivered] = e
  BY <1>1 DEF Row, e
<1> QED
  BY <1>3, <1>4 DEF e

LEMMA CommitOrderIsolation ==
  ASSUME TypeInv, HistoryInv, IsolationInv, NEW r \in Requests, CommitOrder(r)
  PROVE  /\ IsolationInv'
         /\ job[r].order \in contended
              \/ row'[job[r].order].status \in VALID_TRANSITIONS[row[job[r].order].status]
<1> DEFINE o == job[r].order
<1>1. /\ pc[r] = "saveOrder" /\ pc'[r] = "notify" /\ Alone(r) /\ UnderwayAt(r)
      /\ \A q \in Requests \ {r} : pc'[q] = pc[q] /\ session'[q] = session[q]
      /\ UNCHANGED <<opened, job, contended>>
  BY DEF CommitOrder, Commit, IsolationInv, HistoryInv, TypeInv, TypeOK
<1>2. o \in opened /\ o \in OrderIds
  BY <1>1 DEF UnderwayAt, Deciding, TypeInv, TypeOK
<1>3. row'[o] = Merged(r) /\ \A x \in OrderIds \ {o} : row'[x] = row[x]
  BY <1>2 DEF CommitOrder, TypeInv, TypeOK
<1>4. ASSUME o \notin contended
      PROVE  /\ job[r].target \in VALID_TRANSITIONS[row[o].status]
             /\ row'[o] = TransitionTo(row[o], job[r].target, r)
             /\ row'[o].status = job[r].target
  <2>1. /\ job[r].target \in VALID_TRANSITIONS[row[o].status]
        /\ session[r].entity = TransitionTo(row[o], job[r].target, r)
        /\ session[r].changed = Differ(session[r].entity, row[o])
    BY <1>1, <1>4 DEF Alone, Deciding
  <2>2. row'[o] = session[r].entity
    BY <1>1, <1>3, <2>1, MergedIsEntity
  <2>3. row[o] \in Row(Marks)
    BY <1>2 DEF TypeInv, TypeOK
  <2> QED
    BY <2>1, <2>2, <2>3 DEF TransitionTo, Row
<1>5. ASSUME o \notin contended
      PROVE  MarksMatch(row'[o])
  <2>1. row[o] \in Row(Marks) /\ MarksMatch(row[o])
    BY <1>2, <1>5 DEF TypeInv, TypeOK, IsolationInv, MarksMatchStatus, MarksMatch
  <2> QED
    BY <1>4, <1>5, <2>1, TransitionKeepsMarks
<1>6. MarksMatchStatus'
  <2> SUFFICES ASSUME NEW x \in opened \ contended
               PROVE  MarksMatch(row'[x])
    BY <1>1 DEF MarksMatchStatus, MarksMatch
  <2>1. x \in OrderIds
    BY DEF TypeInv, TypeOK
  <2>2. CASE x # o
    BY <1>3, <2>1, <2>2 DEF IsolationInv, MarksMatchStatus, MarksMatch
  <2> QED
    BY <1>5, <2>2
<1>7. ASSUME NEW q \in Requests, pc'[q] \in Deciding
      PROVE  Alone(q)'
  <2>1. q # r /\ pc[q] \in Deciding /\ Alone(q) /\ job[q].order \in OrderIds
    BY <1>1, <1>7 DEF IsolationInv, Deciding, TypeInv, JobsFit, OrderStages
  <2>2. CASE job[q].order = o
    <3>1. o \in contended
      BY <1>1, <2>1, <2>2 DEF Alone, Deciding
    <3> QED
      BY <1>1, <2>1, <2>2, <3>1 DEF Alone
  <2>3. CASE job[q].order # o
    BY <1>1, <1>3, <2>1, <2>3 DEF Alone, Deciding
  <2> QED
    BY <2>2, <2>3
<1>8. \A q \in Requests : Alone(q)'
  BY <1>7 DEF Alone
<1> QED
  BY <1>4, <1>6, <1>8 DEF IsolationInv

\* A step of r that writes no order, and takes r on with the entity it has.
Quietly(r) ==
  /\ UNCHANGED <<opened, row, job, contended>>
  /\ \A q \in Requests \ {r} : pc'[q] = pc[q] /\ session'[q] = session[q]
  /\ committed' \in {committed, committed \cup {r}} /\ pc'[r] # "idle"
  /\ pc'[r] \in Deciding => pc[r] \in Deciding /\ session'[r].entity = session[r].entity
  /\ pc'[r] = "saveOrder" => session'[r].changed = Differ(session'[r].entity, row[job[r].order])

\* The steps that write no order.
LEMMA QuietStep ==
  ASSUME TypeInv, NEW r \in Requests,
         Proceed(r) \/ Crash(r), ~ CommitOpen(r), ~ CommitOrder(r)
  PROVE  Quietly(r)
<1>0. TypeOK /\ session[r] \in Sessions
  BY SessionType DEF TypeInv
<1>1. ASSUME NEW outcome \in Ended, Rollback(r, outcome)
      PROVE  Quietly(r)
  BY <1>0, <1>1 DEF Quietly, Rollback, TypeOK, database, history, Ended, Deciding
<1>2. ASSUME NEW next \in {"refresh"} \cup Ended, Commit(r, next), UNCHANGED <<opened, row>>
      PROVE  Quietly(r)
  BY <1>0, <1>2 DEF Quietly, Commit, TypeOK, Ended, Deciding
<1>3. ASSUME NEW next \in Reading, NEW s, Continue(r, next, s),
             next \in Deciding => pc[r] \in Deciding /\ s.entity = session[r].entity,
             next = "saveOrder" => s.changed = Differ(s.entity, row[job[r].order])
      PROVE  Quietly(r)
  <2>1. /\ pc'[r] = next /\ session'[r] = s /\ UNCHANGED <<opened, row, job, contended, committed>>
        /\ \A q \in Requests \ {r} : pc'[q] = pc[q] /\ session'[q] = session[q]
    BY <1>0, <1>3 DEF Continue, TypeOK, database, history
  <2> QED
    BY <1>3, <2>1 DEF Quietly, Reading
<1>4. CASE CheckPart(r) \/ CountOrders(r)
  <2>1. CASE Rollback(r, "rejected")
    BY <1>1, <2>1 DEF Ended
  <2>2. CASE \E next \in {"check", "take"}, s \in {[session[r] EXCEPT !.line = @ + 1], [session[r] EXCEPT !.line = 1]} :
               Continue(r, next, s)
    BY <1>3, <2>2 DEF Reading, Deciding
  <2> QED
    BY <1>4, <2>1, <2>2 DEF CheckPart, CountOrders
<1>5. CASE DecrementStock(r) \/ IncrementStock(r)
  <2>1. \A f, d : [session[r] EXCEPT !.line = @ + 1, !.flushed = f, !.dirty = d].entity = session[r].entity
    BY <1>0 DEF Sessions
  <2>2. PICK s : /\ pc[r] \in {"take", "return"} /\ Continue(r, pc[r], s)
                 /\ s.entity = session[r].entity
    BY <1>5, <2>1 DEF DecrementStock, IncrementStock, AssignStock
  <2> QED
    BY <1>3, <2>2 DEF Reading, Deciding
<1>6. CASE ReloadOrder(r)
  <2>1. \A f, d, c : LET s == [session[r] EXCEPT !.flushed = f, !.dirty = d, !.changed = c] IN
          s.entity = session[r].entity /\ s.changed = c
    BY <1>0 DEF Sessions
  <2> DEFINE c == Differ(session[r].entity, row[job[r].order])
             s == [session[r] EXCEPT !.flushed = Flushed(r), !.dirty = None, !.changed = c]
  <2>2. pc[r] \in Deciding /\ Continue(r, "saveOrder", s)
    BY <1>6 DEF ReloadOrder, Deciding
  <2>3. s.entity = session[r].entity /\ s.changed = c
    BY <2>1
  <2> HIDE DEF s
  <2> QED
    BY <1>3, <2>2, <2>3 DEF Reading
<1>7. CASE ReloadPart(r) \/ ReloadDelete(r)
  <2>1. CASE Rollback(r, "failed") \/ Rollback(r, "ok")
    BY <1>1, <2>1 DEF Ended
  <2>2. CASE \E next \in {"savePart", "erase"} : \E s : Continue(r, next, s)
    BY <1>3, <2>2 DEF Reading, Deciding
  <2> QED
    BY <1>7, <2>1, <2>2 DEF ReloadPart, ReloadDelete
<1>8. CASE CommitPart(r) \/ CommitDelete(r)
  BY <1>1, <1>2, <1>8 DEF CommitPart, CommitDelete, Ended
<1>9. CASE RespondOpened(r) \/ NotifyStatusChange(r) \/ RefreshPart(r)
  <2>1. /\ pc'[r] \in {"ok", "failed"} /\ UNCHANGED <<opened, row, job, session, contended, committed>>
        /\ \A q \in Requests \ {r} : pc'[q] = pc[q]
    BY <1>0, <1>9 DEF RespondOpened, NotifyStatusChange, RefreshPart, TypeOK, database, effects, history
  <2> QED
    BY <2>1 DEF Quietly, Deciding
<1>10. CASE InsertFails(r) \/ FlushError(r) \/ DeadlockVictim(r) \/ Crash(r)
  BY <1>1, <1>10 DEF InsertFails, FlushError, DeadlockVictim, Crash, Ended
<1> QED
  BY <1>4, <1>5, <1>6, <1>7, <1>8, <1>9, <1>10 DEF Proceed

LEMMA QuietIsolation ==
  ASSUME TypeInv, IsolationInv, NEW r \in Requests,
         Proceed(r) \/ Crash(r), ~ CommitOpen(r), ~ CommitOrder(r)
  PROVE  IsolationInv' /\ UNCHANGED row
BY QuietStep, LocalIsolation DEF Quietly

MovesLegally ==
  \A o \in opened : \/ o \in contended'
                    \/ row'[o].status = row[o].status
                    \/ row'[o].status \in VALID_TRANSITIONS[row[o].status]

LEMMA IsolationStep == TypeInv /\ HistoryInv /\ IsolationInv /\ [Next]_vars => IsolationInv' /\ MovesLegally
<1> SUFFICES ASSUME TypeInv, HistoryInv, IsolationInv, [Next]_vars
             PROVE  IsolationInv' /\ MovesLegally
  OBVIOUS
<1>1. CASE UNCHANGED vars
  BY <1>1 DEF IsolationInv, Alone, MarksMatchStatus, MovesLegally, vars, database, history
<1>2. ASSUME NEW r \in Requests, Arrive(r)
      PROVE  IsolationInv' /\ MovesLegally
  <2>1. UNCHANGED row
    BY <1>2 DEF Arrive, OpenServiceOrder, UpdateStatus, ApproveBudget, AdjustPartStock, UpdatePart, DeletePart,
                Start, database
  <2> QED
    BY <1>2, <2>1, ArriveIsolation DEF MovesLegally
<1>3. ASSUME NEW r \in Requests, CommitOpen(r)
      PROVE  IsolationInv' /\ MovesLegally
  <2>1. r \notin opened
    BY <1>3 DEF HistoryInv, UnderwayAt, CommitOpen
  <2>2. \A o \in opened : row'[o] = row[o]
    BY <1>3, <2>1 DEF CommitOpen, TypeInv, TypeOK
  <2> QED
    BY <1>3, <2>2, CommitOpenIsolation DEF MovesLegally
<1>4. ASSUME NEW r \in Requests, CommitOrder(r)
      PROVE  IsolationInv' /\ MovesLegally
  <2>1. \A o \in opened : o # job[r].order => row'[o] = row[o]
    BY <1>4 DEF CommitOrder, TypeInv, TypeOK
  <2>2. UNCHANGED contended
    BY <1>4 DEF CommitOrder, Commit
  <2> QED
    BY <1>4, <2>1, <2>2, CommitOrderIsolation DEF MovesLegally
<1>5. ASSUME NEW r \in Requests, Proceed(r) \/ Crash(r), ~ CommitOpen(r), ~ CommitOrder(r)
      PROVE  IsolationInv' /\ MovesLegally
  BY <1>5, QuietIsolation DEF MovesLegally
<1> QED
  BY <1>1, <1>2, <1>3, <1>4, <1>5 DEF Next, AllEnded

LEMMA IsolationAlways == Spec => [](TypeInv /\ HistoryInv /\ IsolationInv)
<1>1. Init => TypeInv /\ HistoryInv /\ IsolationInv
  BY TypeInit, HistoryInit, IsolationInit
<1>2. (TypeInv /\ HistoryInv /\ IsolationInv) /\ [Next]_vars => (TypeInv /\ HistoryInv /\ IsolationInv)'
  BY TypeStep, HistoryStep, IsolationStep
<1> QED
  BY <1>1, <1>2, PTL DEF Spec

\* An order that no two overlapping requests shared carries exactly the instants of the
\* stages it passed, whatever failed or crashed on the way: the average execution time
\* is computed from pairs of them (transition_to, update()).
THEOREM MarksFollowStatus == Spec => []MarksMatchStatus
<1>1. IsolationInv => MarksMatchStatus
  BY DEF IsolationInv
<1> QED
  BY <1>1, IsolationAlways, PTL

\* Of such an order every commit changes the status along VALID_TRANSITIONS only, though
\* the handler writes what it computed two statements before.
THEOREM TransitionsAreLegal == Spec => StatusMovesLegally
<1>1. (TypeInv /\ HistoryInv /\ IsolationInv) /\ [Next]_vars => [MovesLegally]_vars
  BY IsolationStep
<1> QED
  BY <1>1, IsolationAlways, PTL DEF Spec, StatusMovesLegally, MovesLegally

-----------------------------------------------------------------------------
(***************************************************************************)
(* Instants                                                                *)
(***************************************************************************)

\* A handler that decides holds instants of its own stage and of what was committed when
\* it read the row; whoever has committed has started.
InstantsInv ==
  /\ InstantsHappened
  /\ \A r \in Requests :
       pc[r] \in Deciding => InstantsOf(session[r].entity, job[r].order, committed \cup {r})
  /\ \A r \in committed : pc[r] # "idle"

LEMMA InstantsInit == Init => InstantsInv
<1> SUFFICES ASSUME Init
             PROVE  InstantsInv
  OBVIOUS
<1>1. PICK s \in [Existing -> InitialStatuses] :
        row = [o \in OrderIds |-> IF o \in Existing THEN RowAt(s[o]) ELSE NewRow]
  BY DEF Init
<1>2. opened = Existing /\ committed = {} /\ \A r \in Requests : pc[r] = "idle"
  BY DEF Init
<1>3. \A o \in opened : row[o] = RowAt(s[o])
  BY <1>1, <1>2 DEF OrderIds
<1>4. \A o \in Existing, t \in InitialStatuses : InstantsOf(RowAt(t), o, committed)
  <2> TAKE o \in Existing, t \in InitialStatuses
  <2>1. \A x : {None, Past} \subseteq MarksOf(o, x, committed)
    BY DEF MarksOf
  <2>2. {RowAt(t).started, RowAt(t).completed, RowAt(t).delivered} \subseteq {None, Past}
    BY DEF RowAt
  <2> QED
    BY <2>1, <2>2 DEF InstantsOf
<1>5. InstantsHappened
  BY <1>1, <1>2, <1>3, <1>4 DEF InstantsHappened
<1> QED
  BY <1>2, <1>5 DEF InstantsInv, Deciding

\* What was an instant of an order stays one, whoever commits.
LEMMA QuietInstants ==
  ASSUME TypeInv, InstantsInv, NEW r \in Requests, Quietly(r)
  PROVE  InstantsInv'
<1>1. /\ committed \subseteq committed' /\ committed \subseteq Requests
      /\ UNCHANGED <<opened, row, job>>
  BY DEF Quietly, TypeInv, TypeOK
<1>2. InstantsHappened'
  <2> SUFFICES ASSUME NEW o \in opened
               PROVE  InstantsOf(row[o], o, committed)'
    BY <1>1 DEF InstantsHappened
  <2>1. InstantsOf(row[o], o, committed)
    BY DEF InstantsInv, InstantsHappened
  <2> QED
    BY <1>1, <2>1 DEF InstantsOf, MarksOf
<1>3. ASSUME NEW q \in Requests, pc'[q] \in Deciding
      PROVE  InstantsOf(session[q].entity, job[q].order, committed \cup {q})'
  <2>1. pc[q] \in Deciding /\ session'[q].entity = session[q].entity
    BY <1>3 DEF Quietly
  <2>2. InstantsOf(session[q].entity, job[q].order, committed \cup {q})
    BY <2>1 DEF InstantsInv
  <2> QED
    BY <1>1, <2>1, <2>2 DEF InstantsOf, MarksOf
<1>4. \A q \in committed' : pc'[q] # "idle"
  BY DEF Quietly, InstantsInv, TypeInv, TypeOK
<1> QED
  BY <1>2, <1>3, <1>4 DEF InstantsInv

LEMMA ArriveInstants ==
  ASSUME TypeInv, InstantsInv, NEW r \in Requests, Arrive(r)
  PROVE  InstantsInv'
<1>1. PICK j \in Jobs, next \in {"check", "rejected", "return", "reloadOrder", "reloadPart", "reloadDelete"} :
        Arrives(r, j, next)
  BY Arrival
<1>2. /\ pc[r] = "idle" /\ pc'[r] = next /\ job'[r] = j /\ committed \subseteq Requests
      /\ \A q \in Requests \ {r} : pc'[q] = pc[q] /\ job'[q] = job[q] /\ session'[q] = session[q]
      /\ UNCHANGED <<opened, row, committed>>
  BY <1>1 DEF Arrives, Start, database, TypeInv, TypeOK
<1>3. InstantsHappened'
  <2> SUFFICES ASSUME NEW o \in opened
               PROVE  InstantsOf(row[o], o, committed)'
    BY <1>2 DEF InstantsHappened
  <2>1. InstantsOf(row[o], o, committed) /\ r \notin committed
    BY <1>2 DEF InstantsInv, InstantsHappened
  <2> QED
    BY <1>2, <2>1 DEF InstantsOf, MarksOf
<1>4. ASSUME NEW q \in Requests \ {r}, pc'[q] \in Deciding
      PROVE  InstantsOf(session[q].entity, job[q].order, committed \cup {q})'
  <2>1. InstantsOf(session[q].entity, job[q].order, committed \cup {q}) /\ r \notin committed
    BY <1>2, <1>4 DEF InstantsInv
  <2> QED
    BY <1>2, <2>1 DEF InstantsOf, MarksOf
<1>5. ASSUME next \in {"return", "reloadOrder"}
      PROVE  InstantsOf(session[r].entity, job[r].order, committed \cup {r})'
  <2> DEFINE w == row[j.order]
  <2>1. j.order \in opened /\ w \in Row(Marks) /\ session'[r].entity = TransitionTo(w, j.target, r)
    BY <1>1, <1>5 DEF Arrives, CanTransition, TypeInv, TypeOK
  <2>2. InstantsOf(w, j.order, committed)
    BY <2>1 DEF InstantsInv, InstantsHappened
  <2>3. r \notin committed
    BY <1>2 DEF InstantsInv
  <2>4. \A s : /\ MarksOf(j.order, s, committed) \subseteq MarksOf(j.order, s, committed \cup {r})'
               /\ j.target = s => r \in MarksOf(j.order, s, committed \cup {r})'
    BY <1>2, <2>3 DEF MarksOf
  <2>5. LET e == TransitionTo(w, j.target, r) IN
        /\ e.started   = IF j.target = "EM_EXECUCAO" THEN r ELSE w.started
        /\ e.completed = IF j.target = "FINALIZADA" THEN r ELSE w.completed
        /\ e.delivered = IF j.target = "ENTREGUE" THEN r ELSE w.delivered
    BY <2>1 DEF TransitionTo, Row
  <2> HIDE DEF w
  <2> QED
    BY <1>2, <2>1, <2>2, <2>4, <2>5 DEF InstantsOf
<1>6. \A q \in committed' : pc'[q] # "idle"
  BY <1>2 DEF InstantsInv
<1> QED
  BY <1>2, <1>3, <1>4, <1>5, <1>6 DEF InstantsInv, Deciding

\* A commit writes an instant of the entity or leaves the one there was, column by column.
LEMMA CommitInstants ==
  ASSUME TypeInv, HistoryInv, InstantsInv, NEW r \in Requests, NEW o \in OrderIds, NEW w,
         \/ CommitOpen(r) /\ o = r /\ w = NewRow
         \/ CommitOrder(r) /\ o = job[r].order /\ w = Merged(r)
  PROVE  InstantsInv'
<1>1. /\ pc[r] # "idle" /\ pc'[r] \notin Deciding \cup {"idle"} /\ UNCHANGED job
      /\ committed' = committed \cup {r} /\ committed \subseteq Requests
      /\ \A q \in Requests \ {r} : pc'[q] = pc[q] /\ session'[q] = session[q]
  BY DEF CommitOpen, CommitOrder, Commit, Deciding, TypeInv, TypeOK
<1>2. /\ row'[o] = w /\ \A x \in OrderIds \ {o} : row'[x] = row[x]
      /\ opened' \subseteq opened \cup {o} /\ opened \subseteq OrderIds
  BY DEF CommitOpen, CommitOrder, TypeInv, TypeOK
<1>3. InstantsOf(w, o, committed)'
  <2>1. CASE CommitOpen(r) /\ o = r /\ w = NewRow
    BY <2>1 DEF InstantsOf, MarksOf, NewRow
  <2>2. CASE CommitOrder(r) /\ o = job[r].order /\ w = Merged(r)
    <3>1. pc[r] \in Deciding /\ UnderwayAt(r)
      BY <2>2 DEF CommitOrder, HistoryInv, Deciding
    <3>2. InstantsOf(row[o], o, committed) /\ InstantsOf(session[r].entity, o, committed \cup {r})
      BY <2>2, <3>1 DEF InstantsInv, InstantsHappened, UnderwayAt
    <3>3. \A s : /\ MarksOf(o, s, committed) \subseteq MarksOf(o, s, committed)'
                 /\ MarksOf(o, s, committed \cup {r}) \subseteq MarksOf(o, s, committed)'
      BY <1>1 DEF MarksOf
    <3>4. /\ w.started \in {row[o].started, session[r].entity.started}
          /\ w.completed \in {row[o].completed, session[r].entity.completed}
          /\ w.delivered \in {row[o].delivered, session[r].entity.delivered}
      BY <2>2 DEF Merged
    <3> QED
      BY <3>2, <3>3, <3>4 DEF InstantsOf
  <2> QED
    BY <2>1, <2>2
<1>4. InstantsHappened'
  <2> SUFFICES ASSUME NEW x \in opened \ {o}
               PROVE  InstantsOf(row[x], x, committed)'
    BY <1>2, <1>3 DEF InstantsHappened
  <2>1. InstantsOf(row[x], x, committed) /\ row'[x] = row[x]
    BY <1>2 DEF InstantsInv, InstantsHappened
  <2> QED
    BY <1>1, <2>1 DEF InstantsOf, MarksOf
<1>5. ASSUME NEW q \in Requests, pc'[q] \in Deciding
      PROVE  InstantsOf(session[q].entity, job[q].order, committed \cup {q})'
  <2>1. InstantsOf(session[q].entity, job[q].order, committed \cup {q}) /\ session'[q] = session[q]
    BY <1>1, <1>5 DEF InstantsInv
  <2> QED
    BY <1>1, <2>1 DEF InstantsOf, MarksOf
<1> QED
  BY <1>1, <1>4, <1>5 DEF InstantsInv

LEMMA InstantsStep == TypeInv /\ HistoryInv /\ InstantsInv /\ [Next]_vars => InstantsInv'
<1> SUFFICES ASSUME TypeInv, HistoryInv, InstantsInv, [Next]_vars
             PROVE  InstantsInv'
  OBVIOUS
<1>1. CASE UNCHANGED vars
  BY <1>1 DEF InstantsInv, InstantsHappened, InstantsOf, MarksOf, vars, database, history
<1>2. ASSUME NEW r \in Requests, CommitOpen(r)
      PROVE  InstantsInv'
  BY <1>2, CommitInstants DEF OrderIds
<1>3. ASSUME NEW r \in Requests, CommitOrder(r)
      PROVE  InstantsInv'
  <2>1. job[r].order \in OrderIds
    BY <1>3 DEF CommitOrder, TypeInv, JobsFit, OrderStages
  <2> QED
    BY <1>3, <2>1, CommitInstants
<1>4. ASSUME NEW r \in Requests, Proceed(r) \/ Crash(r), ~ CommitOpen(r), ~ CommitOrder(r)
      PROVE  InstantsInv'
  BY <1>4, QuietStep, QuietInstants
<1> QED
  BY <1>1, <1>2, <1>3, <1>4, ArriveInstants DEF Next, AllEnded

\* Each instant of an order was committed by a request that took it to that stage, however
\* many updates raced for its row, failed or crashed (transition_to, update()).
THEOREM InstantsAreTrue == Spec => []InstantsHappened
<1>1. Init => InstantsInv
  BY InstantsInit
<1>2. (TypeInv /\ HistoryInv) /\ InstantsInv /\ [Next]_vars => InstantsInv'
  BY InstantsStep
<1>3. InstantsInv => InstantsHappened
  BY DEF InstantsInv
<1> QED
  BY <1>1, <1>2, <1>3, HistoryAlways, PTL DEF Spec
=============================================================================
