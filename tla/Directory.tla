------------------------------ MODULE Directory ------------------------------
(***************************************************************************)
(* What the registry promises its callers: each request is decided in one  *)
(* step, at a moment between its arrival and its answer, and the rows and  *)
(* the answer fit that moment.  A request may be lost at any time before   *)
(* that moment (a failure or a crash), and then it changes nothing.        *)
(***************************************************************************)
EXTENDS RegistryRows

CONSTANT Cpfs   \* the documents that may log in

VARIABLES rows,     \* the registry
          job,      \* what each request asked
          outcome   \* how each request was decided

directory == <<rows, job, outcome>>

Init ==
  /\ Consistent(rows)
  /\ outcome = [r \in Requests |-> "idle"]

Decide(r, from, to) ==
  /\ outcome[r] = from
  /\ outcome' = [outcome EXCEPT ![r] = to]
  /\ job' = [job EXCEPT ![r] = job'[r]]

\* A request comes for a registered client; a log-in, for one with a CPF.
Entitled(j) == j.by # None /\ Taken(rows, "client", j.by) /\ (j.op = "token" => j.by \in Cpfs)

\* It is let in, or turned away if at that moment it does not.
Admit(r) ==
  /\ Entitled(job'[r]) /\ Decide(r, "idle", "pending") /\ UNCHANGED rows

TurnAway(r) ==
  /\ ~Entitled(job'[r]) /\ Decide(r, "idle", "unauthorized") /\ UNCHANGED rows

\* A log-in, or who am I: let in and answered at once.
Greet(r) ==
  /\ job'[r].op \in {"token", "me"} /\ Entitled(job'[r])
  /\ Decide(r, "idle", "done") /\ UNCHANGED rows

Owner(v) == rows[v].client

Create(r) ==
  LET j == job[r]
      w == [table   |-> j.table, key |-> j.key, item |-> j.item,
            client  |-> CASE j.table = "vehicle" -> j.target
                          [] j.table = "order"   -> Owner(j.target)
                          [] OTHER               -> None,
            vehicle |-> IF j.table = "order" THEN j.target ELSE None]
  IN /\ j.op = "create" /\ r \notin DOMAIN rows
     /\ j.table = "order" => Has(rows, "vehicle", j.target)
     /\ Refs(w) \subseteq DOMAIN rows /\ MayHold(rows, j.table, r, j.key)
     /\ rows' = With(rows, r, w)

Rename(r) ==
  LET j == job[r] IN
  /\ j.op = "update" /\ Has(rows, j.table, j.target)
  /\ MayHold(rows, j.table, j.target, j.key)
  /\ rows' = IF j.key = None THEN rows ELSE [rows EXCEPT ![j.target].key = j.key]

Remove(r) ==
  /\ job[r].op = "delete" /\ ~Referred(rows, job[r].target)
  /\ job[r].target \in DOMAIN rows => rows[job[r].target].table = job[r].table
  /\ rows' = Without(rows, job[r].target)

\* A list is of whatever is there: of a client deleted meanwhile, no vehicles.
Read(r) ==
  /\ UNCHANGED rows
  /\ job[r].op = "list" \/ (job[r].op = "get" /\ Has(rows, job[r].table, job[r].target))

CarryOut(r) ==
  /\ Decide(r, "pending", "done") /\ UNCHANGED job
  /\ Create(r) \/ Rename(r) \/ Remove(r) \/ Read(r)

\* 404: something the request names is not there.
NotFound(r) ==
  /\ Decide(r, "pending", "missing") /\ UNCHANGED <<rows, job>>
  /\ \/ job[r].target # None /\ ~Has(rows, TargetTable(job[r]), job[r].target)
     \/ job[r].item # None /\ ~Has(rows, "service", job[r].item)

\* 409: another row holds the key the request asks for.
Conflict(r) ==
  /\ Decide(r, "pending", "conflict") /\ UNCHANGED <<rows, job>>
  /\ ~MayHold(rows, job[r].table, IF job[r].op = "update" THEN job[r].target ELSE r, job[r].key)

Lose(r) == Decide(r, "pending", "lost") /\ UNCHANGED <<rows, job>>

Next ==
  \E r \in Requests :
    \/ Admit(r) \/ TurnAway(r) \/ Greet(r)
    \/ CarryOut(r) \/ NotFound(r) \/ Conflict(r) \/ Lose(r)

Spec == Init /\ [][Next]_directory
=============================================================================
