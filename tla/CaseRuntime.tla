---------------------------- MODULE CaseRuntime -----------------------------
(***************************************************************************)
(* DiagnosticRuntime.open_case: a process plans a case, inserts its row,   *)
(* then runs the planned probes one after the other and commits each       *)
(* probe's result row, its inventory fact and its audit event in one       *)
(* SQLite transaction.  Several processes (the MCP server and command-line *)
(* invocations) share one database; each runs one open_case at a time.     *)
(*                                                                         *)
(* Two other operations write the same tables: retention deletes observed  *)
(* rows and leaves the facts made from them, and InventoryService.refresh  *)
(* stores a fact that comes from no case.                                  *)
(*                                                                         *)
(* The variables fall in three groups: committed tables, the one write     *)
(* transaction SQLite lets exist, and each process's memory.  A crash      *)
(* loses the memory and rolls the transaction back.                        *)
(***************************************************************************)
EXTENDS Naturals, Sequences, FiniteSets

CONSTANTS
  Proc,      \* processes that have the database open
  Case,      \* case identifiers CaseId.new() may return
  Probe,     \* registered probes
  Isolated,  \* the probes whose manifest asks for a worker process
  Run,       \* the finished runs ProbeRunner.run may hand back here
  Service,   \* the origin of a fact that InventoryService.refresh stored
  None       \* a value outside the sets above

Status == {"ok", "denied", "unavailable", "failed", "timed_out", "truncated"}

\* The size of ProbeRun.error: absent, at most the 1000 characters of
\* CoverageRecord.reason, or between that and the 4096 of ProbeRun.error.
ErrorSize == {"none", "fits_reason", "over_reason"}

\* Only the failed status carries text the runner does not fix itself.
ProbeRun ==
  {r \in [status : Status, error : ErrorSize] :
     /\ r.status = "ok" => r.error = "none"
     /\ r.status \in {"unavailable", "timed_out", "truncated"} => r.error = "fits_reason"
     /\ r.error = "over_reason" => r.status = "failed"}

ASSUME RunAssumption == Run \subseteq ProbeRun

ASSUME NoneAssumption == None \notin Proc \cup Case \cup Probe \cup Run \cup {Service}

ASSUME ServiceAssumption == Service \notin Case

ASSUME IsolatedAssumption == Isolated \subseteq Probe

AuditOutcome == {"allowed", "denied", "cancelled", "failed", "timed_out", "truncated"}

AuditOutcomeOf(status) ==
  CASE status = "ok" -> "allowed"
    [] status = "unavailable" -> "cancelled"
    [] OTHER -> status

\* What a row of table evidence says of a probe: an observation, or a
\* CoverageRecord with its status.
RowStatus == {"observed", "denied", "unavailable", "failed", "truncated"}

RowStatusOf(status) ==
  CASE status = "ok" -> "observed"
    [] status = "timed_out" -> "failed"
    [] OTHER -> status

Row == [case : Case, probe : Probe, status : RowStatus]

INSTANCE AuditChain WITH Outcome <- AuditOutcome

\* The plans the planner may return: no probe twice (candidates have
\* unique identifiers), any choice of probes, any length the budget leaves.
Plan ==
  UNION {{s \in [1..n -> Probe] : \A i, j \in 1..n : s[i] = s[j] => i = j} :
           n \in 0..Cardinality(Probe)}

VARIABLES
  \* committed tables
  cases,       \* the case_id column of table cases
  evidence,    \* table evidence: result rows of every case
  inventory,   \* inventory_current: where a probe's current fact is from
  audit,       \* audit_events, grouped by case in insertion order
  \* the write transaction
  writer,      \* the process inside BEGIN IMMEDIATE ... COMMIT
  txn,         \* what it has written so far
  \* each process's memory
  pc,          \* where it is in open_case
  case_id,     \* the case being opened
  plan,        \* its planned probes
  chain,       \* AuditChain._entries of this open_case
  run,         \* the ProbeRun being persisted
  \* history, read by properties only
  planned,     \* the plan each case was opened with
  reported,    \* the cases a caller was told are ready
  pruned       \* the rows retention has deleted

tables == <<cases, evidence, inventory, audit>>
memory == <<case_id, plan, chain, run>>
history == <<planned, reported, pruned>>
vars == <<tables, writer, txn, pc, memory, history>>

Txn == [rows : SUBSET Row, facts : SUBSET (Probe \X Case), events : Seq(AuditEntry)]
EmptyTxn == [rows |-> {}, facts |-> {}, events |-> <<>>]

\* The places of open_case: before the call, after planning, at the head of
\* the probe loop, with a run in hand, and inside the transaction before the
\* result, before the audit event and before COMMIT.
Location == {"idle", "planned", "loop", "ran", "result", "event", "commit"}
InTransaction == {"result", "event", "commit"}

TypeOK ==
  /\ cases \subseteq Case
  /\ evidence \subseteq Row
  /\ inventory \in [Probe -> Case \cup {Service, None}]
  /\ audit \in [Case -> Seq(AuditEntry)]
  /\ writer \in Proc \cup {None}
  /\ txn \in Txn
  /\ pc \in [Proc -> Location]
  /\ case_id \in [Proc -> Case \cup {None}]
  /\ plan \in [Proc -> Seq(Probe)]
  /\ chain \in [Proc -> Seq(AuditEntry)]
  /\ run \in [Proc -> Run \cup {None}]
  /\ planned \in [Case -> Seq(Probe)]
  /\ reported \subseteq Case
  /\ pruned \subseteq Row

Init ==
  /\ cases = {}
  /\ evidence = {}
  /\ inventory = [b \in Probe |-> None]
  /\ audit = [c \in Case |-> <<>>]
  /\ writer = None
  /\ txn = EmptyTxn
  /\ pc = [p \in Proc |-> "idle"]
  /\ case_id = [p \in Proc |-> None]
  /\ plan = [p \in Proc |-> <<>>]
  /\ chain = [p \in Proc |-> <<>>]
  /\ run = [p \in Proc |-> None]
  /\ planned = [c \in Case |-> <<>>]
  /\ reported = {}
  /\ pruned = {}

Goto(p, l) == pc' = [pc EXCEPT ![p] = l]

\* open_case is over for p, by return, exception or process death: its
\* locals are gone, and the transaction's context manager (or, after a
\* crash, SQLite itself) has rolled back what it had not committed.
Leave(p) ==
  /\ Goto(p, "idle")
  /\ case_id' = [case_id EXCEPT ![p] = None]
  /\ plan' = [plan EXCEPT ![p] = <<>>]
  /\ chain' = [chain EXCEPT ![p] = <<>>]
  /\ run' = [run EXCEPT ![p] = None]
  /\ IF writer = p
     THEN writer' = None /\ txn' = EmptyTxn
     ELSE UNCHANGED <<writer, txn>>

-----------------------------------------------------------------------------
\* CaseService.open_case up to create_case: a new identifier and a plan.
PlanCase(p) ==
  /\ pc[p] = "idle"
  /\ \E c \in Case \ (cases \cup {case_id[q] : q \in Proc}), s \in Plan :
       /\ case_id' = [case_id EXCEPT ![p] = c]
       /\ plan' = [plan EXCEPT ![p] = s]
  /\ Goto(p, "planned")
  /\ UNCHANGED <<tables, writer, txn, chain, run, history>>

\* The INSERT of create_case commits by itself, outside any transaction.
CreateCase(p) ==
  /\ pc[p] = "planned"
  /\ writer = None
  /\ cases' = cases \cup {case_id[p]}
  /\ planned' = [planned EXCEPT ![case_id[p]] = plan[p]]
  /\ Goto(p, "loop")
  /\ UNCHANGED <<evidence, inventory, audit, writer, txn, memory, reported, pruned>>

\* One turn of the loop: run the next probe, append to the in-memory chain.
RunProbe(p) ==
  /\ pc[p] = "loop"
  /\ Len(chain[p]) < Len(plan[p])
  /\ \E r \in Run :
       /\ run' = [run EXCEPT ![p] = r]
       /\ chain' = [chain EXCEPT ![p] =
            Append(@, NextEntry(@, plan[p][Len(@) + 1], AuditOutcomeOf(r.status)))]
  /\ Goto(p, "ran")
  /\ UNCHANGED <<tables, writer, txn, case_id, plan, history>>

\* BEGIN IMMEDIATE takes SQLite's one write lock.
Begin(p) ==
  /\ pc[p] = "ran"
  /\ writer = None
  /\ writer' = p
  /\ Goto(p, "result")
  /\ UNCHANGED <<tables, txn, memory, history>>

CurrentProbe(p) == plan[p][Len(chain[p])]

\* Mutant: the source identity leaves the probe out.
InsertRowPerCase(rows, row) ==
  IF \E r \in rows \cup evidence : r.case = row.case
                                   /\ (r.status = "observed" <=> row.status = "observed")
  THEN rows ELSE rows \cup {row}

\* (case_id, source_id) is unique and a second insert does nothing.
InsertRow(rows, row) ==
  IF \E r \in rows \cup evidence : r.case = row.case /\ r.probe = row.probe
                                   /\ (r.status = "observed" <=> row.status = "observed")
  THEN rows ELSE rows \cup {row}

ResultRow(p) ==
  [case |-> case_id[p], probe |-> CurrentProbe(p), status |-> RowStatusOf(run[p].status)]

\* Mutant: the evidence row is written on an autocommit connection.
PersistObservationAutocommit(p) ==
  /\ pc[p] = "result"
  /\ run[p].status = "ok"
  /\ evidence' = evidence \cup {ResultRow(p)}
  /\ txn' = [txn EXCEPT !.facts = @ \cup {<<CurrentProbe(p), case_id[p]>>}]
  /\ Goto(p, "event")
  /\ UNCHANGED <<cases, inventory, audit, writer, memory, history>>

\* Mutant: the inventory fact is written on an autocommit connection.
PersistInventoryAutocommit(p) ==
  /\ pc[p] = "result"
  /\ run[p].status = "ok"
  /\ txn' = [txn EXCEPT !.rows = InsertRow(@, ResultRow(p))]
  /\ inventory' = [inventory EXCEPT ![CurrentProbe(p)] = case_id[p]]
  /\ Goto(p, "event")
  /\ UNCHANGED <<cases, evidence, audit, writer, memory, history>>

\* _persist_observation: the evidence row and the inventory fact.
PersistObservation(p) ==
  /\ pc[p] = "result"
  /\ run[p].status = "ok"
  /\ txn' = [txn EXCEPT !.rows = InsertRow(@, ResultRow(p)),
                        !.facts = @ \cup {<<CurrentProbe(p), case_id[p]>>}]
  /\ Goto(p, "event")
  /\ UNCHANGED <<tables, writer, memory, history>>

\* _persist_coverage: CoverageRecord accepts a reason of 1000 characters.
PersistCoverage(p) ==
  /\ pc[p] = "result"
  /\ run[p].status # "ok"
  /\ run[p].error # "over_reason"
  /\ txn' = [txn EXCEPT !.rows = InsertRow(@, ResultRow(p))]
  /\ Goto(p, "event")
  /\ UNCHANGED <<tables, writer, memory, history>>

AppendAudit(p) ==
  /\ pc[p] = "event"
  /\ txn' = [txn EXCEPT !.events = Append(@, chain[p][Len(chain[p])])]
  /\ Goto(p, "commit")
  /\ UNCHANGED <<tables, writer, memory, history>>

Commit(p) ==
  /\ pc[p] = "commit"
  /\ evidence' = evidence \cup txn.rows
  /\ inventory' = [b \in Probe |->
       IF \E c \in Case : <<b, c>> \in txn.facts
       THEN CHOOSE c \in Case : <<b, c>> \in txn.facts
       ELSE inventory[b]]
  /\ audit' = [audit EXCEPT ![case_id[p]] = @ \o txn.events]
  /\ writer' = None
  /\ txn' = EmptyTxn
  /\ run' = [run EXCEPT ![p] = None]
  /\ Goto(p, "loop")
  /\ UNCHANGED <<cases, case_id, plan, chain, history>>

\* Mutant: the case only becomes ready once every probe was observed.
ReturnReadyFullCoverage(p) ==
  /\ pc[p] = "loop"
  /\ Len(chain[p]) = Len(plan[p])
  /\ \A r \in evidence : r.case = case_id[p] => r.status = "observed"
  /\ reported' = reported \cup {case_id[p]}
  /\ Leave(p)
  /\ UNCHANGED <<tables, planned, pruned>>

\* The loop is done: the caller gets the case with status READY.
ReturnReady(p) ==
  /\ pc[p] = "loop"
  /\ Len(chain[p]) = Len(plan[p])
  /\ reported' = reported \cup {case_id[p]}
  /\ Leave(p)
  /\ UNCHANGED <<tables, planned, pruned>>

\* The exceptions that leave open_case.  ProbeRunner.run raises when a run
\* produces no ProbeRun at all (the worker cannot be started, an error text
\* is longer than ProbeRun.error may be).
RunRaises(p) ==
  /\ pc[p] = "loop"
  /\ Len(chain[p]) < Len(plan[p])
  /\ Leave(p)
  /\ UNCHANGED <<tables, history>>

\* "database is locked": another process held the lock past busy_timeout.
BusyTimeout(p) ==
  /\ pc[p] \in {"planned", "ran"}
  /\ writer \notin {None, p}
  /\ Leave(p)
  /\ UNCHANGED <<tables, history>>

\* CoverageRecord rejects a reason of more than 1000 characters.
ReasonRejected(p) ==
  /\ pc[p] = "result"
  /\ run[p].error = "over_reason"
  /\ Leave(p)
  /\ UNCHANGED <<tables, history>>

\* Mutant: the exception is swallowed and the loop goes on.
StatementFailsContinue(p) ==
  /\ pc[p] \in InTransaction
  /\ Goto(p, "loop")
  /\ run' = [run EXCEPT ![p] = None]
  /\ writer' = None
  /\ txn' = EmptyTxn
  /\ UNCHANGED <<tables, case_id, plan, chain, history>>

\* A statement of the transaction or its COMMIT fails (disk full, I/O): the
\* context manager rolls the body back, SQLite itself a failing COMMIT.
StatementFails(p) ==
  /\ pc[p] \in InTransaction
  /\ Leave(p)
  /\ UNCHANGED <<tables, history>>

Crash(p) ==
  /\ pc[p] # "idle"
  /\ Leave(p)
  /\ UNCHANGED <<tables, history>>

-----------------------------------------------------------------------------
\* RetentionManager.prune's half in table evidence: one autocommitted DELETE
\* takes rows that are no coverage records, by age or by size.
Prune ==
  /\ writer = None
  /\ \E gone \in SUBSET {r \in evidence : r.status = "observed"} \ {{}} :
       /\ evidence' = evidence \ gone
       /\ pruned' = pruned \cup gone
  /\ UNCHANGED <<cases, inventory, audit, writer, txn, pc, memory, planned, reported>>

\* InventoryService.refresh: a fact of the caller's, in its own transaction.
Refresh ==
  /\ writer = None
  /\ \E b \in Probe : inventory' = [inventory EXCEPT ![b] = Service]
  /\ UNCHANGED <<cases, evidence, audit, writer, txn, pc, memory, history>>

Step(p) ==
  \/ CreateCase(p)
  \/ RunProbe(p)
  \/ Begin(p)
  \/ PersistObservation(p)
  \/ PersistCoverage(p)
  \/ AppendAudit(p)
  \/ Commit(p)
  \/ ReturnReady(p)
  \/ RunRaises(p)
  \/ BusyTimeout(p)
  \/ ReasonRejected(p)
  \/ StatementFails(p)

Next ==
  \/ \E p \in Proc : PlanCase(p) \/ Step(p) \/ Crash(p)
  \/ Prune
  \/ Refresh

\* p is inside the handler of a probe that runs in this process: nothing
\* sets it a deadline (probes.py:189).
InHandler(p) ==
  /\ pc[p] = "loop"
  /\ Len(chain[p]) < Len(plan[p])
  /\ plan[p][Len(chain[p]) + 1] \notin Isolated

\* A process that is inside open_case and in none of its own handlers keeps
\* running: statements and lock waits are bounded by busy_timeout, isolated
\* runs by their deadline (IsolatedRunsEnd of WorkerProtocol).
Fairness == \A p \in Proc : WF_vars(~InHandler(p) /\ Step(p))

Spec == Init /\ [][Next]_vars /\ Fairness

-----------------------------------------------------------------------------
(***************************************************************************)
(* Properties                                                              *)
(***************************************************************************)

AuditedProbes(c) == {audit[c][i].probe : i \in 1..Len(audit[c])}

\* The rows a case has, or had until retention deleted them.
RowsOf(c) == {r \in evidence \cup pruned : r.case = c}

\* A probe has a result row in a case exactly when the case's audit log has
\* its event, whatever crashes or exceptions interrupt the collection
\* (application/runtime.py:86-108, one transaction per probe); only
\* retention takes the row away from its event, and only an observed one.
ResultIffAudited ==
  \A c \in Case : {r.probe : r \in RowsOf(c)} = AuditedProbes(c)

\* The result row and the audit event of a probe tell the same story: an
\* observation was audited as allowed, a coverage gap as what caused it.
RowAgreesWithAudit ==
  \A r \in evidence : \A i \in 1..Len(audit[r.case]) :
    audit[r.case][i].probe = r.probe =>
      (r.status = "observed" <=> audit[r.case][i].outcome = "allowed")

\* What is stored of a case's audit log always passes AuditChain.verify, and
\* follows the plan's order without a gap: events of runs whose transaction
\* rolled back leave no hole in the chain (audit.py:100-134).
StoredAuditVerifies ==
  \A c \in Case :
    /\ Verify(audit[c], Checkpoint(audit[c]))
    /\ Len(audit[c]) <= Len(planned[c])
    /\ \A i \in 1..Len(audit[c]) : audit[c][i].probe = planned[c][i]

\* A case open_case returned as READY has, for every planned probe, one
\* audit event and one result row, or had it until retention deleted it
\* (application/runtime.py:109-112).  It says nothing of what a reader of the
\* database is told: _load_case calls every stored case READY.
ReadyIsComplete ==
  \A c \in reported :
    /\ Len(audit[c]) = Len(planned[c])
    /\ \A i \in 1..Len(planned[c]) :
         Cardinality({r \in RowsOf(c) : r.probe = planned[c][i]}) = 1

\* A current inventory fact that a case stored has that case's observation
\* in table evidence, until retention deletes it: the two are written by one
\* transaction (application/runtime.py:180-192), so no crash, rollback or
\* failed statement leaves the fact without the row it was made from.  Facts
\* of InventoryService.refresh have no row.
InventoryHasEvidence ==
  \A b \in Probe : inventory[b] \in Case =>
    [case |-> inventory[b], probe |-> b, status |-> "observed"] \in evidence \cup pruned

Ledger == INSTANCE CaseLedger WITH
  Observed <- "observed", Allowed <- "allowed",
  Result <- RowStatus, Outcome <- AuditOutcome,
  known <- cases,
  results <- evidence,
  events <- [c \in Case |-> [i \in 1..Len(audit[c]) |->
                              <<audit[c][i].probe, audit[c][i].outcome>>]]

\* However the processes interleave, fail and crash, the tables move only as
\* CaseLedger says: a result and its audit event appear together, once per
\* probe of a stored case and agreeing with each other; events and coverage
\* rows stay as they are, and only observations ever go.
ImplementsLedger == Ledger!LedgerSpec

\* A process is outside open_case again and again (its calls return, raise,
\* or die with it), unless it is in an in-process handler that never comes
\* back: no lock, lost transaction or other process's hanging handler holds
\* it for ever.
CallsEnd ==
  \A p \in Proc : []<>(pc[p] = "idle") \/ <>[]InHandler(p)

=============================================================================
