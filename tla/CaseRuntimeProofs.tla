-------------------------- MODULE CaseRuntimeProofs --------------------------
(***************************************************************************)
(* What holds of CaseRuntime for every set of processes, cases, probes and *)
(* probe runs.                                                             *)
(***************************************************************************)
EXTENDS CaseRuntime, SequenceTheorems, FiniteSetTheorems, TLAPS

-----------------------------------------------------------------------------
(***************************************************************************)
(* The audit chain.                                                        *)
(***************************************************************************)

\* The entry append() builds is well formed, carries the probe and outcome
\* it was asked to record, and names its predecessor.
LEMMA NextEntryType ==
  ASSUME NEW entries \in Seq(AuditEntry), NEW probe \in Probe, NEW outcome \in AuditOutcome
  PROVE  LET e == NextEntry(entries, probe, outcome)
         IN  /\ e \in AuditEntry
             /\ e.sequence = Len(entries) + 1
             /\ e.probe = probe
             /\ e.outcome = outcome
             /\ e.previous_hash = HeadHash(entries)
             /\ e.event_hash = HashEntry(e)
<1>1. HeadHash(entries) \in Digest
  <2>1. CASE entries = <<>>
    BY <2>1 DEF HeadHash, GenesisHash, Digest
  <2>2. CASE entries # <<>>
    <3>1. Len(entries) \in 1..Len(entries)
      BY <2>2
    <3>2. entries[Len(entries)] \in AuditEntry
      BY <3>1
    <3>3. QED
      BY <2>2, <3>2 DEF HeadHash, AuditEntry
  <2>3. QED
    BY <2>1, <2>2
<1> DEFINE candidate == [sequence |-> Len(entries) + 1,
                         probe |-> probe,
                         outcome |-> outcome,
                         previous_hash |-> HeadHash(entries),
                         event_hash |-> GenesisHash]
           e == NextEntry(entries, probe, outcome)
<1>2. e = [candidate EXCEPT !.event_hash = HashEntry(candidate)]
  BY DEF NextEntry
<1>3. HashEntry(candidate) \in Digest
  BY <1>1 DEF HashEntry, BodyOf, Body, Digest
<1>4. e = [sequence |-> Len(entries) + 1,
           probe |-> probe,
           outcome |-> outcome,
           previous_hash |-> HeadHash(entries),
           event_hash |-> HashEntry(candidate)]
  BY <1>2
<1>5. HashEntry(e) = HashEntry(candidate)
  BY <1>4 DEF HashEntry, BodyOf
<1> HIDE DEF candidate
<1>6. QED
  BY <1>1, <1>3, <1>4, <1>5 DEF AuditEntry

\* Appending keeps a chain linked: AuditChain.verify accepts what append()
\* produced from what it accepted before.
LEMMA AppendKeepsLinked ==
  ASSUME NEW entries \in Seq(AuditEntry), NEW probe \in Probe, NEW outcome \in AuditOutcome,
         Linked(entries)
  PROVE  Linked(Append(entries, NextEntry(entries, probe, outcome)))
<1> DEFINE e == NextEntry(entries, probe, outcome)
           longer == Append(entries, e)
<1>1. /\ e \in AuditEntry
      /\ e.sequence = Len(entries) + 1
      /\ e.previous_hash = HeadHash(entries)
      /\ e.event_hash = HashEntry(e)
  BY NextEntryType
<1> HIDE DEF e
<1> SUFFICES ASSUME NEW i \in 1..Len(longer)
             PROVE  /\ longer[i].sequence = i
                    /\ longer[i].previous_hash = ExpectedPrevious(longer, i)
                    /\ longer[i].event_hash = HashEntry(longer[i])
  BY DEF Linked, e
<1>2. Len(longer) = Len(entries) + 1
  BY <1>1
<1>3. \A j \in 1..Len(entries) : longer[j] = entries[j]
  BY <1>1
<1>4. longer[Len(entries) + 1] = e
  BY <1>1
<1>5. CASE i \in 1..Len(entries)
  <2>1. longer[i] = entries[i] /\ (i # 1 => longer[i - 1] = entries[i - 1])
    BY <1>3, <1>5
  <2>2. ExpectedPrevious(longer, i) = ExpectedPrevious(entries, i)
    BY <2>1 DEF ExpectedPrevious
  <2>3. QED
    BY <1>5, <2>1, <2>2 DEF Linked
<1>6. CASE i = Len(entries) + 1
  <2>1. CASE entries = <<>>
    BY <1>1, <1>4, <1>6, <2>1 DEF ExpectedPrevious, HeadHash
  <2>2. CASE entries # <<>>
    <3>1. Len(entries) \in 1..Len(entries) /\ i # 1 /\ i - 1 = Len(entries)
      BY <1>6, <2>2
    <3>2. ExpectedPrevious(longer, i) = entries[Len(entries)].event_hash
      BY <1>3, <3>1 DEF ExpectedPrevious
    <3>3. QED
      BY <1>1, <1>4, <1>6, <2>2, <3>2 DEF HeadHash
  <2>3. QED
    BY <2>1, <2>2
<1>7. QED
  BY <1>2, <1>5, <1>6
-----------------------------------------------------------------------------
(***************************************************************************)
(* Control: where each process is, which case it owns and who holds the    *)
(* write lock.                                                             *)
(***************************************************************************)

Collecting == {"loop", "ran", "result", "event", "commit"}
HasRun == {"ran", "result", "event", "commit"}

NoRepeat(s) == \A i, j \in 1..Len(s) : s[i] = s[j] => i = j

ControlType ==
  /\ cases \subseteq Case
  /\ reported \subseteq cases
  /\ planned \in [Case -> Seq(Probe)]
  /\ writer \in Proc \cup {None}
  /\ pc \in [Proc -> Location]
  /\ case_id \in [Proc -> Case \cup {None}]
  /\ plan \in [Proc -> Seq(Probe)]
  /\ run \in [Proc -> Run \cup {None}]

Control(p) ==
  /\ pc[p] = "idle" <=> case_id[p] = None
  /\ pc[p] = "planned" => case_id[p] \notin cases /\ plan[p] \in Plan
  /\ pc[p] \in Collecting => /\ case_id[p] \in cases \ reported
                             /\ planned[case_id[p]] = plan[p]
  /\ pc[p] \in HasRun => run[p] \in Run
  /\ writer = p <=> pc[p] \in InTransaction
  /\ NoRepeat(plan[p])

\* No two processes collect for one case.
Exclusive(p, q) == case_id[p] = case_id[q] /\ case_id[p] # None => p = q

ControlInv ==
  /\ ControlType
  /\ \A p \in Proc : Control(p)
  /\ \A p, q \in Proc : Exclusive(p, q)

USE DEF Location, InTransaction, Collecting, HasRun

\* The five ways out of open_case that change no table.
GiveUp(p) ==
  RunRaises(p) \/ BusyTimeout(p) \/ ReasonRejected(p) \/ StatementFails(p) \/ Crash(p)

LEMMA GiveUpStep ==
  ASSUME NEW p \in Proc, GiveUp(p)
  PROVE  pc[p] # "idle" /\ Leave(p) /\ UNCHANGED <<tables, history>>
BY DEF GiveUp, RunRaises, BusyTimeout, ReasonRejected, StatementFails, Crash

\* Retention and the inventory service touch no process and no audit log.
LEMMA OutsideStep ==
  ASSUME Prune \/ Refresh
  PROVE  UNCHANGED <<cases, audit, writer, txn, pc, memory, planned, reported>>
BY DEF Prune, Refresh, history

\* What every plan of the planner is, and the plan of an idle process.
LEMMA PlanIsSequence ==
  /\ \A s \in Plan : s \in Seq(Probe) /\ NoRepeat(s)
  /\ <<>> \in Seq(Probe) /\ NoRepeat(<<>>)
<1>1. ASSUME NEW s \in Plan PROVE s \in Seq(Probe) /\ NoRepeat(s)
  <2>1. PICK n \in 0..Cardinality(Probe) :
          s \in {t \in [1..n -> Probe] : \A i, j \in 1..n : t[i] = t[j] => i = j}
    BY DEF Plan
  <2>2. n \in Nat
    OBVIOUS
  <2>3. s \in Seq(Probe) /\ Len(s) = n
    BY <2>1, <2>2
  <2>4. QED
    BY <2>1, <2>3 DEF NoRepeat
<1>2. QED
  BY <1>1 DEF NoRepeat

\* A process that leaves open_case disturbs nobody's control.
LEMMA LeaveKeepsControl ==
  ASSUME ControlInv, NEW p \in Proc, Leave(p), UNCHANGED <<cases, planned>>,
         reported' = reported \/ (pc[p] \in Collecting /\ reported' = reported \cup {case_id[p]})
  PROVE  ControlInv'
<1> USE NoneAssumption
<1>1. ControlType /\ Control(p)
  BY DEF ControlInv
<1>2. /\ pc' = [pc EXCEPT ![p] = "idle"]
      /\ case_id' = [case_id EXCEPT ![p] = None]
      /\ plan' = [plan EXCEPT ![p] = <<>>]
      /\ run' = [run EXCEPT ![p] = None]
      /\ writer' = IF writer = p THEN None ELSE writer
  BY DEF Leave, Goto
<1>3. reported' \subseteq cases' /\ cases' = cases /\ planned' = planned
  BY <1>1 DEF ControlType, Control
<1>4. ControlType'
  BY <1>1, <1>2, <1>3, PlanIsSequence DEF ControlType
<1>5. ASSUME NEW q \in Proc PROVE Control(q)'
  <2>1. Control(q) /\ Exclusive(p, q)
    BY DEF ControlInv
  <2>2. CASE q = p
    BY <1>1, <1>2, <2>2, PlanIsSequence DEF ControlType, Control
  <2>3. CASE q # p
    <3>1. /\ pc'[q] = pc[q] /\ case_id'[q] = case_id[q] /\ plan'[q] = plan[q]
          /\ run'[q] = run[q] /\ (writer' = q <=> writer = q)
      BY <1>1, <1>2, <2>3 DEF ControlType
    <3>2. pc[q] \in Collecting => case_id[q] \notin reported'
      BY <1>1, <2>1, <2>3 DEF ControlType, Control, Exclusive
    <3>3. QED
      BY <1>3, <2>1, <3>1, <3>2 DEF Control
  <2>4. QED
    BY <2>2, <2>3
<1>6. ASSUME NEW q \in Proc, NEW r \in Proc PROVE Exclusive(q, r)'
  BY <1>1, <1>2 DEF ControlInv, ControlType, Exclusive
<1>7. QED
  BY <1>4, <1>5, <1>6 DEF ControlInv

LEMMA ControlStep == ControlInv /\ [Next]_vars => ControlInv'
<1> SUFFICES ASSUME ControlInv, [Next]_vars PROVE ControlInv'
  OBVIOUS
<1> USE NoneAssumption
<1>0. ControlType /\ (\A q \in Proc : Control(q)) /\ (\A q, r \in Proc : Exclusive(q, r))
  BY DEF ControlInv
<1>1. ASSUME NEW p \in Proc, PlanCase(p) PROVE ControlInv'
  <2>1. PICK c \in Case \ (cases \cup {case_id[q] : q \in Proc}), s \in Plan :
          /\ case_id' = [case_id EXCEPT ![p] = c]
          /\ plan' = [plan EXCEPT ![p] = s]
    BY <1>1 DEF PlanCase
  <2>2. /\ pc[p] = "idle" /\ pc' = [pc EXCEPT ![p] = "planned"]
        /\ cases' = cases /\ writer' = writer /\ run' = run
        /\ planned' = planned /\ reported' = reported
    BY <1>1 DEF PlanCase, Goto, tables, history
  <2>3. s \in Seq(Probe) /\ NoRepeat(s)
    BY PlanIsSequence
  <2>4. ControlType'
    BY <1>0, <2>1, <2>2, <2>3 DEF ControlType
  <2>5. ASSUME NEW q \in Proc PROVE Control(q)'
    BY <1>0, <2>1, <2>2, <2>3 DEF ControlType, Control
  <2>6. ASSUME NEW q \in Proc, NEW r \in Proc PROVE Exclusive(q, r)'
    BY <1>0, <2>1 DEF ControlType, Exclusive
  <2>7. QED
    BY <2>4, <2>5, <2>6 DEF ControlInv
<1>2. ASSUME NEW p \in Proc, CreateCase(p) PROVE ControlInv'
  <2>1. /\ pc[p] = "planned" /\ pc' = [pc EXCEPT ![p] = "loop"]
        /\ cases' = cases \cup {case_id[p]}
        /\ planned' = [planned EXCEPT ![case_id[p]] = plan[p]]
        /\ writer' = writer /\ case_id' = case_id /\ plan' = plan
        /\ run' = run /\ reported' = reported
    BY <1>2 DEF CreateCase, Goto, memory
  <2>2. case_id[p] \in Case /\ case_id[p] \notin cases
    BY <1>0, <2>1 DEF ControlType, Control
  <2>3. ControlType'
    BY <1>0, <2>1, <2>2 DEF ControlType
  <2>4. ASSUME NEW q \in Proc PROVE Control(q)'
    <3>1. Control(q) /\ Exclusive(p, q)
      BY <1>0
    <3>2. CASE q = p
      BY <1>0, <2>1, <2>2, <3>1, <3>2 DEF ControlType, Control
    <3>3. CASE q # p
      <4>1. pc'[q] = pc[q] /\ (case_id[q] # None => case_id[q] # case_id[p])
        BY <1>0, <2>1, <3>1, <3>3, <2>2 DEF ControlType, Exclusive
      <4>2. pc[q] # "idle" => planned'[case_id[q]] = planned[case_id[q]]
        BY <1>0, <2>1, <2>2, <3>1, <4>1 DEF ControlType, Control
      <4>3. QED
        BY <2>1, <3>1, <4>1, <4>2 DEF Control
    <3>4. QED
      BY <3>2, <3>3
  <2>5. QED
    BY <1>0, <2>1, <2>3, <2>4 DEF ControlInv, Exclusive
<1>3. ASSUME NEW p \in Proc, RunProbe(p) PROVE ControlInv'
  <2>1. PICK r \in Run : run' = [run EXCEPT ![p] = r]
    BY <1>3 DEF RunProbe
  <2>2. /\ pc[p] = "loop" /\ pc' = [pc EXCEPT ![p] = "ran"]
        /\ cases' = cases /\ writer' = writer /\ case_id' = case_id /\ plan' = plan
        /\ planned' = planned /\ reported' = reported
    BY <1>3 DEF RunProbe, Goto, tables, history
  <2>3. ControlType'
    BY <1>0, <2>1, <2>2 DEF ControlType
  <2>4. ASSUME NEW q \in Proc PROVE Control(q)'
    BY <1>0, <2>1, <2>2 DEF ControlType, Control
  <2>5. QED
    BY <1>0, <2>2, <2>3, <2>4 DEF ControlInv, Exclusive
<1>4. ASSUME NEW p \in Proc, Begin(p) PROVE ControlInv'
  <2>1. /\ pc[p] = "ran" /\ pc' = [pc EXCEPT ![p] = "result"]
        /\ writer = None /\ writer' = p
        /\ cases' = cases /\ case_id' = case_id /\ plan' = plan /\ run' = run
        /\ planned' = planned /\ reported' = reported
    BY <1>4 DEF Begin, Goto, tables, memory, history
  <2>2. ControlType'
    BY <1>0, <2>1 DEF ControlType
  <2>3. ASSUME NEW q \in Proc PROVE Control(q)'
    BY <1>0, <2>1 DEF ControlType, Control
  <2>4. QED
    BY <1>0, <2>1, <2>2, <2>3 DEF ControlInv, Exclusive
<1>5. ASSUME NEW p \in Proc, PersistObservation(p) \/ PersistCoverage(p) \/ AppendAudit(p)
      PROVE  ControlInv'
  <2>1. PICK l \in InTransaction : pc' = [pc EXCEPT ![p] = l]
    BY <1>5 DEF PersistObservation, PersistCoverage, AppendAudit, Goto
  <2>2. /\ pc[p] \in InTransaction
        /\ writer' = writer
        /\ cases' = cases /\ case_id' = case_id /\ plan' = plan /\ run' = run
        /\ planned' = planned /\ reported' = reported
    BY <1>5 DEF PersistObservation, PersistCoverage, AppendAudit, Goto, tables, memory, history
  <2>3. ControlType'
    BY <1>0, <2>1, <2>2 DEF ControlType
  <2>4. ASSUME NEW q \in Proc PROVE Control(q)'
    BY <1>0, <2>1, <2>2 DEF ControlType, Control
  <2>5. QED
    BY <1>0, <2>2, <2>3, <2>4 DEF ControlInv, Exclusive
<1>6. ASSUME NEW p \in Proc, Commit(p) PROVE ControlInv'
  <2>1. /\ pc[p] = "commit" /\ pc' = [pc EXCEPT ![p] = "loop"]
        /\ writer' = None /\ run' = [run EXCEPT ![p] = None]
        /\ cases' = cases /\ case_id' = case_id /\ plan' = plan
        /\ planned' = planned /\ reported' = reported
    BY <1>6 DEF Commit, Goto, history
  <2>2. writer = p
    BY <1>0, <2>1 DEF Control
  <2>3. ControlType'
    BY <1>0, <2>1 DEF ControlType
  <2>4. ASSUME NEW q \in Proc PROVE Control(q)'
    BY <1>0, <2>1, <2>2 DEF ControlType, Control
  <2>5. QED
    BY <1>0, <2>1, <2>3, <2>4 DEF ControlInv, Exclusive
<1>7. ASSUME NEW p \in Proc, ReturnReady(p) PROVE ControlInv'
  BY <1>7, LeaveKeepsControl DEF ReturnReady, tables
<1>8. ASSUME NEW p \in Proc, GiveUp(p) PROVE ControlInv'
  BY <1>8, GiveUpStep, LeaveKeepsControl DEF tables, history
<1>9. CASE Prune \/ Refresh
  BY <1>0, <1>9, OutsideStep DEF memory, ControlInv, ControlType, Control, Exclusive
<1>10. CASE UNCHANGED vars
  BY <1>0, <1>10 DEF vars, tables, memory, history, ControlInv, ControlType, Control, Exclusive
<1>11. QED
  BY <1>1, <1>2, <1>3, <1>4, <1>5, <1>6, <1>7, <1>8, <1>9, <1>10 DEF Next, Step, GiveUp

\* Whatever happens, the write lock is held by exactly the process inside a
\* transaction, and no two processes collect for one case.
THEOREM ControlHolds == Spec => []ControlInv
<1>1. Init => ControlInv
  BY NoneAssumption, PlanIsSequence DEF Init, ControlInv, ControlType, Control, Exclusive
<1>2. QED
  BY <1>1, ControlStep, PTL DEF Spec

-----------------------------------------------------------------------------
(***************************************************************************)
(* The audit log: what is stored is a verified chain that follows the      *)
(* plan, and the chain in memory is at most one entry ahead of it.         *)
(***************************************************************************)

\* The entry a process with a run in hand is about to store.
Pending(p) ==
  LET e == audit[case_id[p]]
  IN  NextEntry(e, plan[p][Len(e) + 1], AuditOutcomeOf(run[p].status))

Chained(p) ==
  /\ pc[p] \in {"idle", "planned"} => chain[p] = <<>>
  /\ pc[p] = "loop" => chain[p] = audit[case_id[p]]
  /\ pc[p] \in HasRun => /\ Len(audit[case_id[p]]) < Len(plan[p])
                         /\ chain[p] = Append(audit[case_id[p]], Pending(p))
  /\ pc[p] \in {"result", "event"} => txn.events = <<>>
  /\ pc[p] = "commit" => txn.events = <<Pending(p)>>

Stored(c) ==
  /\ c \notin cases => audit[c] = <<>>
  /\ Linked(audit[c])
  /\ Len(audit[c]) <= Len(planned[c])
  /\ \A i \in 1..Len(audit[c]) : audit[c][i].probe = planned[c][i]
  /\ c \in reported => Len(audit[c]) = Len(planned[c])

ChainType ==
  /\ audit \in [Case -> Seq(AuditEntry)]
  /\ chain \in [Proc -> Seq(AuditEntry)]
  /\ txn \in Txn

ChainInv ==
  /\ ChainType
  /\ writer = None => txn = EmptyTxn
  /\ \A p \in Proc : Chained(p)
  /\ \A c \in Case : Stored(c)

\* How a run's status is audited and stored: the two always agree.
LEMMA RunOutcome ==
  ASSUME NEW r \in Run
  PROVE  /\ AuditOutcomeOf(r.status) \in AuditOutcome
         /\ RowStatusOf(r.status) \in RowStatus
         /\ AuditOutcomeOf(r.status) = "allowed" <=> r.status = "ok"
         /\ RowStatusOf(r.status) = "observed" <=> r.status = "ok"
BY RunAssumption DEF ProbeRun, Status, AuditOutcomeOf, AuditOutcome, RowStatusOf, RowStatus

\* A process with a run in hand has a well-formed entry and row for it.
LEMMA PendingEntry ==
  ASSUME ControlInv, ChainInv, NEW p \in Proc, pc[p] \in HasRun
  PROVE  /\ case_id[p] \in Case
         /\ audit[case_id[p]] \in Seq(AuditEntry)
         /\ Len(chain[p]) = Len(audit[case_id[p]]) + 1
         /\ Len(chain[p]) \in 1..Len(plan[p])
         /\ CurrentProbe(p) \in Probe
         /\ Pending(p) \in AuditEntry
         /\ Pending(p).probe = CurrentProbe(p)
         /\ Pending(p).outcome = AuditOutcomeOf(run[p].status)
         /\ chain[p][Len(chain[p])] = Pending(p)
         /\ ResultRow(p) \in Row
<1>1. ControlType /\ Control(p) /\ ChainType /\ Chained(p)
  BY DEF ControlInv, ChainInv
<1>2. case_id[p] \in Case /\ run[p] \in Run /\ plan[p] \in Seq(Probe)
  BY <1>1 DEF ControlType, Control
<1> DEFINE e == audit[case_id[p]]
<1>3. e \in Seq(AuditEntry) /\ Len(e) < Len(plan[p]) /\ chain[p] = Append(e, Pending(p))
  BY <1>1, <1>2 DEF ChainType, Chained
<1>4. plan[p][Len(e) + 1] \in Probe
  BY <1>2, <1>3
<1>5. AuditOutcomeOf(run[p].status) \in AuditOutcome /\ RowStatusOf(run[p].status) \in RowStatus
  BY <1>2, RunOutcome
<1>6. /\ Pending(p) \in AuditEntry
      /\ Pending(p).probe = plan[p][Len(e) + 1]
      /\ Pending(p).outcome = AuditOutcomeOf(run[p].status)
  BY <1>3, <1>4, <1>5, NextEntryType DEF Pending
<1> HIDE DEF e
<1>7. Len(chain[p]) = Len(e) + 1 /\ chain[p][Len(chain[p])] = Pending(p)
  BY <1>3, <1>6
<1>8. CurrentProbe(p) = plan[p][Len(e) + 1] /\ Len(chain[p]) \in 1..Len(plan[p])
  BY <1>2, <1>3, <1>7 DEF CurrentProbe
<1>9. ResultRow(p) \in Row
  BY <1>2, <1>4, <1>5, <1>8 DEF ResultRow, Row
<1>10. QED
  BY <1>2, <1>3, <1>4, <1>6, <1>7, <1>8, <1>9 DEF e

\* A process that leaves open_case takes its transaction with it.
LEMMA LeaveKeepsChain ==
  ASSUME ControlInv, ChainInv, NEW p \in Proc, Leave(p), UNCHANGED <<cases, audit, planned>>,
         \/ reported' = reported
         \/ /\ pc[p] = "loop"
            /\ Len(chain[p]) = Len(plan[p])
            /\ reported' = reported \cup {case_id[p]}
  PROVE  ChainInv'
<1> USE NoneAssumption
<1>1. ControlType /\ Control(p) /\ ChainType /\ Chained(p)
  BY DEF ControlInv, ChainInv
<1>2. /\ pc' = [pc EXCEPT ![p] = "idle"]
      /\ case_id' = [case_id EXCEPT ![p] = None]
      /\ plan' = [plan EXCEPT ![p] = <<>>]
      /\ chain' = [chain EXCEPT ![p] = <<>>]
      /\ run' = [run EXCEPT ![p] = None]
      /\ IF writer = p THEN writer' = None /\ txn' = EmptyTxn
                       ELSE writer' = writer /\ txn' = txn
  BY DEF Leave, Goto
<1>3. EmptyTxn \in Txn
  BY DEF EmptyTxn, Txn
<1>4. ChainType'
  BY <1>1, <1>2, <1>3 DEF ChainType
<1>5. (writer = None => txn = EmptyTxn)'
  BY <1>2 DEF ChainInv
<1>6. ASSUME NEW q \in Proc PROVE Chained(q)'
  <2>1. CASE q = p
    BY <1>1, <1>2, <2>1 DEF Chained, ControlType, ChainType
  <2>2. CASE q # p
    <3>1. Chained(q) /\ Control(q)
      BY DEF ControlInv, ChainInv
    <3>2. /\ pc'[q] = pc[q] /\ case_id'[q] = case_id[q] /\ plan'[q] = plan[q]
          /\ chain'[q] = chain[q] /\ run'[q] = run[q] /\ audit' = audit
      BY <1>1, <1>2, <2>2 DEF ControlType, ChainType
    <3>3. pc[q] \in InTransaction => txn' = txn
      BY <1>1, <1>2, <2>2, <3>1 DEF Control
    <3>4. Pending(q)' = Pending(q)
      BY <3>2 DEF Pending
    <3>5. QED
      BY <3>1, <3>2, <3>3, <3>4 DEF Chained
  <2>3. QED
    BY <2>1, <2>2
<1>7. ASSUME NEW c \in Case PROVE Stored(c)'
  <2>1. Stored(c)
    BY DEF ChainInv
  <2>2. c \in reported' => Len(audit[c]) = Len(planned[c])
    BY <1>1, <2>1 DEF Control, Chained, Stored
  <2>3. QED
    BY <2>1, <2>2 DEF Stored
<1>8. QED
  BY <1>4, <1>5, <1>6, <1>7 DEF ChainInv

LEMMA ChainStep == ControlInv /\ ControlInv' /\ ChainInv /\ [Next]_vars => ChainInv'
<1> SUFFICES ASSUME ControlInv, ControlInv', ChainInv, [Next]_vars PROVE ChainInv'
  OBVIOUS
<1> USE NoneAssumption
<1>0. /\ ControlType /\ (\A q \in Proc : Control(q)) /\ (\A q, r \in Proc : Exclusive(q, r))
      /\ ChainType /\ (writer = None => txn = EmptyTxn)
      /\ (\A q \in Proc : Chained(q)) /\ (\A c \in Case : Stored(c))
  BY DEF ControlInv, ChainInv
<1>1. ASSUME NEW p \in Proc, PlanCase(p) PROVE ChainInv'
  <2>1. /\ pc[p] = "idle" /\ pc' = [pc EXCEPT ![p] = "planned"]
        /\ cases' = cases /\ audit' = audit /\ writer' = writer /\ txn' = txn
        /\ chain' = chain /\ run' = run /\ planned' = planned /\ reported' = reported
    BY <1>1 DEF PlanCase, Goto, tables, history
  <2>2. \A q \in Proc : q # p => case_id'[q] = case_id[q] /\ plan'[q] = plan[q]
    BY <1>0, <1>1 DEF PlanCase, ControlType
  <2>3. ASSUME NEW q \in Proc PROVE Chained(q)'
    <3>1. CASE q = p
      BY <1>0, <2>1, <3>1 DEF Chained, ControlType
    <3>2. CASE q # p
      BY <1>0, <2>1, <2>2, <3>2 DEF Chained, ControlType, Pending
    <3>3. QED
      BY <3>1, <3>2
  <2>4. QED
    BY <1>0, <2>1, <2>3 DEF ChainInv, ChainType, Stored
<1>2. ASSUME NEW p \in Proc, CreateCase(p) PROVE ChainInv'
  <2>1. /\ pc[p] = "planned" /\ pc' = [pc EXCEPT ![p] = "loop"]
        /\ cases' = cases \cup {case_id[p]}
        /\ planned' = [planned EXCEPT ![case_id[p]] = plan[p]]
        /\ audit' = audit /\ writer' = writer /\ txn' = txn /\ case_id' = case_id
        /\ plan' = plan /\ chain' = chain /\ run' = run /\ reported' = reported
    BY <1>2 DEF CreateCase, Goto, memory
  <2>2. case_id[p] \in Case /\ case_id[p] \notin cases
    BY <1>0, <2>1 DEF ControlType, Control
  <2>3. audit[case_id[p]] = <<>> /\ chain[p] = <<>>
    BY <1>0, <2>1, <2>2 DEF Stored, Chained
  <2>4. ASSUME NEW q \in Proc PROVE Chained(q)'
    <3>1. CASE q = p
      BY <1>0, <2>1, <2>3, <3>1 DEF Chained, ControlType
    <3>2. CASE q # p
      BY <1>0, <2>1, <3>2 DEF Chained, ControlType, Pending
    <3>3. QED
      BY <3>1, <3>2
  <2>5. ASSUME NEW c \in Case PROVE Stored(c)'
    <3>1. CASE c = case_id[p]
      <4>1. audit'[c] = <<>> /\ c \notin reported'
        BY <1>0, <2>1, <2>2, <2>3, <3>1 DEF ControlType
      <4>2. planned'[c] \in Seq(Probe)
        BY <1>0, <2>1, <2>2, <3>1 DEF ControlType
      <4>3. QED
        BY <4>1, <4>2 DEF Stored, Linked
    <3>2. CASE c # case_id[p]
      <4>1. planned'[c] = planned[c] /\ (c \in cases' <=> c \in cases)
        BY <1>0, <2>1, <3>2 DEF ControlType
      <4>2. QED
        BY <1>0, <2>1, <4>1 DEF Stored
    <3>3. QED
      BY <3>1, <3>2
  <2>6. QED
    BY <1>0, <2>1, <2>4, <2>5 DEF ChainInv, ChainType
<1>3. ASSUME NEW p \in Proc, RunProbe(p) PROVE ChainInv'
  <2>1. PICK r \in Run :
          /\ run' = [run EXCEPT ![p] = r]
          /\ chain' = [chain EXCEPT ![p] =
               Append(@, NextEntry(@, plan[p][Len(@) + 1], AuditOutcomeOf(r.status)))]
    BY <1>3 DEF RunProbe
  <2>2. /\ pc[p] = "loop" /\ pc' = [pc EXCEPT ![p] = "ran"]
        /\ Len(chain[p]) < Len(plan[p])
        /\ cases' = cases /\ audit' = audit /\ writer' = writer /\ txn' = txn
        /\ case_id' = case_id /\ plan' = plan /\ planned' = planned /\ reported' = reported
    BY <1>3 DEF RunProbe, Goto, tables, history
  <2>3. chain[p] = audit[case_id[p]] /\ case_id[p] \in Case /\ plan[p] \in Seq(Probe)
    BY <1>0, <2>2 DEF Chained, Control, ControlType
  <2>4. run'[p] = r /\ pc'[p] = "ran"
    BY <1>0, <2>1, <2>2 DEF ControlType
  <2>5. chain'[p] = Append(audit[case_id[p]], Pending(p)')
    BY <1>0, <2>1, <2>2, <2>3, <2>4 DEF Pending, ChainType
  <2>6. Pending(p)' \in AuditEntry
    <3>1. plan[p][Len(chain[p]) + 1] \in Probe
      BY <1>0, <2>2, <2>3 DEF ChainType
    <3>2. AuditOutcomeOf(r.status) \in AuditOutcome
      BY RunOutcome
    <3>3. audit[case_id[p]] \in Seq(AuditEntry)
      BY <1>0, <2>3 DEF ChainType
    <3>4. QED
      BY <2>2, <2>3, <2>4, <3>1, <3>2, <3>3, NextEntryType DEF Pending
  <2>7. ChainType'
    BY <1>0, <2>1, <2>2, <2>3, <2>5, <2>6 DEF ChainType
  <2>8. ASSUME NEW q \in Proc PROVE Chained(q)'
    <3>1. CASE q = p
      BY <2>2, <2>3, <2>4, <2>5, <3>1 DEF Chained
    <3>2. CASE q # p
      <4>1. /\ pc'[q] = pc[q] /\ run'[q] = run[q] /\ chain'[q] = chain[q]
        BY <1>0, <2>1, <2>2, <3>2 DEF ControlType, ChainType
      <4>2. QED
        BY <1>0, <2>2, <4>1 DEF Chained, Pending
    <3>3. QED
      BY <3>1, <3>2
  <2>9. QED
    BY <1>0, <2>2, <2>7, <2>8 DEF ChainInv, Stored
<1>4. ASSUME NEW p \in Proc, Begin(p) PROVE ChainInv'
  <2>1. /\ pc[p] = "ran" /\ pc' = [pc EXCEPT ![p] = "result"]
        /\ writer = None /\ writer' = p
        /\ cases' = cases /\ audit' = audit /\ txn' = txn /\ case_id' = case_id
        /\ plan' = plan /\ chain' = chain /\ run' = run
        /\ planned' = planned /\ reported' = reported
    BY <1>4 DEF Begin, Goto, tables, memory, history
  <2>2. txn.events = <<>>
    BY <1>0, <2>1 DEF EmptyTxn
  <2>3. ASSUME NEW q \in Proc PROVE Chained(q)'
    BY <1>0, <2>1, <2>2 DEF Chained, ControlType, Pending
  <2>4. QED
    BY <1>0, <2>1, <2>3 DEF ChainInv, ChainType, Stored
<1>5. ASSUME NEW p \in Proc, PersistObservation(p) \/ PersistCoverage(p) PROVE ChainInv'
  <2>1. /\ pc[p] = "result" /\ pc' = [pc EXCEPT ![p] = "event"]
        /\ cases' = cases /\ audit' = audit /\ writer' = writer /\ case_id' = case_id
        /\ plan' = plan /\ chain' = chain /\ run' = run
        /\ planned' = planned /\ reported' = reported
    BY <1>5 DEF PersistObservation, PersistCoverage, Goto, tables, memory, history
  <2>2. writer = p
    BY <1>0, <2>1 DEF Control
  <2>3. CurrentProbe(p) \in Probe /\ case_id[p] \in Case /\ ResultRow(p) \in Row
    BY <2>1, PendingEntry
  <2>4. InsertRow(txn.rows, ResultRow(p)) \subseteq Row
    BY <1>0, <2>3 DEF InsertRow, ChainType, Txn
  <2>5. txn' \in Txn /\ txn'.events = txn.events
    <3>1. CASE PersistObservation(p)
      <4>1. txn' = [rows |-> InsertRow(txn.rows, ResultRow(p)),
                    facts |-> txn.facts \cup {<<CurrentProbe(p), case_id[p]>>},
                    events |-> txn.events]
        BY <1>0, <3>1 DEF PersistObservation, ChainType, Txn
      <4>2. txn.facts \cup {<<CurrentProbe(p), case_id[p]>>} \subseteq Probe \X Case
        BY <1>0, <2>3 DEF ChainType, Txn
      <4>3. QED
        BY <1>0, <2>4, <4>1, <4>2 DEF ChainType, Txn
    <3>2. CASE PersistCoverage(p)
      BY <1>0, <2>3, <2>4, <3>2 DEF PersistCoverage, ChainType, Txn
    <3>3. QED
      BY <1>5, <3>1, <3>2
  <2>6. ASSUME NEW q \in Proc PROVE Chained(q)'
    <3>1. CASE q = p
      BY <1>0, <2>1, <2>5, <3>1 DEF Chained, ControlType, Pending
    <3>2. CASE q # p
      BY <1>0, <2>1, <2>2, <3>2 DEF Chained, ControlType, Control, Pending
    <3>3. QED
      BY <3>1, <3>2
  <2>7. QED
    BY <1>0, <2>1, <2>2, <2>5, <2>6 DEF ChainInv, ChainType, Stored
<1>6. ASSUME NEW p \in Proc, AppendAudit(p) PROVE ChainInv'
  <2>1. /\ pc[p] = "event" /\ pc' = [pc EXCEPT ![p] = "commit"]
        /\ txn' = [txn EXCEPT !.events = Append(@, chain[p][Len(chain[p])])]
        /\ cases' = cases /\ audit' = audit /\ writer' = writer /\ case_id' = case_id
        /\ plan' = plan /\ chain' = chain /\ run' = run
        /\ planned' = planned /\ reported' = reported
    BY <1>6 DEF AppendAudit, Goto, tables, memory, history
  <2>2. writer = p /\ txn.events = <<>>
    BY <1>0, <2>1 DEF Control, Chained
  <2>3. chain[p][Len(chain[p])] = Pending(p) /\ Pending(p) \in AuditEntry
    BY <2>1, PendingEntry
  <2>4. txn' \in Txn /\ txn'.events = <<Pending(p)>>
    <3>1. txn' = [rows |-> txn.rows, facts |-> txn.facts,
                  events |-> Append(txn.events, Pending(p))]
      BY <1>0, <2>1, <2>3 DEF ChainType, Txn
    <3>2. Append(txn.events, Pending(p)) = <<Pending(p)>> /\ <<Pending(p)>> \in Seq(AuditEntry)
      BY <2>2, <2>3
    <3>3. QED
      BY <1>0, <3>1, <3>2 DEF ChainType, Txn
  <2>5. ASSUME NEW q \in Proc PROVE Chained(q)'
    <3>1. CASE q = p
      BY <1>0, <2>1, <2>4, <3>1 DEF Chained, ControlType, Pending
    <3>2. CASE q # p
      BY <1>0, <2>1, <2>2, <3>2 DEF Chained, ControlType, Control, Pending
    <3>3. QED
      BY <3>1, <3>2
  <2>6. QED
    BY <1>0, <2>1, <2>2, <2>4, <2>5 DEF ChainInv, ChainType, Stored
<1>7. ASSUME NEW p \in Proc, Commit(p) PROVE ChainInv'
  <2> DEFINE c == case_id[p]
  <2>1. /\ pc[p] = "commit" /\ pc' = [pc EXCEPT ![p] = "loop"]
        /\ audit' = [audit EXCEPT ![c] = @ \o txn.events]
        /\ writer' = None /\ txn' = EmptyTxn
        /\ run' = [run EXCEPT ![p] = None]
        /\ cases' = cases /\ case_id' = case_id /\ plan' = plan /\ chain' = chain
        /\ planned' = planned /\ reported' = reported
    BY <1>7 DEF Commit, Goto, history
  <2>2. /\ writer = p /\ c \in cases /\ c \in Case /\ c \notin reported
        /\ planned[c] = plan[p] /\ txn.events = <<Pending(p)>>
        /\ Len(audit[c]) < Len(plan[p]) /\ chain[p] = Append(audit[c], Pending(p))
        /\ plan[p] \in Seq(Probe) /\ run[p] \in Run
    BY <1>0, <2>1 DEF ControlType, Control, Chained
  <2>3. /\ audit[c] \in Seq(AuditEntry) /\ Pending(p) \in AuditEntry
        /\ Pending(p).probe = plan[p][Len(audit[c]) + 1]
    BY <2>1, PendingEntry DEF CurrentProbe
  <2>4. audit'[c] = chain[p]
    <3>1. audit[c] \o <<Pending(p)>> = Append(audit[c], Pending(p))
      BY <2>3
    <3>2. QED
      BY <1>0, <2>1, <2>2, <3>1 DEF ChainType
  <2>5. \A d \in Case : d # c => audit'[d] = audit[d]
    BY <1>0, <2>1 DEF ChainType
  <2>6. EmptyTxn \in Txn
    BY DEF EmptyTxn, Txn
  <2>7. ChainType'
    BY <1>0, <2>1, <2>2, <2>3, <2>6 DEF ChainType
  <2>8. ASSUME NEW q \in Proc PROVE Chained(q)'
    <3>1. CASE q = p
      BY <1>0, <2>1, <2>4, <3>1 DEF Chained, ControlType
    <3>2. CASE q # p
      <4>1. pc'[q] = pc[q] /\ run'[q] = run[q] /\ Chained(q) /\ Control(q)
        BY <1>0, <2>1, <3>2 DEF ControlType
      <4>2. case_id[q] # None => case_id[q] # c /\ case_id[q] \in Case
        BY <1>0, <2>2, <3>2 DEF Exclusive, ControlType
      <4>3. pc[q] \in Collecting => audit'[case_id[q]] = audit[case_id[q]]
        BY <2>5, <4>1, <4>2 DEF Control
      <4>4. pc[q] \notin InTransaction
        BY <2>2, <3>2, <4>1 DEF Control
      <4>5. pc[q] \in HasRun => Pending(q)' = Pending(q)
        BY <2>1, <4>1, <4>3 DEF Pending
      <4>6. QED
        BY <2>1, <4>1, <4>3, <4>4, <4>5 DEF Chained
    <3>3. QED
      BY <3>1, <3>2
  <2>9. ASSUME NEW d \in Case PROVE Stored(d)'
    <3>1. CASE d = c
      <4> DEFINE old == audit[c]
                 new == chain[p]
                 entry == Pending(p)
      <4>1. Stored(c)
        BY <1>0, <2>2
      <4>2. Linked(new)
        <5>1. plan[p][Len(old) + 1] \in Probe
          BY <2>2, <2>3
        <5>2. AuditOutcomeOf(run[p].status) \in AuditOutcome
          BY <2>2, RunOutcome
        <5>3. QED
          BY <2>2, <2>3, <4>1, <5>1, <5>2, AppendKeepsLinked DEF Stored, Pending
      <4> HIDE DEF entry
      <4>3. Len(new) = Len(old) + 1 /\ new[Len(old) + 1] = entry
            /\ (\A i \in 1..Len(old) : new[i] = old[i])
        BY <2>2, <2>3 DEF entry
      <4>4. Len(new) <= Len(planned[c])
        BY <2>2, <2>3, <4>3
      <4>5. \A i \in 1..Len(new) : new[i].probe = planned[c][i]
        BY <2>2, <2>3, <4>1, <4>3 DEF Stored, entry
      <4>6. QED
        BY <2>1, <2>2, <2>4, <3>1, <4>2, <4>4, <4>5 DEF Stored
    <3>2. CASE d # c
      BY <1>0, <2>1, <2>5, <3>2 DEF Stored
    <3>3. QED
      BY <3>1, <3>2
  <2>10. QED
    BY <2>1, <2>7, <2>8, <2>9 DEF ChainInv
<1>8. ASSUME NEW p \in Proc, ReturnReady(p) PROVE ChainInv'
  BY <1>8, LeaveKeepsChain DEF ReturnReady, tables
<1>9. ASSUME NEW p \in Proc, GiveUp(p) PROVE ChainInv'
  BY <1>9, GiveUpStep, LeaveKeepsChain DEF tables, history
<1>10. CASE Prune \/ Refresh \/ UNCHANGED vars
  <2>1. UNCHANGED <<cases, audit, writer, txn, pc, memory, planned, reported>>
    BY <1>10, OutsideStep DEF vars, tables, history
  <2>2. \A q \in Proc : Chained(q)'
    BY <1>0, <2>1 DEF memory, Chained, Pending
  <2>3. QED
    BY <1>0, <2>1, <2>2 DEF memory, ChainInv, ChainType, Stored
<1>11. QED
  BY <1>1, <1>2, <1>3, <1>4, <1>5, <1>6, <1>7, <1>8, <1>9, <1>10 DEF Next, Step, GiveUp

LEMMA ChainHolds == Spec => []ChainInv
<1>1. Init => ChainInv
  <2> SUFFICES ASSUME Init PROVE ChainInv
    OBVIOUS
  <2>1. ChainType
    BY DEF Init, ChainType, EmptyTxn, Txn
  <2>2. \A p \in Proc : Chained(p)
    BY DEF Init, Chained
  <2>3. \A c \in Case : Stored(c)
    BY DEF Init, Stored, Linked
  <2>4. QED
    BY <2>1, <2>2, <2>3 DEF Init, ChainInv
<1>2. QED
  BY <1>1, ChainStep, ControlHolds, PTL DEF Spec

\* What is stored of a case's audit log always passes AuditChain.verify and
\* follows the case's plan, whatever interrupts the collection.
THEOREM StoredAuditIsVerified == Spec => []StoredAuditVerifies
<1>1. ChainInv => StoredAuditVerifies
  BY DEF ChainInv, StoredAuditVerifies, Stored, Verify, Checkpoint
<1>2. QED
  BY <1>1, ChainHolds, PTL

-----------------------------------------------------------------------------
(***************************************************************************)
(* Result rows and inventory facts: what the open transaction holds, and   *)
(* what is committed of a case, always matches the case's audit log.       *)
(***************************************************************************)

InHand(p) ==
  /\ pc[p] = "result" => txn = EmptyTxn
  /\ pc[p] \in {"event", "commit"} =>
       /\ txn.rows = {ResultRow(p)}
       /\ txn.facts = IF run[p].status = "ok" THEN {<<CurrentProbe(p), case_id[p]>>} ELSE {}

Agrees(r, e) == r.status = "observed" <=> e.outcome = "allowed"

\* Every row stored so far, those retention has deleted included.
Ever == evidence \cup pruned

Recorded(c) ==
  /\ \A r \in Ever : r.case = c =>
       \E i \in 1..Len(audit[c]) : audit[c][i].probe = r.probe /\ Agrees(r, audit[c][i])
  /\ \A i \in 1..Len(audit[c]) : \E r \in Ever :
       r.case = c /\ r.probe = audit[c][i].probe
  /\ \A r, s \in Ever : r.case = c /\ s.case = c /\ r.probe = s.probe => r = s
  /\ NoRepeat(planned[c])

RowType ==
  /\ evidence \subseteq Row
  /\ pruned \subseteq Row
  /\ inventory \in [Probe -> Case \cup {Service, None}]

Founded(b) ==
  inventory[b] \in Case =>
    [case |-> inventory[b], probe |-> b, status |-> "observed"] \in Ever

RowInv ==
  /\ RowType
  /\ \A p \in Proc : InHand(p)
  /\ \A c \in Case : Recorded(c)
  /\ \A b \in Probe : Founded(b)

\* The probe a process has a run of has no row in its case yet: plans do not
\* repeat a probe, and rows follow the audit log.
LEMMA NoRowYet ==
  ASSUME ControlInv, ChainInv, RowInv, NEW p \in Proc, pc[p] \in HasRun,
         NEW r \in Ever, r.case = case_id[p]
  PROVE  r.probe # CurrentProbe(p)
<1> DEFINE c == case_id[p]
<1>1. Control(p) /\ Chained(p) /\ ControlType
  BY DEF ControlInv, ChainInv
<1>2. c \in Case /\ audit[c] \in Seq(AuditEntry) /\ Len(chain[p]) = Len(audit[c]) + 1
      /\ Len(chain[p]) \in 1..Len(plan[p])
  BY PendingEntry
<1>3. Stored(c) /\ Recorded(c)
  BY <1>2 DEF ChainInv, RowInv
<1>4. planned[c] = plan[p] /\ NoRepeat(plan[p])
  BY <1>1 DEF Control
<1>5. PICK i \in 1..Len(audit[c]) : audit[c][i].probe = r.probe
  BY <1>3 DEF Recorded
<1>6. r.probe = plan[p][i]
  BY <1>3, <1>4, <1>5 DEF Stored
<1>7. i \in 1..Len(plan[p]) /\ i # Len(chain[p])
  BY <1>2
<1>8. QED
  BY <1>2, <1>4, <1>6, <1>7 DEF NoRepeat, CurrentProbe

LEMMA LeaveKeepsRows ==
  ASSUME ControlInv, RowInv, NEW p \in Proc, Leave(p),
         UNCHANGED <<evidence, inventory, audit, planned, pruned>>
  PROVE  RowInv'
<1> USE NoneAssumption
<1>1. ControlType
  BY DEF ControlInv
<1>2. /\ pc' = [pc EXCEPT ![p] = "idle"]
      /\ case_id' = [case_id EXCEPT ![p] = None]
      /\ plan' = [plan EXCEPT ![p] = <<>>]
      /\ chain' = [chain EXCEPT ![p] = <<>>]
      /\ run' = [run EXCEPT ![p] = None]
      /\ writer # p => txn' = txn
  BY DEF Leave, Goto
<1>3. ASSUME NEW q \in Proc PROVE InHand(q)'
  <2>1. CASE q = p
    BY <1>1, <1>2, <2>1 DEF InHand, ControlType
  <2>2. CASE q # p
    <3>1. InHand(q) /\ Control(q)
      BY DEF ControlInv, RowInv
    <3>2. /\ pc'[q] = pc[q] /\ case_id'[q] = case_id[q] /\ run'[q] = run[q]
          /\ plan'[q] = plan[q] /\ chain'[q] = chain[q]
      BY <1>1, <1>2, <2>2 DEF ControlType
    <3>3. pc[q] \in InTransaction => txn' = txn
      BY <1>2, <2>2, <3>1 DEF Control
    <3>4. QED
      BY <3>1, <3>2, <3>3 DEF InHand, ResultRow, CurrentProbe
  <2>3. QED
    BY <2>1, <2>2
<1>4. QED
  BY <1>3 DEF RowInv, RowType, Recorded, Founded, Ever

\* The heart of the proof: a commit makes a row, a fact and an audit event
\* visible together, and they belong together.
LEMMA CommitKeepsRows ==
  ASSUME ControlInv, ChainInv, RowInv, NEW p \in Proc, Commit(p)
  PROVE  RowInv'
<1> USE NoneAssumption
<1> DEFINE c == case_id[p]
           b == CurrentProbe(p)
           row == ResultRow(p)
           old == audit[c]
           entry == Pending(p)
<1>1. /\ ControlType /\ Control(p) /\ ChainType /\ Chained(p) /\ RowType /\ InHand(p)
      /\ \A q \in Proc : InHand(q) /\ Control(q)
  BY DEF ControlInv, ChainInv, RowInv
<1>2. /\ pc[p] = "commit" /\ pc' = [pc EXCEPT ![p] = "loop"]
      /\ evidence' = evidence \cup txn.rows
      /\ inventory' = [x \in Probe |->
           IF \E d \in Case : <<x, d>> \in txn.facts
           THEN CHOOSE d \in Case : <<x, d>> \in txn.facts
           ELSE inventory[x]]
      /\ audit' = [audit EXCEPT ![c] = @ \o txn.events]
      /\ planned' = planned /\ pruned' = pruned
  BY DEF Commit, Goto, history
<1>3. writer = p /\ run[p] \in Run /\ txn.events = <<entry>> /\ txn.rows = {row}
      /\ txn.facts = IF run[p].status = "ok" THEN {<<b, c>>} ELSE {}
  BY <1>1, <1>2 DEF Control, Chained, InHand
<1>4. /\ c \in Case /\ b \in Probe /\ row \in Row /\ entry \in AuditEntry
      /\ old \in Seq(AuditEntry) /\ entry.probe = b
      /\ entry.outcome = AuditOutcomeOf(run[p].status)
  BY <1>2, PendingEntry
<1>5. row.case = c /\ row.probe = b /\ row.status = RowStatusOf(run[p].status)
  BY DEF ResultRow
<1>6. Agrees(row, entry)
  BY <1>3, <1>4, <1>5, RunOutcome DEF Agrees
<1>7. \A r \in Ever : r.case = c => r.probe # b
  BY <1>2, NoRowYet
<1>8. evidence' = evidence \cup {row} /\ Ever' = Ever \cup {row}
  BY <1>2, <1>3 DEF Ever
<1>9. audit'[c] = Append(old, entry) /\ (\A d \in Case : d # c => audit'[d] = audit[d])
  <2>1. old \o <<entry>> = Append(old, entry)
    BY <1>4
  <2>2. QED
    BY <1>1, <1>2, <1>3, <1>4, <2>1 DEF ChainType
<1> HIDE DEF c, b, row, old, entry
<1>10. RowType'
  <2>1. \A x \in Probe : inventory'[x] \in Case \cup {Service, None}
    BY <1>1, <1>2 DEF RowType
  <2>2. QED
    BY <1>1, <1>2, <1>4, <1>8, <2>1 DEF RowType
<1>11. ASSUME NEW q \in Proc PROVE InHand(q)'
  <2>1. CASE q = p
    BY <1>1, <1>2, <2>1 DEF InHand, ControlType
  <2>2. CASE q # p
    <3>1. pc'[q] = pc[q] /\ pc[q] \notin InTransaction
      BY <1>1, <1>2, <1>3, <2>2 DEF Control, ControlType
    <3>2. QED
      BY <3>1 DEF InHand
  <2>3. QED
    BY <2>1, <2>2
<1>12. ASSUME NEW d \in Case PROVE Recorded(d)'
  <2>1. Recorded(d)
    BY DEF RowInv
  <2>2. CASE d # c
    <3>1. \A r \in Ever' : r.case = d => r \in Ever
      BY <1>5, <1>8, <2>2
    <3>2. audit'[d] = audit[d] /\ planned'[d] = planned[d] /\ Ever \subseteq Ever'
      BY <1>2, <1>8, <1>9, <2>2
    <3>3. QED
      BY <2>1, <3>1, <3>2 DEF Recorded
  <2>3. CASE d = c
    <3> DEFINE new == audit'[d]
    <3>1. /\ Len(new) = Len(old) + 1 /\ new[Len(old) + 1] = entry
          /\ \A i \in 1..Len(old) : new[i] = old[i]
      BY <1>4, <1>9, <2>3
    <3> HIDE DEF new
    <3>2. Len(old) \in Nat
      BY <1>4
    <3>3. /\ \A r \in Ever : r.case = d =>
               \E i \in 1..Len(old) : old[i].probe = r.probe /\ Agrees(r, old[i])
          /\ \A i \in 1..Len(old) : \E r \in Ever : r.case = d /\ r.probe = old[i].probe
      BY <2>1, <2>3 DEF Recorded, old
    <3>4. ASSUME NEW r \in Ever', r.case = d
          PROVE  \E i \in 1..Len(new) : new[i].probe = r.probe /\ Agrees(r, new[i])
      <4>1. CASE r = row
        BY <1>4, <1>5, <1>6, <3>1, <3>2, <4>1
      <4>2. CASE r \in Ever
        <5>1. PICK i \in 1..Len(old) : old[i].probe = r.probe /\ Agrees(r, old[i])
          BY <3>3, <3>4, <4>2
        <5>2. i \in 1..Len(new) /\ new[i] = old[i]
          BY <3>1, <3>2
        <5>3. QED
          BY <5>1, <5>2
      <4>3. QED
        BY <1>8, <4>1, <4>2
    <3>5. ASSUME NEW i \in 1..Len(new)
          PROVE  \E r \in Ever' : r.case = d /\ r.probe = new[i].probe
      <4>1. CASE i = Len(old) + 1
        BY <1>4, <1>5, <1>8, <2>3, <3>1, <4>1
      <4>2. CASE i \in 1..Len(old)
        BY <1>8, <3>1, <3>3, <4>2
      <4>3. QED
        BY <3>1, <3>2, <4>1, <4>2
    <3>6. ASSUME NEW r \in Ever', NEW s \in Ever',
                 r.case = d, s.case = d, r.probe = s.probe
          PROVE  r = s
      BY <1>5, <1>7, <1>8, <2>1, <2>3, <3>6 DEF Recorded
    <3>7. NoRepeat(planned'[d])
      BY <1>2, <2>1 DEF Recorded
    <3>8. QED
      BY <3>4, <3>5, <3>6, <3>7 DEF Recorded, new, Agrees
  <2>4. QED
    BY <2>2, <2>3
<1>13. ASSUME NEW x \in Probe PROVE Founded(x)'
  <2>1. Founded(x)
    BY DEF RowInv
  <2>2. CASE run[p].status = "ok" /\ x = b
    <3>1. inventory'[x] = c
      BY <1>2, <1>3, <1>4, <2>2
    <3>2. row = [case |-> c, probe |-> b, status |-> "observed"]
      BY <1>3, <1>5, <2>2, RunOutcome DEF row, ResultRow, c, b
    <3>3. QED
      BY <1>8, <2>2, <3>1, <3>2 DEF Founded
  <2>3. CASE ~ (run[p].status = "ok" /\ x = b)
    <3>1. \A d \in Case : <<x, d>> \notin txn.facts
      BY <1>3, <2>3
    <3>2. inventory'[x] = inventory[x]
      BY <1>2, <3>1
    <3>3. QED
      BY <1>8, <2>1, <3>2 DEF Founded
  <2>4. QED
    BY <2>2, <2>3
<1>14. QED
  BY <1>10, <1>11, <1>12, <1>13 DEF RowInv

LEMMA RowStep == ControlInv /\ ChainInv /\ RowInv /\ [Next]_vars => RowInv'
<1> SUFFICES ASSUME ControlInv, ChainInv, RowInv, [Next]_vars PROVE RowInv'
  OBVIOUS
<1> USE NoneAssumption
<1>0. /\ ControlType /\ (\A q \in Proc : Control(q))
      /\ ChainType /\ (writer = None => txn = EmptyTxn) /\ (\A q \in Proc : Chained(q))
      /\ RowType /\ (\A q \in Proc : InHand(q)) /\ (\A c \in Case : Recorded(c))
  BY DEF ControlInv, ChainInv, RowInv
<1>1. ASSUME NEW p \in Proc, PlanCase(p) PROVE RowInv'
  <2>1. /\ pc' = [pc EXCEPT ![p] = "planned"]
        /\ evidence' = evidence /\ pruned' = pruned
        /\ inventory' = inventory /\ audit' = audit
        /\ txn' = txn /\ chain' = chain /\ run' = run /\ planned' = planned
    BY <1>1 DEF PlanCase, Goto, tables, history
  <2>2. \A q \in Proc : q # p => case_id'[q] = case_id[q] /\ plan'[q] = plan[q]
    BY <1>0, <1>1 DEF PlanCase, ControlType
  <2>3. ASSUME NEW q \in Proc PROVE InHand(q)'
    BY <1>0, <2>1, <2>2 DEF InHand, ControlType, ResultRow, CurrentProbe
  <2>4. QED
    BY <1>0, <2>1, <2>3 DEF RowInv, RowType, Recorded, Founded, Ever
<1>2. ASSUME NEW p \in Proc, CreateCase(p) PROVE RowInv'
  <2>1. /\ pc[p] = "planned" /\ pc' = [pc EXCEPT ![p] = "loop"]
        /\ planned' = [planned EXCEPT ![case_id[p]] = plan[p]]
        /\ evidence' = evidence /\ pruned' = pruned
        /\ inventory' = inventory /\ audit' = audit
        /\ txn' = txn /\ chain' = chain /\ run' = run /\ case_id' = case_id /\ plan' = plan
    BY <1>2 DEF CreateCase, Goto, memory
  <2>2. NoRepeat(plan[p])
    BY <1>0 DEF Control
  <2>3. ASSUME NEW q \in Proc PROVE InHand(q)'
    BY <1>0, <2>1 DEF InHand, ControlType, ResultRow, CurrentProbe
  <2>4. ASSUME NEW c \in Case PROVE Recorded(c)'
    <3>1. NoRepeat(planned'[c])
      BY <1>0, <2>1, <2>2 DEF ControlType, Recorded
    <3>2. QED
      BY <1>0, <2>1, <3>1 DEF Recorded, Ever
  <2>5. QED
    BY <1>0, <2>1, <2>3, <2>4 DEF RowInv, RowType, Founded, Ever
<1>3. ASSUME NEW p \in Proc, RunProbe(p) PROVE RowInv'
  <2>1. /\ pc' = [pc EXCEPT ![p] = "ran"]
        /\ evidence' = evidence /\ pruned' = pruned
        /\ inventory' = inventory /\ audit' = audit
        /\ txn' = txn /\ case_id' = case_id /\ plan' = plan /\ planned' = planned
    BY <1>3 DEF RunProbe, Goto, tables, history
  <2>2. \A q \in Proc : q # p => run'[q] = run[q] /\ chain'[q] = chain[q]
    BY <1>0, <1>3 DEF RunProbe, ControlType, ChainType
  <2>3. ASSUME NEW q \in Proc PROVE InHand(q)'
    BY <1>0, <2>1, <2>2 DEF InHand, ControlType, ResultRow, CurrentProbe
  <2>4. QED
    BY <1>0, <2>1, <2>3 DEF RowInv, RowType, Recorded, Founded, Ever
<1>4. ASSUME NEW p \in Proc, Begin(p) PROVE RowInv'
  <2>1. /\ pc[p] = "ran" /\ pc' = [pc EXCEPT ![p] = "result"] /\ writer = None
        /\ evidence' = evidence /\ pruned' = pruned
        /\ inventory' = inventory /\ audit' = audit
        /\ txn' = txn /\ case_id' = case_id /\ plan' = plan /\ chain' = chain /\ run' = run
        /\ planned' = planned
    BY <1>4 DEF Begin, Goto, tables, memory, history
  <2>2. ASSUME NEW q \in Proc PROVE InHand(q)'
    BY <1>0, <2>1 DEF InHand, ControlType, ResultRow, CurrentProbe
  <2>3. QED
    BY <1>0, <2>1, <2>2 DEF RowInv, RowType, Recorded, Founded, Ever
<1>5. ASSUME NEW p \in Proc, PersistObservation(p) \/ PersistCoverage(p) PROVE RowInv'
  <2>1. /\ pc[p] = "result" /\ pc' = [pc EXCEPT ![p] = "event"]
        /\ evidence' = evidence /\ pruned' = pruned
        /\ inventory' = inventory /\ audit' = audit
        /\ case_id' = case_id /\ plan' = plan /\ chain' = chain /\ run' = run
        /\ planned' = planned
    BY <1>5 DEF PersistObservation, PersistCoverage, Goto, tables, memory, history
  <2>2. writer = p /\ txn = EmptyTxn
    BY <1>0, <2>1 DEF Control, InHand
  <2>3. InsertRow({}, ResultRow(p)) = {ResultRow(p)}
    <3>1. ~ \E r \in {} \cup evidence : r.case = ResultRow(p).case /\ r.probe = ResultRow(p).probe
      BY <2>1, NoRowYet DEF ResultRow, Ever
    <3>2. QED
      BY <3>1 DEF InsertRow
  <2>4. /\ txn'.rows = {ResultRow(p)}
        /\ txn'.facts = IF run[p].status = "ok" THEN {<<CurrentProbe(p), case_id[p]>>} ELSE {}
    <3>1. CASE PersistObservation(p)
      <4>1. txn' = [rows |-> InsertRow(txn.rows, ResultRow(p)),
                    facts |-> txn.facts \cup {<<CurrentProbe(p), case_id[p]>>},
                    events |-> txn.events]
        BY <2>2, <3>1 DEF PersistObservation, EmptyTxn
      <4>2. run[p].status = "ok"
        BY <3>1 DEF PersistObservation
      <4>3. QED
        BY <2>2, <2>3, <4>1, <4>2 DEF EmptyTxn
    <3>2. CASE PersistCoverage(p)
      BY <2>2, <2>3, <3>2 DEF PersistCoverage, EmptyTxn
    <3>3. QED
      BY <1>5, <3>1, <3>2
  <2>5. ASSUME NEW q \in Proc PROVE InHand(q)'
    <3>1. CASE q = p
      BY <1>0, <2>1, <2>4, <3>1 DEF InHand, ControlType, ResultRow, CurrentProbe
    <3>2. CASE q # p
      BY <1>0, <2>1, <2>2, <3>2 DEF InHand, ControlType, Control
    <3>3. QED
      BY <3>1, <3>2
  <2>6. QED
    BY <1>0, <2>1, <2>5 DEF RowInv, RowType, Recorded, Founded, Ever
<1>6. ASSUME NEW p \in Proc, AppendAudit(p) PROVE RowInv'
  <2>1. /\ pc[p] = "event" /\ pc' = [pc EXCEPT ![p] = "commit"]
        /\ txn' = [txn EXCEPT !.events = Append(@, chain[p][Len(chain[p])])]
        /\ evidence' = evidence /\ pruned' = pruned
        /\ inventory' = inventory /\ audit' = audit
        /\ case_id' = case_id /\ plan' = plan /\ chain' = chain /\ run' = run
        /\ planned' = planned
    BY <1>6 DEF AppendAudit, Goto, tables, memory, history
  <2>2. writer = p
    BY <1>0, <2>1 DEF Control
  <2>3. txn'.rows = txn.rows /\ txn'.facts = txn.facts
    BY <1>0, <2>1 DEF ChainType, Txn
  <2>4. ASSUME NEW q \in Proc PROVE InHand(q)'
    <3>1. CASE q = p
      BY <1>0, <2>1, <2>3, <3>1 DEF InHand, ControlType, ResultRow, CurrentProbe
    <3>2. CASE q # p
      BY <1>0, <2>1, <2>2, <3>2 DEF InHand, ControlType, Control
    <3>3. QED
      BY <3>1, <3>2
  <2>5. QED
    BY <1>0, <2>1, <2>4 DEF RowInv, RowType, Recorded, Founded, Ever
<1>7. ASSUME NEW p \in Proc, Commit(p) PROVE RowInv'
  BY <1>7, CommitKeepsRows
<1>8. ASSUME NEW p \in Proc, ReturnReady(p) PROVE RowInv'
  BY <1>8, LeaveKeepsRows DEF ReturnReady, tables
<1>9. ASSUME NEW p \in Proc, GiveUp(p) PROVE RowInv'
  BY <1>9, GiveUpStep, LeaveKeepsRows DEF tables, history
<1>10. CASE Prune
  <2>1. /\ UNCHANGED <<cases, audit, writer, txn, pc, memory, planned, reported, inventory>>
        /\ evidence' \subseteq evidence /\ pruned' \subseteq evidence \cup pruned
        /\ evidence' \cup pruned' = evidence \cup pruned
    BY <1>10, OutsideStep DEF Prune
  <2>2. Ever' = Ever
    BY <2>1 DEF Ever
  <2>3. \A q \in Proc : InHand(q)'
    BY <1>0, <2>1 DEF memory, InHand, ResultRow, CurrentProbe
  <2>4. \A c \in Case : Recorded(c)'
    BY <1>0, <2>1, <2>2 DEF Recorded
  <2>5. RowType'
    BY <1>0, <2>1 DEF RowType
  <2>6. \A b \in Probe : Founded(b)'
    BY <2>1, <2>2 DEF RowInv, Founded
  <2>7. QED
    BY <2>3, <2>4, <2>5, <2>6 DEF RowInv
<1>11. CASE Refresh
  <2>1. UNCHANGED <<cases, audit, writer, txn, pc, memory, planned, reported, evidence, pruned>>
    BY <1>11, OutsideStep DEF Refresh, history
  <2>2. PICK b \in Probe : inventory' = [inventory EXCEPT ![b] = Service]
    BY <1>11 DEF Refresh
  <2>3. \A q \in Proc : InHand(q)'
    BY <1>0, <2>1 DEF memory, InHand, ResultRow, CurrentProbe
  <2>4. \A c \in Case : Recorded(c)'
    BY <1>0, <2>1 DEF Recorded, Ever
  <2>5. RowType'
    BY <1>0, <2>1, <2>2 DEF RowType
  <2>6. ASSUME NEW x \in Probe PROVE Founded(x)'
    <3>1. inventory'[x] = IF x = b THEN Service ELSE inventory[x]
      BY <1>0, <2>2 DEF RowType
    <3>2. QED
      BY <2>1, <3>1, ServiceAssumption DEF RowInv, Founded, Ever
  <2>7. QED
    BY <2>3, <2>4, <2>5, <2>6 DEF RowInv
<1>12. CASE UNCHANGED vars
  <2>1. \A q \in Proc : InHand(q)'
    BY <1>0, <1>12 DEF vars, tables, memory, history, InHand, ResultRow, CurrentProbe
  <2>2. QED
    BY <1>0, <1>12, <2>1 DEF vars, tables, memory, history, RowInv, RowType, Recorded, Founded, Ever
<1>13. QED
  BY <1>1, <1>2, <1>3, <1>4, <1>5, <1>6, <1>7, <1>8, <1>9, <1>10, <1>11, <1>12 DEF Next, Step, GiveUp

LEMMA RowsHold == Spec => []RowInv
<1>1. Init => RowInv
  BY NoneAssumption DEF Init, RowInv, RowType, InHand, Recorded, Founded, NoRepeat, Ever
<1>2. QED
  BY <1>1, RowStep, ControlHolds, ChainHolds, PTL DEF Spec

-----------------------------------------------------------------------------
(***************************************************************************)
(* The properties of CaseRuntime.                                          *)
(***************************************************************************)

\* Tables, transaction and process memory always have their types.
THEOREM TypeCorrect == Spec => []TypeOK
<1>1. ControlInv /\ ChainInv /\ RowInv => TypeOK
  BY DEF ControlInv, ControlType, ChainInv, ChainType, RowInv, RowType, TypeOK
<1>2. QED
  BY <1>1, ControlHolds, ChainHolds, RowsHold, PTL

\* A probe has, or had until retention deleted it, a result row in a case
\* exactly when the case's audit log has its event, whatever crashes and
\* exceptions interrupt the collection.
THEOREM ResultsAreAudited == Spec => []ResultIffAudited
<1>1. ChainInv /\ RowInv => ResultIffAudited
  BY DEF RowInv, Recorded, ResultIffAudited, AuditedProbes, RowsOf, Ever
<1>2. QED
  BY <1>1, ChainHolds, RowsHold, PTL

\* An observation was audited as allowed, a coverage row as what caused it.
THEOREM RowsAgreeWithAudit == Spec => []RowAgreesWithAudit
<1>1. ChainInv /\ RowInv => RowAgreesWithAudit
  <2> SUFFICES ASSUME ChainInv, RowInv, NEW r \in evidence,
                      NEW i \in 1..Len(audit[r.case]), audit[r.case][i].probe = r.probe
               PROVE  r.status = "observed" <=> audit[r.case][i].outcome = "allowed"
    BY DEF RowAgreesWithAudit
  <2> DEFINE c == r.case
  <2>1. c \in Case
    BY DEF RowInv, RowType, Row
  <2>2. Stored(c) /\ Recorded(c) /\ audit[c] \in Seq(AuditEntry)
    BY <2>1 DEF ChainInv, ChainType, RowInv
  <2>3. PICK j \in 1..Len(audit[c]) : audit[c][j].probe = r.probe /\ Agrees(r, audit[c][j])
    BY <2>2 DEF Recorded, Ever
  <2>4. planned[c][i] = planned[c][j]
    BY <2>2, <2>3 DEF Stored
  <2>5. i \in 1..Len(planned[c]) /\ j \in 1..Len(planned[c])
    BY <2>2 DEF Stored
  <2>6. i = j
    BY <2>2, <2>4, <2>5 DEF Recorded, NoRepeat
  <2>7. QED
    BY <2>3, <2>6 DEF Agrees
<1>2. QED
  BY <1>1, ChainHolds, RowsHold, PTL

\* A case open_case returned as READY has one audit event and has, or had
\* until retention deleted it, one result row for every planned probe.
THEOREM ReadyCasesAreComplete == Spec => []ReadyIsComplete
<1>1. ControlInv /\ ChainInv /\ RowInv => ReadyIsComplete
  <2> SUFFICES ASSUME ControlInv, ChainInv, RowInv, NEW c \in reported
               PROVE  /\ Len(audit[c]) = Len(planned[c])
                      /\ \A i \in 1..Len(planned[c]) :
                           Cardinality({r \in RowsOf(c) : r.probe = planned[c][i]}) = 1
    BY DEF ReadyIsComplete
  <2>1. c \in Case
    BY DEF ControlInv, ControlType
  <2>2. Stored(c) /\ Recorded(c)
    BY <2>1 DEF ChainInv, RowInv
  <2>3. Len(audit[c]) = Len(planned[c])
    BY <2>2 DEF Stored
  <2>4. ASSUME NEW i \in 1..Len(planned[c])
        PROVE  Cardinality({r \in RowsOf(c) : r.probe = planned[c][i]}) = 1
    <3>1. i \in 1..Len(audit[c]) /\ audit[c][i].probe = planned[c][i]
      BY <2>2, <2>3 DEF Stored
    <3>2. PICK r \in Ever : r.case = c /\ r.probe = planned[c][i]
      BY <2>2, <3>1 DEF Recorded
    <3>3. {s \in RowsOf(c) : s.probe = planned[c][i]} = {r}
      BY <2>2, <3>2 DEF Recorded, RowsOf, Ever
    <3>4. QED
      BY <3>3, FS_Singleton
  <2>5. QED
    BY <2>3, <2>4
<1>2. QED
  BY <1>1, ControlHolds, ChainHolds, RowsHold, PTL

\* A current inventory fact that a case stored has the observation it was
\* made from, until retention deletes it.
THEOREM InventoryIsFounded == Spec => []InventoryHasEvidence
<1>1. RowInv => InventoryHasEvidence
  BY DEF RowInv, Founded, InventoryHasEvidence, Ever
<1>2. QED
  BY <1>1, RowsHold, PTL

-----------------------------------------------------------------------------
(***************************************************************************)
(* Refinement: what the database shows moves as CaseLedger says.           *)
(***************************************************************************)

EventsOf ==
  [c \in Case |-> [i \in 1..Len(audit[c]) |-> <<audit[c][i].probe, audit[c][i].outcome>>]]

\* A step that leaves cases, rows and audit log alone is invisible.
LEMMA Invisible ==
  ASSUME UNCHANGED <<cases, evidence, audit>>
  PROVE  UNCHANGED Ledger!ledger
<1>1. EventsOf' = EventsOf
  BY DEF EventsOf
<1>2. QED
  BY <1>1 DEF Ledger!ledger, EventsOf

\* Creating the row of a case makes it known.
LEMMA CreateOpens ==
  ASSUME ControlInv, NEW p \in Proc, CreateCase(p)
  PROVE  Ledger!LedgerNext
<1>1. PICK c \in Case : c = case_id[p] /\ c \notin cases
  BY DEF CreateCase, ControlInv, ControlType, Control
<1>2. cases' = cases \cup {c} /\ evidence' = evidence /\ audit' = audit
  BY <1>1 DEF CreateCase
<1>3. EventsOf' = EventsOf
  BY <1>2 DEF EventsOf
<1>4. Ledger!Open(c)
  BY <1>1, <1>2, <1>3 DEF Ledger!Open, EventsOf
<1>5. QED
  BY <1>4 DEF Ledger!LedgerNext

\* Retention only takes observations.
LEMMA PruneRetires ==
  ASSUME Prune
  PROVE  Ledger!LedgerNext
<1>1. /\ cases' = cases /\ audit' = audit /\ evidence' \subseteq evidence
      /\ \A r \in evidence \ evidence' : r.status = "observed"
  BY DEF Prune
<1>2. EventsOf' = EventsOf
  BY <1>1 DEF EventsOf
<1>3. Ledger!Retire
  BY <1>1, <1>2 DEF Ledger!Retire, EventsOf
<1>4. QED
  BY <1>3 DEF Ledger!LedgerNext

\* A commit records a probe the case has no event of, result and event
\* together and agreeing.
LEMMA CommitRecords ==
  ASSUME ControlInv, ChainInv, RowInv, NEW p \in Proc, Commit(p)
  PROVE  Ledger!LedgerNext
<1> DEFINE c == case_id[p]
           b == CurrentProbe(p)
           r == RowStatusOf(run[p].status)
           o == AuditOutcomeOf(run[p].status)
           old == audit[c]
           entry == Pending(p)
<1>1. /\ pc[p] = "commit"
      /\ evidence' = evidence \cup txn.rows
      /\ audit' = [audit EXCEPT ![c] = @ \o txn.events]
      /\ cases' = cases
  BY DEF Commit, Goto
<1>2. /\ ControlType /\ Control(p) /\ ChainType /\ Chained(p) /\ InHand(p)
      /\ c \in cases /\ planned[c] = plan[p] /\ NoRepeat(plan[p]) /\ run[p] \in Run
  BY <1>1 DEF ControlInv, Control, ChainInv, RowInv
<1>3. txn.events = <<entry>> /\ txn.rows = {ResultRow(p)}
  BY <1>1, <1>2 DEF Chained, InHand
<1>4. /\ c \in Case /\ b \in Probe /\ entry \in AuditEntry /\ old \in Seq(AuditEntry)
      /\ entry.probe = b /\ entry.outcome = o /\ Len(chain[p]) = Len(old) + 1
      /\ Len(chain[p]) \in 1..Len(plan[p])
  BY <1>1, PendingEntry
<1>5. r \in RowStatus /\ o \in AuditOutcome /\ (r = "observed" <=> o = "allowed")
  BY <1>2, RunOutcome
<1>6. ResultRow(p) = [case |-> c, probe |-> b, status |-> r]
  BY DEF ResultRow
<1>7. ASSUME NEW i \in 1..Len(old) PROVE old[i].probe # b
  <2>1. old[i].probe = plan[p][i]
    BY <1>2, <1>4 DEF ChainInv, Stored
  <2>2. i \in 1..Len(plan[p]) /\ i # Len(chain[p])
    BY <1>4
  <2>3. QED
    BY <1>2, <1>4, <2>1, <2>2 DEF NoRepeat, CurrentProbe
<1> HIDE DEF c, b, r, o, old, entry
<1>8. evidence' = evidence \cup {[case |-> c, probe |-> b, status |-> r]}
  BY <1>1, <1>3, <1>6
<1>9. Len(old) \in Nat /\ EventsOf[c] = [i \in 1..Len(old) |-> <<old[i].probe, old[i].outcome>>]
  BY <1>4 DEF EventsOf, old
<1>10. EventsOf[c] \in Seq(Probe \X AuditOutcome) /\ Len(EventsOf[c]) = Len(old)
  <2>1. ASSUME NEW i \in 1..Len(old)
        PROVE  <<old[i].probe, old[i].outcome>> \in Probe \X AuditOutcome
    <3>1. old[i] \in AuditEntry
      BY <1>4
    <3>2. QED
      BY <3>1 DEF AuditEntry
  <2>2. QED
    BY <1>9, <2>1
<1>11. \A i \in 1..Len(EventsOf[c]) : EventsOf[c][i][1] # b
  BY <1>7, <1>9, <1>10
<1>12. EventsOf' = [EventsOf EXCEPT ![c] = Append(@, <<b, o>>)]
  <2>1. audit'[c] = Append(old, entry) /\ (\A d \in Case : d # c => audit'[d] = audit[d])
    <3>1. old \o <<entry>> = Append(old, entry)
      BY <1>4
    <3>2. QED
      BY <1>1, <1>2, <1>3, <1>4, <3>1 DEF ChainType, c, old
  <2>2. /\ Len(audit'[c]) = Len(old) + 1 /\ audit'[c][Len(old) + 1] = entry
        /\ \A i \in 1..Len(old) : audit'[c][i] = old[i]
    BY <1>4, <2>1
  <2>3. EventsOf'[c] = Append(EventsOf[c], <<b, o>>)
    <3> DEFINE after == [i \in 1..(Len(old) + 1) |->
                           IF i = Len(old) + 1 THEN <<b, o>> ELSE <<old[i].probe, old[i].outcome>>]
    <3>1. EventsOf'[c] = [i \in 1..Len(audit'[c]) |->
                            <<audit'[c][i].probe, audit'[c][i].outcome>>]
      BY <1>4 DEF EventsOf
    <3>2. EventsOf'[c] = after
      BY <1>4, <1>9, <2>2, <3>1
    <3>3. Append(EventsOf[c], <<b, o>>) = after
      BY <1>9, <1>10
    <3>4. QED
      BY <3>2, <3>3
  <2>4. QED
    BY <1>4, <2>1, <2>3 DEF EventsOf
<1>13. c \in Case /\ b \in Probe /\ r \in RowStatus /\ o \in AuditOutcome
  BY <1>4, <1>5
<1>14. PICK cc \in Case, bb \in Probe, rr \in RowStatus, oo \in AuditOutcome :
         cc = c /\ bb = b /\ rr = r /\ oo = o
  BY <1>13
<1>15. Ledger!Record(cc, bb, rr, oo)
  BY <1>1, <1>2, <1>5, <1>8, <1>11, <1>12, <1>14
  DEF Ledger!Record, Ledger!Recorded, EventsOf, c
<1>16. QED
  BY <1>15 DEF Ledger!LedgerNext

LEMMA LedgerStep ==
  ControlInv /\ ChainInv /\ RowInv /\ [Next]_vars => [Ledger!LedgerNext]_(Ledger!ledger)
<1> SUFFICES ASSUME ControlInv, ChainInv, RowInv, [Next]_vars
             PROVE  Ledger!LedgerNext \/ UNCHANGED Ledger!ledger
  OBVIOUS
<1>1. ASSUME NEW p \in Proc, CreateCase(p) PROVE Ledger!LedgerNext
  BY <1>1, CreateOpens
<1>2. ASSUME NEW p \in Proc, Commit(p) PROVE Ledger!LedgerNext
  BY <1>2, CommitRecords
<1>3. ASSUME NEW p \in Proc,
             PlanCase(p) \/ RunProbe(p) \/ Begin(p) \/ PersistObservation(p)
               \/ PersistCoverage(p) \/ AppendAudit(p) \/ ReturnReady(p)
      PROVE  UNCHANGED Ledger!ledger
  <2>1. cases' = cases /\ evidence' = evidence /\ audit' = audit
    BY <1>3 DEF PlanCase, RunProbe, Begin, PersistObservation, PersistCoverage, AppendAudit,
                ReturnReady, tables
  <2>2. QED
    BY <2>1, Invisible
<1>4. ASSUME NEW p \in Proc, GiveUp(p) PROVE UNCHANGED Ledger!ledger
  BY <1>4, GiveUpStep, Invisible DEF tables
<1>5. CASE Prune
  BY <1>5, PruneRetires
<1>6. CASE Refresh \/ UNCHANGED vars
  BY <1>6, Invisible DEF Refresh, vars, tables
<1>7. QED
  BY <1>1, <1>2, <1>3, <1>4, <1>5, <1>6 DEF Next, Step, GiveUp

\* However the processes interleave, fail and crash, every change of the
\* tables is one of the changes CaseLedger allows.
THEOREM RuntimeFollowsLedger == Spec => ImplementsLedger
<1>1. Init => Ledger!LedgerInit
  <2> SUFFICES ASSUME Init PROVE Ledger!LedgerInit
    OBVIOUS
  <2>1. EventsOf = [c \in Case |-> <<>>]
    BY DEF Init, EventsOf
  <2>2. QED
    BY <2>1 DEF Init, Ledger!LedgerInit, EventsOf
<1>2. QED
  BY <1>1, LedgerStep, ControlHolds, ChainHolds, RowsHold, PTL
  DEF Spec, ImplementsLedger, Ledger!LedgerSpec

=============================================================================
