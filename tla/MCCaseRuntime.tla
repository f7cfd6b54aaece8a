--------------------------- MODULE MCCaseRuntime ----------------------------
(***************************************************************************)
(* Instances of CaseRuntime for TLC, and the fault-free behaviours in      *)
(* which only what the probes themselves report can go wrong.              *)
(***************************************************************************)
EXTENDS CaseRuntime

\* One run for each branch of persistence and each status that is renamed on
\* its way into a row or an event.
MCFewRuns ==
  {[status |-> "ok", error |-> "none"],
   [status |-> "failed", error |-> "over_reason"],
   [status |-> "timed_out", error |-> "fits_reason"],
   [status |-> "truncated", error |-> "fits_reason"]}

\* Behaviours in which no process dies, no statement fails, the lock is
\* never held too long and every run produces a ProbeRun: what is left to go
\* wrong is what the collected sources report.
NextNoFaults ==
  \E p \in Proc :
    \/ PlanCase(p) \/ CreateCase(p) \/ RunProbe(p) \/ Begin(p)
    \/ PersistObservation(p) \/ PersistCoverage(p) \/ AppendAudit(p)
    \/ Commit(p) \/ ReturnReady(p) \/ ReasonRejected(p)

SpecNoFaults == Init /\ [][NextNoFaults]_vars /\ Fairness

\* "A denied, stale, timed-out, truncated, failed, or unsupported source is a
\* result, not a missing row" (docs/architecture/overview.md, Failure
\* semantics): without other faults, a case nobody is collecting any more
\* has a row for every planned probe.
FailedSourceIsAResult ==
  \A c \in cases : (\A p \in Proc : case_id[p] # c) =>
    \A i \in 1..Len(planned[c]) : \E r \in RowsOf(c) : r.probe = planned[c][i]

=============================================================================
