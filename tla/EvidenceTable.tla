--------------------------- MODULE EvidenceTable ---------------------------
(***************************************************************************)
(* The table evidence as its readers see it: rows that collectors in other *)
(* processes insert, that retention deletes in batches, and the two page   *)
(* queries.                                                                *)
(*                                                                         *)
(* A row is its evidence_id, a number, since only their order matters.     *)
(* What a collector puts into a row is fixed before it is inserted; how    *)
(* rows come into being is the business of CaseRuntime and Sentinel.       *)
(* Every record counts one towards the size of the raw evidence.           *)
(***************************************************************************)
EXTENDS Naturals, FiniteSets

CONSTANTS
  Case,
  Evidence,     \* identifiers of evidence records, the raw rows
  Coverage,     \* identifiers of coverage records
  CaseOf,       \* the case of each row
  BatchSize,    \* RetentionPolicy.batch_size
  MaxEvidence,  \* RetentionPolicy.max_evidence_bytes, in records
  MaxTime,      \* bound of the clock
  None

Row == Evidence \cup Coverage

ASSUME EvidenceTableAssumption ==
  /\ Evidence \subseteq Nat
  /\ Coverage \subseteq Nat
  /\ Evidence \cap Coverage = {}
  /\ IsFiniteSet(Row)
  /\ CaseOf \in [Row -> Case]
  /\ BatchSize \in Nat \ {0}
  /\ MaxEvidence \in Nat
  /\ MaxTime \in Nat
  /\ None \notin Nat

VARIABLES
  now,          \* the clock
  rows,         \* what the table holds
  gone,         \* what retention deleted
  captured_at,  \* of each row that was inserted
  slots         \* what prune() may still delete, None outside it

tableVars == <<now, rows, gone, captured_at, slots>>

TableTypeOK ==
  /\ now \in 0..MaxTime
  /\ rows \subseteq Row
  /\ gone \subseteq Evidence
  /\ rows \cap gone = {}
  /\ captured_at \in [Row -> 0..MaxTime]
  /\ slots \in 0..BatchSize \cup {None}

TableInit ==
  /\ now = 0
  /\ rows = {}
  /\ gone = {}
  /\ captured_at = [i \in Row |-> 0]
  /\ slots = None

-----------------------------------------------------------------------------
\* ORDER BY captured_at DESC, evidence_id
Newer(i, j) ==
  \/ captured_at[i] > captured_at[j]
  \/ captured_at[i] = captured_at[j] /\ i < j

\* ORDER BY captured_at, evidence_id
Older(i, j) ==
  \/ captured_at[i] < captured_at[j]
  \/ captured_at[i] = captured_at[j] /\ i < j

Before(S, i) == {j \in S : Older(j, i)}

\* Mutant: ORDER BY captured_at DESC, the order of the pages.
FirstRowsNewest(S, limit) == {i \in S : Cardinality({j \in S : Newer(j, i)}) < limit}

\* ... ORDER BY captured_at, evidence_id LIMIT limit
FirstRows(S, limit) == {i \in S : Cardinality(Before(S, i)) < limit}

EvidenceRows == rows \cap Evidence

-----------------------------------------------------------------------------
\* A collector commits row i, with the time it captured what is in it: the
\* sentinel a moment ago, open_case when the case was created.
Collect(i) ==
  /\ i \notin rows \cup gone
  /\ rows' = rows \cup {i}
  /\ \E t \in 0..now : captured_at' = [captured_at EXCEPT ![i] = t]
  /\ UNCHANGED <<now, gone, slots>>

Tick ==
  /\ now < MaxTime
  /\ now' = now + 1
  /\ UNCHANGED <<rows, gone, captured_at, slots>>

Delete(deleted) ==
  /\ rows' = rows \ deleted
  /\ gone' = gone \cup deleted
  /\ UNCHANGED <<now, captured_at>>

\* prune() begins: raw rows captured before the cutoff, oldest first, one
\* batch of them.  Coverage rows are never deleted.
DeleteExpired ==
  /\ slots = None
  /\ \E cutoff \in 0..now :
       LET expired == {i \in EvidenceRows : captured_at[i] < cutoff}
       IN /\ Delete(FirstRows(expired, BatchSize))
          /\ slots' = BatchSize - Cardinality(FirstRows(expired, BatchSize))

\* prune() is done with the evidence, or dies.
EndPrune ==
  /\ slots # None
  /\ slots' = None
  /\ UNCHANGED <<now, rows, gone, captured_at>>

\* The raw evidence is still above its limit: the oldest rows go, as many as
\* are left of the batch, which may be more than the excess.  One prune runs
\* at a time, so what it measured above the limit is so when it deletes.
DeleteOldest ==
  /\ slots # None
  /\ Cardinality(EvidenceRows) > MaxEvidence
  /\ slots > 0
  /\ Delete(FirstRows(EvidenceRows, slots))
  /\ slots' = None

TableNext ==
  \/ \E i \in Row : Collect(i)
  \/ Tick
  \/ DeleteExpired \/ DeleteOldest \/ EndPrune

=============================================================================
