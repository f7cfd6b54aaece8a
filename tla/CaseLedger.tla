----------------------------- MODULE CaseLedger -----------------------------
(***************************************************************************)
(* What the stored tables promise to whoever reads the database while      *)
(* cases are collected: a case becomes known; a probe of it is recorded    *)
(* once, its result and its audit event in one indivisible step that makes *)
(* the two agree; nothing recorded is rewritten; and of what is recorded   *)
(* only observations are ever taken away again, in batches.  Processes,    *)
(* transactions, plans and crashes are not visible here, nor is whether a  *)
(* case is still being collected: the tables do not say.                   *)
(***************************************************************************)
EXTENDS Naturals, Sequences

CONSTANTS
  Case,      \* case identifiers
  Probe,     \* the probes whose results are recorded
  Observed,  \* the result that is an observation rather than a coverage gap
  Allowed,   \* the audit outcome that goes with an observation
  Result,    \* every result, Observed included
  Outcome    \* every audit outcome, Allowed included

VARIABLES
  known,     \* the stored cases
  results,   \* result rows: a case, a probe and its status
  events     \* per case: the audit log, pairs of a probe and an outcome

ledger == <<known, results, events>>

LedgerInit ==
  /\ known = {}
  /\ results = {}
  /\ events = [c \in Case |-> <<>>]

Open(c) ==
  /\ c \notin known
  /\ known' = known \cup {c}
  /\ UNCHANGED <<results, events>>

Recorded(c, b) == \E i \in 1..Len(events[c]) : events[c][i][1] = b

Record(c, b, r, o) ==
  /\ c \in known
  /\ ~Recorded(c, b)
  /\ r = Observed <=> o = Allowed
  /\ results' = results \cup {[case |-> c, probe |-> b, status |-> r]}
  /\ events' = [events EXCEPT ![c] = Append(@, <<b, o>>)]
  /\ UNCHANGED known

Retire ==
  /\ results' \subseteq results
  /\ \A x \in results \ results' : x.status = Observed
  /\ UNCHANGED <<known, events>>

LedgerNext ==
  \/ Retire
  \/ \E c \in Case : Open(c)
  \/ \E c \in Case, b \in Probe, r \in Result, o \in Outcome : Record(c, b, r, o)

LedgerSpec == LedgerInit /\ [][LedgerNext]_ledger

=============================================================================
