------------------------------- MODULE Brief -------------------------------
(***************************************************************************)
(* get_case_brief: two reads of the table, ranking with category           *)
(* diversity, greedy packing under a character budget, and the delta       *)
(* against the brief the server process gave of the case before.           *)
(*                                                                         *)
(* Of the text only its length counts, as the sum of the lengths of its    *)
(* lines; the digits of the three counts in its last line are one length.  *)
(***************************************************************************)
EXTENDS EvidenceTable, FiniteSetsExt

CONSTANTS
  Pending,        \* planned probes of each case that was opened without a runtime
  Category,       \* of each row: numbers, since coverage is sorted by it
  Score,          \* the weighted score of each evidence record
  Line,           \* length of the line about a row or pending probe
  Header,         \* length of what is always there
  AddedLine,      \* length of "- added [evidence_id]"
  NoneLine,       \* length of "- none"
  OmittedLine,    \* length of "- evidence details omitted by brief budget"
  EvidenceLimit,  \* evidence rows that are read: 256
  CoverageLimit,  \* coverage rows that are read: 128
  MaxChars,       \* budgets a client asks for
  MaxRevision     \* bound on briefs of one server process

Probe == UNION {Pending[c] : c \in Case}

\* A line about a row cites its evidence_id, of 35 characters, and so is no
\* shorter than the line in place of it; one about a probe may be.
ASSUME BriefAssumption ==
  /\ Pending \in [Case -> SUBSET (Nat \ Row)] /\ \A c \in Case : IsFiniteSet(Pending[c])
  /\ Category \in [Row -> Nat]
  /\ Score \in [Evidence -> Nat]
  /\ Line \in [Row \cup Probe -> Nat]
  /\ {Header, AddedLine, NoneLine, OmittedLine} \subseteq Nat
  /\ \A i \in Row : OmittedLine <= Line[i]
  /\ NoneLine <= AddedLine
  /\ {EvidenceLimit, CoverageLimit, MaxRevision} \subseteq Nat \ {0}
  /\ MaxChars \subseteq Nat

VARIABLES
  reading,  \* the call in progress, or None
  briefs,   \* MCPWorkspace._briefs
  pending,  \* MCPWorkspace._pending_probes
  told      \* history: the deltas of a case since the server process began

briefVars == <<reading, briefs, pending, told>>

\* A CaseBrief without its text.  Omitted and known, the citations of the
\* brief before, are not in it but determine its counts and its delta.
CaseBrief ==
  [revision : Nat, included : SUBSET Row, delta : SUBSET Row,
   omitted : SUBSET (Row \cup Probe), probes : SUBSET Probe,
   known : SUBSET Row, max_chars : MaxChars]

BriefTypeOK ==
  /\ reading \in {None} \cup
       [case_id : Case, max_chars : MaxChars, evidence : SUBSET Evidence,
        coverage : {None} \cup SUBSET Coverage]
  /\ briefs \in [Case -> {None} \cup CaseBrief]
  /\ pending \in [Case -> SUBSET Probe]
  /\ told \in [Case -> SUBSET Row]

BriefInit ==
  /\ reading = None
  /\ briefs = [c \in Case |-> None]
  /\ pending = Pending
  /\ told = [c \in Case |-> {}]

-----------------------------------------------------------------------------
(***************************************************************************)
(* Ranking                                                                 *)
(***************************************************************************)
Better(i, j) == Score[i] > Score[j] \/ (Score[i] = Score[j] /\ i < j)

\* How many records of its category come before it.
Round(E, i) == Cardinality({k \in E : Category[k] = Category[i] /\ Better(k, i)})

\* Mutant: by score alone.
RankedBeforeByScore(E, i, j) == Better(i, j)

\* The best of each category, then the second of each, and so on.
RankedBefore(E, i, j) ==
  \/ Round(E, i) < Round(E, j)
  \/ Round(E, i) = Round(E, j) /\ Better(i, j)

-----------------------------------------------------------------------------
(***************************************************************************)
(* Packing                                                                 *)
(***************************************************************************)
\* Evidence as ranked, then coverage by category, then probes by name.
PackedBefore(E, i, j) ==
  CASE i \in Evidence /\ j \in Evidence -> RankedBefore(E, i, j)
    [] i \in Coverage /\ j \in Coverage ->
         Category[i] < Category[j] \/ (Category[i] = Category[j] /\ i < j)
    [] i \in Probe /\ j \in Probe -> i < j
    [] OTHER -> i \in Evidence \/ (i \in Coverage /\ j \in Probe)

Section(candidates, selected) ==
  IF selected # {} THEN MapThenSumSet(LAMBDA i : Line[i], selected)
  ELSE IF candidates # {} THEN OmittedLine ELSE NoneLine

Delta(selected, known) == (selected \cap Row) \ known

TextLength(candidates, selected, known) ==
  LET delta == Delta(selected, known)
  IN Header
     + Section(candidates \cap Evidence, selected \cap Evidence)
     + Section(candidates \cap Coverage, selected \cap Coverage)
     + Section(candidates \cap Probe, selected \cap Probe)
     + (IF delta = {} THEN NoneLine ELSE AddedLine * Cardinality(delta))

\* The k-th candidate, from 1.
Candidate(candidates, k) ==
  CHOOSE i \in candidates :
    Cardinality({j \in candidates : PackedBefore(candidates \cap Evidence, j, i)}) = k - 1

\* Mutant: packing stops at the first candidate that does not fit.
PackedToFirstMisfit(candidates, known, max_chars) ==
  LET pack[k \in 0..Cardinality(candidates)] ==
        IF k = 0 THEN {}
        ELSE LET more == pack[k - 1] \cup {Candidate(candidates, k)}
             IN IF /\ Cardinality(pack[k - 1]) = k - 1
                   /\ TextLength(candidates, more, known) <= max_chars
                THEN more ELSE pack[k - 1]
  IN pack[Cardinality(candidates)]

\* Every candidate in turn stays if the whole text then fits.
Packed(candidates, known, max_chars) ==
  LET pack[k \in 0..Cardinality(candidates)] ==
        IF k = 0 THEN {}
        ELSE LET more == pack[k - 1] \cup {Candidate(candidates, k)}
             IN IF TextLength(candidates, more, known) <= max_chars
                THEN more ELSE pack[k - 1]
  IN pack[Cardinality(candidates)]

-----------------------------------------------------------------------------
\* ... ORDER BY captured_at DESC, evidence_id LIMIT limit
NewestRows(S, limit) == {i \in S : Cardinality({j \in S : Newer(j, i)}) < limit}

RowsOf(c, S) == {i \in rows \cap S : CaseOf[i] = c}

ReadEvidence ==
  /\ reading = None
  /\ \E c \in Case, n \in MaxChars :
       /\ briefs[c] # None => briefs[c].revision < MaxRevision
       /\ reading' = [case_id |-> c, max_chars |-> n, coverage |-> None,
                      evidence |-> NewestRows(RowsOf(c, Evidence), EvidenceLimit)]
  /\ UNCHANGED <<briefs, pending, told>>

\* A second statement: rows may have come and gone in between.
ReadCoverage ==
  /\ reading # None
  /\ reading.coverage = None
  /\ reading' = [reading EXCEPT !.coverage =
                   NewestRows(RowsOf(reading.case_id, Coverage), CoverageLimit)]
  /\ UNCHANGED <<briefs, pending, told>>

\* Mutant: everything the brief before looked at is taken for known.
KnownCandidates(c) ==
  IF briefs[c] = None THEN {} ELSE briefs[c].included \cup (briefs[c].omitted \cap Row)

Known(c) == IF briefs[c] = None THEN {} ELSE briefs[c].included

Candidates(call) == call.evidence \cup call.coverage \cup pending[call.case_id]

\* The brief replaces the one before it.
Generate ==
  /\ reading # None
  /\ reading.coverage # None
  /\ LET c == reading.case_id
         known == Known(c)
         candidates == Candidates(reading)
         selected == Packed(candidates, known, reading.max_chars)
         delta == Delta(selected, known)
     IN /\ TextLength(candidates, selected, known) <= reading.max_chars
        /\ briefs' = [briefs EXCEPT ![c] =
             [revision |-> IF briefs[c] = None THEN 1 ELSE briefs[c].revision + 1,
              included |-> selected \cap Row, delta |-> delta, probes |-> selected \cap Probe,
              omitted |-> candidates \ selected, known |-> known,
              max_chars |-> reading.max_chars]]
        /\ told' = [told EXCEPT ![c] = @ \cup delta]
  /\ reading' = None
  /\ UNCHANGED pending

\* Not even the empty sections fit: ValueError, and the brief before stays.
TooSmall ==
  /\ reading # None
  /\ reading.coverage # None
  /\ LET candidates == Candidates(reading)
         known == Known(reading.case_id)
     IN TextLength(candidates, Packed(candidates, known, reading.max_chars), known)
          > reading.max_chars
  /\ reading' = None
  /\ UNCHANGED <<briefs, pending, told>>

\* The server process is restarted and remembers neither briefs nor plans.
Forget ==
  /\ reading' = None
  /\ briefs' = [c \in Case |-> None]
  /\ pending' = [c \in Case |-> {}]
  /\ told' = [c \in Case |-> {}]

BriefNext == ReadEvidence \/ ReadCoverage \/ Generate \/ TooSmall

=============================================================================
