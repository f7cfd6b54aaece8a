----------------------------- MODULE Workspace -----------------------------
(***************************************************************************)
(* MCPWorkspace in one server process: listings and briefs of cases whose  *)
(* rows other processes insert and delete.  A tool call runs to its end    *)
(* before the next one of the same process begins.                         *)
(***************************************************************************)
EXTENDS Paging, Brief

vars == <<tableVars, listing, briefVars>>

TypeOK == TableTypeOK /\ PagingTypeOK /\ BriefTypeOK

Init ==
  /\ TableInit
  /\ listing = None
  /\ BriefInit

TableStep == TableNext /\ Follow /\ UNCHANGED briefVars

PagingStep == reading = None /\ PagingNext /\ UNCHANGED <<tableVars, briefVars>>

BriefStep == BriefNext /\ UNCHANGED <<tableVars, listing>>

Restart == Unsign /\ Forget /\ UNCHANGED tableVars

Next == TableStep \/ PagingStep \/ BriefStep \/ Restart

Spec == Init /\ [][Next]_vars

-----------------------------------------------------------------------------
(***************************************************************************)
(* Properties                                                              *)
(***************************************************************************)

\* A listing read to its end has shown every item that was there from its
\* first page on, unless retention deleted a row of the listing that was
\* captured at the very same time: rows leave from the end the pages come to
\* last, but within one captured_at both orders go by evidence_id, and the
\* rows of one open_case all bear its creation (mcp_server.py:220-260,
\* sqlite_store.py:333-371, 415-478).
SkippedOnlyInATie ==
  listing # None /\ listing.done =>
    \A x \in (listing.start \cap Items(listing.of, rows)) \ listing.shown :
      \E d \in listing.removed : captured_at[d] = captured_at[x]

\* An item is shown twice only if a row that precedes it was inserted since
\* the first page (mcp_server.py:220-260, 309-331).
TwiceOnlyBehindAnInsertion ==
  listing # None =>
    \A x \in listing.twice : \E a \in listing.added : Precedes(listing.of, a, x)

\* A client that collects the deltas of a case since revision 1 has
\* everything the latest brief cites, however rows came and went between the
\* reads and whatever budgets it asked for (mcp_server.py:362-407,
\* brief.py:67-92).
DeltasCoverBrief ==
  \A c \in Case : briefs[c] # None => briefs[c].included \subseteq told[c]

CandidatesOf(b) == b.included \cup b.probes \cup b.omitted

\* A brief is within its budget, and nothing it leaves out would have fitted
\* into what is left of it, in whichever section.  Probes come last and their
\* lines are shorter than the one in place of them: a row that was left out is
\* measured against the brief without them, since it may well fit once they are
\* in, and is not tried again (brief.py:126-141).
BriefFillsBudget ==
  \A c \in Case : briefs[c] # None =>
    LET b == briefs[c]
        length(selected) == TextLength(CandidatesOf(b), selected, b.known)
    IN /\ length(b.included \cup b.probes) <= b.max_chars
       /\ \A i \in b.omitted \cap Row : length(b.included \cup {i}) > b.max_chars
       /\ \A i \in b.omitted \cap Probe :
            length(b.included \cup b.probes \cup {i}) > b.max_chars

\* A brief leaves out the best record of a category only if it does not even
\* fit beside the best of the categories that are in: no second record of any
\* is in its way (ranking.py:41-71, brief.py:126-129).
DiverseBeforeDeep ==
  \A c \in Case : briefs[c] # None =>
    LET b == briefs[c]
        evidence == CandidatesOf(b) \cap Evidence
        best == {i \in evidence : Round(evidence, i) = 0}
    IN \A j \in b.omitted \cap best :
         TextLength(CandidatesOf(b), (best \cap b.included) \cup {j}, b.known) > b.max_chars

\* docs/testing.md says of a brief: "each citation can be expanded with
\* `get_evidence` or `inspect_more`".  Citations of rows that were deleted
\* since are not counted.
CitationsExpand ==
  \A c \in Case : briefs[c] # None =>
    \A i \in briefs[c].included \cap rows : Expandable(i)

\* What is left of it: a brief cites rows of its own case, and an evidence
\* record among them can be expanded until retention deletes it, though the
\* brief was read in two statements and rows came and went around them
\* (mcp_server.py:366-409).
EvidenceCitationsExpand ==
  \A c \in Case : briefs[c] # None =>
    \A i \in briefs[c].included :
      /\ CaseOf[i] = c
      /\ i \in Evidence => Expandable(i) \/ i \in gone

=============================================================================
