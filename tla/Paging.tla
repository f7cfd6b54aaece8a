------------------------------- MODULE Paging -------------------------------
(***************************************************************************)
(* A client that reads a listing of a case page by page: evidence under a  *)
(* filter, coverage, or the facts of one record.  A cursor is an offset,   *)
(* signed by the server process for one listing; the rows it counts may be *)
(* inserted and deleted between two pages.                                 *)
(***************************************************************************)
EXTENDS EvidenceTable

CONSTANTS
  Filter,      \* what the filters of query_case_evidence let through
  Facts,       \* number of facts of each evidence record
  FirstFacts,  \* facts that get_evidence shows
  PageLimit    \* page sizes a client asks for

ASSUME PagingAssumption ==
  /\ Filter \subseteq SUBSET Evidence
  /\ Facts \in [Evidence -> Nat]
  /\ FirstFacts \in Nat \ {0}
  /\ PageLimit \subseteq Nat \ {0}

VARIABLE listing  \* the listing the client reads, or None

\* A listing is a tool with the bindings of its cursors.
EvidenceListing == [kind : {"evidence"}, case_id : Case, filter : Filter]
CoverageListing == [kind : {"coverage"}, case_id : Case]
FactListing == [kind : {"facts"}, evidence_id : Evidence]
Listing == EvidenceListing \cup CoverageListing \cup FactListing

\* What the listing lists when the table holds R.  Facts have no identifier
\* but their position.
Items(l, R) ==
  CASE l.kind = "evidence" -> {i \in R \cap l.filter : CaseOf[i] = l.case_id}
    [] l.kind = "coverage" -> {i \in R \cap Coverage : CaseOf[i] = l.case_id}
    [] l.kind = "facts" -> 1..Facts[l.evidence_id]

Precedes(l, i, j) == IF l.kind = "facts" THEN i < j ELSE Newer(i, j)

Rank(l, x) == Cardinality({y \in Items(l, rows) : Precedes(l, y, x)})

\* LIMIT limit OFFSET offset
Page(l, offset, limit) ==
  {x \in Items(l, rows) : offset <= Rank(l, x) /\ Rank(l, x) < offset + limit}

\* A listing in progress: the cursor, and as history what was shown, what was
\* there at the first page and what came and went since then.
Progress ==
  [of : Listing, offset : Nat, signed : BOOLEAN, done : BOOLEAN, shown : SUBSET Nat,
   start : SUBSET Nat, added : SUBSET Row, removed : SUBSET Row, twice : SUBSET Nat]

PagingTypeOK == listing \in {None} \cup Progress

-----------------------------------------------------------------------------
\* Mutant: the cursor counts the rows of this page only.
NextOffsetOfPage(offset, limit) == limit

NextOffset(offset, limit) == offset + limit

\* Mutant: the look-ahead row is not asked for.
MoreThanFull(l, offset, limit) == Cardinality(Items(l, rows)) > offset + limit + 1

\* One row more than the page was asked for, to see whether there is a next.
More(l, offset, limit) == Cardinality(Items(l, rows)) > offset + limit

\* The first page, at offset 0 and without a cursor.
Open(l, limit) ==
  /\ listing = None
  /\ listing' =
       [of |-> l, offset |-> NextOffset(0, limit), signed |-> TRUE,
        done |-> ~ More(l, 0, limit), shown |-> Page(l, 0, limit),
        start |-> Items(l, rows), added |-> {}, removed |-> {}, twice |-> {}]

QueryFirst == \E l \in EvidenceListing \cup CoverageListing, n \in PageLimit : Open(l, n)

\* get_evidence finds any row of the case and parses it as evidence, which a
\* coverage record is not.
Expandable(i) == i \in EvidenceRows

\* get_evidence shows the first facts; inspect_more goes on behind them.
GetEvidence ==
  \E i \in {j \in rows : Expandable(j)} :
    Open([kind |-> "facts", evidence_id |-> i], FirstFacts)

\* A page with the cursor of the last one, which the server takes when its
\* own secret signed it.  The client may ask for another page size.  A record
\* that was deleted meanwhile is refused.
QueryNext ==
  /\ listing # None
  /\ ~ listing.done /\ listing.signed
  /\ listing.of.kind = "facts" => listing.of.evidence_id \in rows
  /\ \E n \in PageLimit :
       LET page == Page(listing.of, listing.offset, n)
       IN listing' = [listing EXCEPT !.offset = NextOffset(@, n),
                                     !.done = ~ More(listing.of, listing.offset, n),
                                     !.shown = @ \cup page,
                                     !.twice = @ \cup (page \cap listing.shown)]

\* The client is done with the listing, or gives it up.
Leave ==
  /\ listing # None
  /\ listing' = None

\* The server process is restarted with a new secret.
Unsign == listing' = IF listing = None THEN None ELSE [listing EXCEPT !.signed = FALSE]

\* History: what came and went since the first page.
Follow ==
  listing' =
    IF listing = None THEN None
    ELSE LET old == Items(listing.of, rows)
             new == Items(listing.of, rows')
         IN [listing EXCEPT !.added = @ \cup (new \ old), !.removed = @ \cup (old \ new)]

PagingNext == QueryFirst \/ GetEvidence \/ QueryNext \/ Leave

=============================================================================
