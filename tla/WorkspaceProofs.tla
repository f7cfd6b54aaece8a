-------------------------- MODULE WorkspaceProofs --------------------------
(***************************************************************************)
(* What holds of Workspace for every set of rows, every filter and every   *)
(* size of pages, batches and briefs.  For listings the argument counts    *)
(* predecessors: an item not shown yet has at least as many as the offset, *)
(* an item shown has fewer, unless a row before it was deleted or inserted *)
(* since the first page.                                                   *)
(***************************************************************************)
EXTENDS Workspace, InductionLemmas, FiniteSetTheorems, TLAPS

\* Listings of table rows, as opposed to the facts of one record.
OfRows(l) == l.kind # "facts"

\* What the items of a listing can have been so far: facts never change.
EverListed(l) == IF OfRows(l) THEN rows \cup gone ELSE Nat

OfTheTable(p) ==
  /\ p.start \subseteq EverListed(p.of) /\ p.shown \subseteq EverListed(p.of)
  /\ p.added \subseteq EverListed(p.of) /\ p.removed \subseteq EverListed(p.of)
  /\ p.twice \subseteq p.shown
  /\ ~ OfRows(p.of) => p.added = {} /\ p.removed = {}

\* What is still to be shown lies behind the offset.
Unshown(p) ==
  \A x \in (p.start \cap Items(p.of, rows)) \ p.shown :
    \/ ~ p.done /\ p.offset <= Rank(p.of, x)
    \/ \E d \in p.removed : Precedes(p.of, d, x)

\* What was shown lies before it.
Shown(p) ==
  \A x \in p.shown \cap Items(p.of, rows) :
    \/ Rank(p.of, x) < p.offset
    \/ \E a \in p.added : Precedes(p.of, a, x)

Repeated(p) ==
  \A x \in p.twice : \E a \in p.added : Precedes(p.of, a, x)

\* Retention deletes from the far end, but within one captured_at both
\* orders go by identifier.
OnlyTies(p) ==
  \A d \in p.removed, x \in p.start \cap Items(p.of, rows) :
    Precedes(p.of, d, x) => captured_at[d] = captured_at[x]

PageInv(p) == OfTheTable(p) /\ Unshown(p) /\ Shown(p) /\ Repeated(p) /\ OnlyTies(p)

PagesInv == \A p \in Progress : listing # None /\ listing = p => PageInv(p)

-----------------------------------------------------------------------------
(***************************************************************************)
(* Rows in order                                                           *)
(***************************************************************************)
LEMMA RowsAreFinite ==
  ASSUME NEW S \in SUBSET Row
  PROVE  /\ IsFiniteSet(S)
         /\ S \subseteq Nat
         /\ Cardinality(S) \in Nat
<1>1. IsFiniteSet(Row) /\ Row \subseteq Nat
  BY EvidenceTableAssumption DEF Row
<1>2. IsFiniteSet(S)
  BY <1>1, FS_Subset
<1>. QED
  BY <1>1, <1>2, FS_CardinalityType

\* Older orders the rows, and what is before the older of two rows is before
\* the other one too, which has the older one on top.
LEMMA OlderIsAnOrder ==
  ASSUME TableTypeOK, NEW S \in SUBSET Row, NEW i \in S, NEW j \in S
  PROVE  /\ i # j => Older(i, j) \/ Older(j, i)
         /\ Older(j, i) => /\ Before(S, j) \subseteq Before(S, i)
                           /\ Cardinality(Before(S, j)) < Cardinality(Before(S, i))
<1>0. Row \subseteq Nat
  BY EvidenceTableAssumption DEF Row
<1>1. \A k \in Row : captured_at[k] \in Nat
  BY EvidenceTableAssumption DEF TableTypeOK
<1>2. i # j => Older(i, j) \/ Older(j, i)
  BY <1>0, <1>1 DEF Older
<1>3. ASSUME Older(j, i)
      PROVE  /\ Before(S, j) \subseteq Before(S, i)
             /\ j \in Before(S, i) /\ j \notin Before(S, j)
  <2>1. \A k \in S : Older(k, j) => Older(k, i)
    BY <1>0, <1>1, <1>3 DEF Older
  <2>2. ~ Older(j, j)
    BY <1>0, <1>1 DEF Older
  <2>. QED
    BY <1>3, <2>1, <2>2 DEF Before
<1>4. Before(S, i) \in SUBSET Row /\ Before(S, j) \in SUBSET Row
  BY DEF Before
<1>5. ASSUME Older(j, i)
      PROVE  Cardinality(Before(S, j)) < Cardinality(Before(S, i))
  <2>1. IsFiniteSet(Before(S, i)) /\ Cardinality(Before(S, i)) \in Nat
         /\ Cardinality(Before(S, j)) \in Nat
    BY <1>4, RowsAreFinite
  <2>2. /\ Cardinality(Before(S, j)) <= Cardinality(Before(S, i))
        /\ Cardinality(Before(S, i)) = Cardinality(Before(S, j)) => Before(S, i) = Before(S, j)
    BY <1>3, <1>5, <2>1, FS_Subset
  <2>. QED
    BY <1>3, <1>5, <2>1, <2>2
<1>. QED
  BY <1>2, <1>3, <1>5

\* A batch is as large as its limit at most.
LEMMA BatchIsBounded ==
  ASSUME TableTypeOK, NEW S \in SUBSET Row, NEW n \in Nat
  PROVE  Cardinality(FirstRows(S, n)) \in 0..n
<1> DEFINE T == FirstRows(S, n)
           place == [i \in T |-> Cardinality(Before(S, i))]
<1>1. T \in SUBSET Row /\ T \subseteq S
  BY DEF FirstRows
<1>2. place \in [T -> 0..(n - 1)]
  <2>1. ASSUME NEW i \in T PROVE Cardinality(Before(S, i)) \in 0..(n - 1)
    <3>1. Before(S, i) \in SUBSET Row
      BY DEF Before
    <3>2. Cardinality(Before(S, i)) \in Nat
      BY <3>1, RowsAreFinite
    <3>3. Cardinality(Before(S, i)) < n
      BY DEF FirstRows
    <3>. QED
      BY <3>2, <3>3
  <2>. QED
    BY <2>1
<1>3. ASSUME NEW i \in T, NEW j \in T, place[i] = place[j] PROVE i = j
  <2>1. Cardinality(Before(S, i)) = Cardinality(Before(S, j))
    BY <1>3
  <2>2. Cardinality(Before(S, i)) \in Nat
    BY <1>2
  <2>3. i \in S /\ j \in S
    BY <1>1
  <2>4. ~ Older(j, i)
    <3>1. Older(j, i) => Cardinality(Before(S, j)) < Cardinality(Before(S, i))
      BY <2>3, OlderIsAnOrder
    <3>. QED
      BY <2>1, <2>2, <3>1
  <2>5. ~ Older(i, j)
    <3>1. Older(i, j) => Cardinality(Before(S, i)) < Cardinality(Before(S, j))
      BY <2>3, OlderIsAnOrder
    <3>. QED
      BY <2>1, <2>2, <3>1
  <2>. QED
    BY <2>3, <2>4, <2>5, OlderIsAnOrder
<1>4. place \in Injection(T, 0..(n - 1))
  BY <1>2, <1>3 DEF Injection, IsInjective
<1>5. IsFiniteSet(0..(n - 1)) /\ Cardinality(0..(n - 1)) = n
  BY FS_Interval
<1>6. Cardinality(T) <= n
  BY <1>4, <1>5, FS_Injection
<1>. QED
  BY <1>1, <1>6, RowsAreFinite

\* A row stays out of a batch only with all rows captured after it.
LEMMA BatchIsOldest ==
  ASSUME TableTypeOK, NEW S \in SUBSET Row, NEW n \in Nat,
         NEW i \in FirstRows(S, n), NEW j \in S, captured_at[j] < captured_at[i]
  PROVE  j \in FirstRows(S, n)
<1>1. i \in S /\ Cardinality(Before(S, i)) < n
  BY DEF FirstRows
<1>2. Older(j, i)
  BY DEF Older
<1>3. Cardinality(Before(S, j)) < Cardinality(Before(S, i))
  BY <1>1, <1>2, OlderIsAnOrder
<1>4. Cardinality(Before(S, j)) \in Nat /\ Cardinality(Before(S, i)) \in Nat
  BY RowsAreFinite DEF Before
<1>. QED
  BY <1>1, <1>3, <1>4 DEF FirstRows

-----------------------------------------------------------------------------
(***************************************************************************)
(* Listings                                                                *)
(***************************************************************************)
\* What a listing of rows shows is the part of the table it lists, evidence
\* or coverage; the facts of a record are numbered.
LEMMA ItemsOfAListing ==
  ASSUME NEW l \in Listing, NEW R \in SUBSET Row
  PROVE  /\ OfRows(l) => Items(l, R) = R \cap Items(l, Row)
         /\ OfRows(l) => \/ Items(l, Row) \subseteq Evidence
                         \/ Items(l, Row) \cap Evidence = {}
         /\ ~ OfRows(l) => Items(l, R) = Items(l, Row)
         /\ Items(l, R) \subseteq Nat
         /\ IsFiniteSet(Items(l, R))
<1>1. CASE l \in EvidenceListing
  <2>1. l.kind = "evidence" /\ l.filter \in SUBSET Evidence
    BY <1>1, PagingAssumption DEF EvidenceListing
  <2>2. /\ Items(l, R) = {i \in R \cap l.filter : CaseOf[i] = l.case_id}
        /\ Items(l, Row) = {i \in Row \cap l.filter : CaseOf[i] = l.case_id}
    BY <2>1 DEF Items
  <2>. QED
    BY <2>1, <2>2, RowsAreFinite DEF OfRows
<1>2. CASE l \in CoverageListing
  <2>1. l.kind = "coverage"
    BY <1>2 DEF CoverageListing
  <2>2. /\ Items(l, R) = {i \in R \cap Coverage : CaseOf[i] = l.case_id}
        /\ Items(l, Row) = {i \in Row \cap Coverage : CaseOf[i] = l.case_id}
    BY <2>1 DEF Items
  <2>. QED
    BY <2>1, <2>2, RowsAreFinite, EvidenceTableAssumption DEF OfRows
<1>3. CASE l \in FactListing
  <2>1. l.kind = "facts" /\ Facts[l.evidence_id] \in Nat
    BY <1>3, PagingAssumption DEF FactListing
  <2>2. Items(l, R) = 1..Facts[l.evidence_id] /\ Items(l, Row) = 1..Facts[l.evidence_id]
    BY <2>1 DEF Items
  <2>. QED
    BY <2>1, <2>2, FS_Interval DEF OfRows
<1>. QED
  BY <1>1, <1>2, <1>3 DEF Listing

\* The rank of an item is a number below that of the items, and a set of
\* items that all precede it has no more members.
LEMMA RankCounts ==
  ASSUME TableTypeOK, NEW l \in Listing, NEW x \in Nat
  PROVE  /\ Rank(l, x) \in Nat
         /\ Cardinality(Items(l, rows)) \in Nat
         /\ x \in Items(l, rows) => Rank(l, x) < Cardinality(Items(l, rows))
<1> DEFINE P == {y \in Items(l, rows) : Precedes(l, y, x)}
<1>1. rows \in SUBSET Row
  BY DEF TableTypeOK
<1>2. IsFiniteSet(Items(l, rows)) /\ Cardinality(Items(l, rows)) \in Nat
  BY <1>1, ItemsOfAListing, FS_CardinalityType
<1>3. P \in SUBSET Items(l, rows)
  OBVIOUS
<1>4. /\ IsFiniteSet(P) /\ Cardinality(P) \in Nat
      /\ Cardinality(P) <= Cardinality(Items(l, rows))
      /\ Cardinality(Items(l, rows)) = Cardinality(P) => Items(l, rows) = P
  BY <1>2, <1>3, FS_Subset, FS_CardinalityType
<1>5. x \in Items(l, rows) => x \notin P
  <2>1. SUFFICES ASSUME x \in Items(l, rows), Precedes(l, x, x) PROVE FALSE
    OBVIOUS
  <2>2. CASE l.kind = "facts"
    BY <2>1, <2>2 DEF Precedes
  <2>3. CASE l.kind # "facts"
    <3>1. x \in rows
      BY <1>1, <2>1, <2>3, ItemsOfAListing DEF OfRows
    <3>2. captured_at[x] \in Nat
      BY <1>1, <3>1, EvidenceTableAssumption DEF TableTypeOK
    <3>. QED
      BY <2>1, <2>3, <3>2 DEF Precedes, Newer
  <2>. QED
    BY <2>2, <2>3
<1>6. Rank(l, x) = Cardinality(P)
  BY DEF Rank
<1>. QED
  BY <1>2, <1>4, <1>5, <1>6

\* Deleted rows come last in a listing, up to ties.
LEMMA DeletedComeLast ==
  ASSUME TableTypeOK, NEW l \in Listing, OfRows(l), NEW S \in SUBSET EvidenceRows,
         NEW n \in Nat,
         NEW d \in FirstRows(S, n), NEW x \in Evidence, x \in rows, x \notin FirstRows(S, n),
         captured_at[x] < captured_at[d] => x \in S
  PROVE  Precedes(l, d, x) => captured_at[d] = captured_at[x]
<1>1. S \in SUBSET Row /\ d \in S /\ d \in Row /\ x \in Row
  BY DEF EvidenceRows, FirstRows, Row
<1>2. captured_at[d] \in Nat /\ captured_at[x] \in Nat
  BY <1>1, EvidenceTableAssumption DEF TableTypeOK
<1>3. ~ captured_at[x] < captured_at[d]
  BY <1>1, BatchIsOldest
<1>. QED
  BY <1>2, <1>3 DEF Precedes, OfRows, Newer

\* What a step of the table leaves alone, and the rows it takes away.
StepFrom(l) ==
  /\ EverListed(l) \subseteq EverListed(l)'
  /\ Items(l, rows) \subseteq EverListed(l)
  /\ Items(l, rows') \subseteq EverListed(l)'
  /\ (Items(l, rows') \ Items(l, rows)) \cap EverListed(l) = {}
  /\ ~ OfRows(l) => Items(l, rows') = Items(l, rows)
  /\ \A x, y \in EverListed(l) : Precedes(l, y, x)' <=> Precedes(l, y, x)
  /\ OfRows(l) => \A x \in EverListed(l) : captured_at'[x] = captured_at[x]
  /\ \A d \in Items(l, rows) \ Items(l, rows'), x \in Items(l, rows) \cap Items(l, rows') :
       Precedes(l, d, x) => captured_at[d] = captured_at[x]

LEMMA DeletionIsAStep ==
  ASSUME TableTypeOK, TableTypeOK', NEW l \in Listing,
         NEW S \in SUBSET EvidenceRows, NEW n \in Nat, Delete(FirstRows(S, n)),
         \A x \in EvidenceRows, d \in S : captured_at[x] < captured_at[d] => x \in S
  PROVE  StepFrom(l)
<1>1. rows \in SUBSET Row /\ rows' \in SUBSET Row
  BY DEF TableTypeOK
<1>2. /\ rows' = rows \ FirstRows(S, n) /\ gone' = gone \cup FirstRows(S, n)
      /\ captured_at' = captured_at
  BY DEF Delete
<1>3. FirstRows(S, n) \subseteq rows \cap Evidence
  BY DEF FirstRows, EvidenceRows
<1>4. rows \cup gone = rows' \cup gone'
  BY <1>2, <1>3
<1>5. EverListed(l)' = EverListed(l)
  BY <1>4 DEF EverListed
<1>6. \A R \in SUBSET Row :
         /\ OfRows(l) => Items(l, R) = R \cap Items(l, Row)
         /\ OfRows(l) => \/ Items(l, Row) \subseteq Evidence
                         \/ Items(l, Row) \cap Evidence = {}
         /\ ~ OfRows(l) => Items(l, R) = Items(l, Row)
         /\ Items(l, R) \subseteq Nat
  BY ItemsOfAListing
<1>7. /\ Items(l, rows) \subseteq EverListed(l)
      /\ Items(l, rows') \subseteq Items(l, rows)
      /\ ~ OfRows(l) => Items(l, rows') = Items(l, rows)
  BY <1>1, <1>2, <1>6 DEF EverListed
<1>8. \A x, y : Precedes(l, y, x)' <=> Precedes(l, y, x)
  BY <1>2 DEF Precedes, Newer
<1>9. ASSUME NEW d \in Items(l, rows) \ Items(l, rows'),
             NEW x \in Items(l, rows) \cap Items(l, rows'), Precedes(l, d, x)
      PROVE  captured_at[d] = captured_at[x]
  <2>1. OfRows(l)
    BY <1>7, <1>9
  <2>2. d \in rows /\ d \notin rows' /\ x \in rows /\ x \in rows'
        /\ d \in Items(l, Row) /\ x \in Items(l, Row)
    BY <1>1, <1>6, <1>9, <2>1
  <2>3. d \in FirstRows(S, n) /\ x \notin FirstRows(S, n)
    BY <1>2, <2>2
  <2>4. d \in Evidence /\ d \in S
    BY <1>3, <2>3 DEF FirstRows
  <2>5. x \in Evidence
    BY <1>1, <1>6, <2>1, <2>2, <2>4
  <2>6. captured_at[x] < captured_at[d] => x \in S
    BY <2>2, <2>4, <2>5 DEF EvidenceRows
  <2>. QED
    BY <1>9, <2>1, <2>2, <2>3, <2>5, <2>6, DeletedComeLast
<1>. QED
  BY <1>2, <1>5, <1>7, <1>8, <1>9 DEF StepFrom

LEMMA CollectionIsAStep ==
  ASSUME TableTypeOK, TableTypeOK', NEW l \in Listing, NEW i \in Row, Collect(i)
  PROVE  StepFrom(l)
<1>1. rows \in SUBSET Row /\ rows' \in SUBSET Row /\ gone \in SUBSET Row
  BY DEF TableTypeOK, Row
<1>2. rows' = rows \cup {i} /\ gone' = gone /\ i \notin rows \cup gone
  BY DEF Collect
<1>3. \A x \in rows \cup gone : captured_at'[x] = captured_at[x]
  BY <1>1, <1>2 DEF Collect, TableTypeOK
<1>4. \A R \in SUBSET Row :
         /\ OfRows(l) => Items(l, R) = R \cap Items(l, Row)
         /\ ~ OfRows(l) => Items(l, R) = Items(l, Row)
         /\ Items(l, R) \subseteq Nat
  BY ItemsOfAListing
<1>5. /\ Items(l, rows) \subseteq EverListed(l)
      /\ Items(l, rows') \subseteq EverListed(l)'
      /\ EverListed(l) \subseteq EverListed(l)'
      /\ (Items(l, rows') \ Items(l, rows)) \cap EverListed(l) = {}
      /\ Items(l, rows) \subseteq Items(l, rows')
      /\ ~ OfRows(l) => Items(l, rows') = Items(l, rows)
  BY <1>1, <1>2, <1>4 DEF EverListed
<1>6. \A x, y \in EverListed(l) : Precedes(l, y, x)' <=> Precedes(l, y, x)
  BY <1>3 DEF Precedes, Newer, EverListed, OfRows
<1>. QED
  BY <1>3, <1>5, <1>6 DEF StepFrom, EverListed

LEMMA TableStepIsAStep ==
  ASSUME TableTypeOK, TableTypeOK', NEW l \in Listing, TableNext
  PROVE  StepFrom(l)
<1>1. ASSUME NEW i \in Row, Collect(i) PROVE StepFrom(l)
  BY <1>1, CollectionIsAStep
<1>2. ASSUME UNCHANGED <<rows, gone, captured_at>> PROVE StepFrom(l)
  <2>1. Items(l, rows') = Items(l, rows) /\ EverListed(l)' = EverListed(l)
    BY <1>2 DEF EverListed
  <2>2. \A x, y : Precedes(l, y, x)' <=> Precedes(l, y, x)
    BY <1>2 DEF Precedes, Newer
  <2>3. Items(l, rows) \subseteq EverListed(l)
    <3>1. rows \in SUBSET Row
      BY DEF TableTypeOK
    <3>. QED
      BY <3>1, ItemsOfAListing DEF EverListed
  <2>. QED
    BY <1>2, <2>1, <2>2, <2>3 DEF StepFrom
<1>3. ASSUME DeleteExpired PROVE StepFrom(l)
  <2>1. PICK cutoff \in 0..now :
          Delete(FirstRows({i \in EvidenceRows : captured_at[i] < cutoff}, BatchSize))
    BY <1>3 DEF DeleteExpired
  <2> DEFINE S == {i \in EvidenceRows : captured_at[i] < cutoff}
  <2>2. S \in SUBSET EvidenceRows /\ BatchSize \in Nat
    BY EvidenceTableAssumption
  <2>3. \A x \in Row : captured_at[x] \in Nat
    BY EvidenceTableAssumption DEF TableTypeOK
  <2>4. now \in Nat /\ cutoff \in Nat
    BY EvidenceTableAssumption DEF TableTypeOK
  <2>5. \A x \in EvidenceRows, d \in S : captured_at[x] < captured_at[d] => x \in S
    BY <2>3, <2>4 DEF EvidenceRows, Row
  <2>. QED
    BY <2>1, <2>2, <2>5, DeletionIsAStep
<1>4. ASSUME DeleteOldest PROVE StepFrom(l)
  <2>1. Delete(FirstRows(EvidenceRows, slots))
    BY <1>4 DEF DeleteOldest
  <2>2. slots \in Nat
    BY <1>4, EvidenceTableAssumption DEF DeleteOldest, TableTypeOK
  <2>. QED
    BY <2>1, <2>2, DeletionIsAStep
<1>. QED
  BY <1>1, <1>2, <1>3, <1>4 DEF TableNext, Tick, EndPrune

LEMMA TableTyped ==
  ASSUME TableTypeOK, [TableNext]_tableVars
  PROVE  TableTypeOK'
<1>1. CASE UNCHANGED tableVars
  BY <1>1 DEF tableVars, TableTypeOK
<1>2. ASSUME NEW i \in Row, Collect(i) PROVE TableTypeOK'
  BY <1>2, EvidenceTableAssumption DEF Collect, TableTypeOK, Row
<1>3. CASE Tick
  BY <1>3, EvidenceTableAssumption DEF Tick, TableTypeOK
<1>4. CASE EndPrune
  BY <1>4 DEF EndPrune, TableTypeOK
<1>5. \A S \in SUBSET EvidenceRows, n \in Nat :
        FirstRows(S, n) \subseteq EvidenceRows /\ Cardinality(FirstRows(S, n)) \in 0..n
  BY BatchIsBounded DEF EvidenceRows, FirstRows, Row
<1>6. ASSUME NEW D \in SUBSET EvidenceRows, Delete(D), slots' \in 0..BatchSize \cup {None}
      PROVE  TableTypeOK'
  BY <1>6 DEF Delete, TableTypeOK, EvidenceRows
<1>7. CASE DeleteExpired
  <2>1. PICK cutoff \in 0..now :
          LET expired == {i \in EvidenceRows : captured_at[i] < cutoff}
          IN /\ Delete(FirstRows(expired, BatchSize))
             /\ slots' = BatchSize - Cardinality(FirstRows(expired, BatchSize))
    BY <1>7 DEF DeleteExpired
  <2> DEFINE S == {i \in EvidenceRows : captured_at[i] < cutoff}
  <2>2. /\ FirstRows(S, BatchSize) \subseteq EvidenceRows
        /\ Cardinality(FirstRows(S, BatchSize)) \in 0..BatchSize
    BY <1>5, EvidenceTableAssumption
  <2>3. Delete(FirstRows(S, BatchSize)) /\ slots' \in 0..BatchSize
    BY <2>1, <2>2, EvidenceTableAssumption
  <2>. QED
    BY <1>6, <2>2, <2>3
<1>8. CASE DeleteOldest
  <2>1. slots \in Nat
    BY <1>8, EvidenceTableAssumption DEF DeleteOldest, TableTypeOK
  <2>. QED
    BY <1>5, <1>6, <1>8, <2>1 DEF DeleteOldest
<1>. QED
  BY <1>1, <1>2, <1>3, <1>4, <1>7, <1>8 DEF TableNext

-----------------------------------------------------------------------------
(***************************************************************************)
(* Ranks while the table changes                                           *)
(***************************************************************************)
\* Unless a row before it is deleted, an item keeps its predecessors.
LEMMA RankKept ==
  ASSUME TableTypeOK, TableTypeOK', NEW l \in Listing, StepFrom(l), NEW x \in EverListed(l),
         \A d \in Items(l, rows) \ Items(l, rows') : ~ Precedes(l, d, x)
  PROVE  /\ Rank(l, x) \in Int /\ Rank(l, x)' \in Int
         /\ Rank(l, x) <= Rank(l, x)'
<1> DEFINE P == {y \in Items(l, rows) : Precedes(l, y, x)}
           Q == {y \in Items(l, rows') : Precedes(l, y, x)'}
<1>1. rows \in SUBSET Row /\ rows' \in SUBSET Row
  BY DEF TableTypeOK
<1>2. IsFiniteSet(Items(l, rows)) /\ IsFiniteSet(Items(l, rows'))
  BY <1>1, ItemsOfAListing
<1>3. IsFiniteSet(P) /\ IsFiniteSet(Q)
  BY <1>2, FS_Subset
<1>4. P \subseteq Q
  BY DEF StepFrom
<1>5. Cardinality(P) \in Nat /\ Cardinality(Q) \in Nat /\ Cardinality(P) <= Cardinality(Q)
  BY <1>3, <1>4, FS_Subset, FS_CardinalityType
<1>. QED
  BY <1>5 DEF Rank

\* Unless a row before it is inserted, it gets no new ones.
LEMMA RankNotRaised ==
  ASSUME TableTypeOK, TableTypeOK', NEW l \in Listing, StepFrom(l), NEW x \in EverListed(l),
         \A a \in Items(l, rows') \ Items(l, rows) : ~ Precedes(l, a, x)'
  PROVE  /\ Rank(l, x) \in Int /\ Rank(l, x)' \in Int
         /\ Rank(l, x)' <= Rank(l, x)
<1> DEFINE P == {y \in Items(l, rows) : Precedes(l, y, x)}
           Q == {y \in Items(l, rows') : Precedes(l, y, x)'}
<1>1. rows \in SUBSET Row /\ rows' \in SUBSET Row
  BY DEF TableTypeOK
<1>2. IsFiniteSet(Items(l, rows)) /\ IsFiniteSet(Items(l, rows'))
  BY <1>1, ItemsOfAListing
<1>3. IsFiniteSet(P) /\ IsFiniteSet(Q)
  BY <1>2, FS_Subset
<1>4. Q \subseteq P
  BY DEF StepFrom
<1>5. Cardinality(P) \in Nat /\ Cardinality(Q) \in Nat /\ Cardinality(Q) <= Cardinality(P)
  BY <1>3, <1>4, FS_Subset, FS_CardinalityType
<1>. QED
  BY <1>5 DEF Rank

-----------------------------------------------------------------------------
(***************************************************************************)
(* A listing while the table changes                                       *)
(***************************************************************************)
\* q is p after a step of the table.
Followed(p, q) ==
  /\ q.of = p.of /\ q.offset = p.offset /\ q.done = p.done
  /\ q.shown = p.shown /\ q.start = p.start /\ q.twice = p.twice
  /\ q.added = p.added \cup (Items(p.of, rows') \ Items(p.of, rows))
  /\ q.removed = p.removed \cup (Items(p.of, rows) \ Items(p.of, rows'))

LEMMA TableStepKeepsPages ==
  ASSUME TableTypeOK, TableTypeOK', TableNext, NEW p \in Progress, NEW q \in Progress,
         PageInv(p), Followed(p, q)
  PROVE  PageInv(q)'
<1> DEFINE l == p.of
           items == Items(l, rows)
           next == Items(l, rows')
<1>1. l \in Listing /\ q.of = l /\ p.offset \in Nat
  BY DEF Progress, Followed
<1>2. StepFrom(l)
  BY <1>1, TableStepIsAStep
<1>3. OfTheTable(p)
  BY DEF PageInv
<1>4. OfTheTable(q)'
  BY <1>1, <1>2, <1>3 DEF OfTheTable, Followed, StepFrom
<1>5. \A x \in EverListed(l) \cap next : x \in items
  BY <1>2 DEF StepFrom
<1>6. Unshown(q)'
  <2>1. SUFFICES ASSUME NEW x \in (q.start \cap Items(q.of, rows')) \ q.shown
                 PROVE  \/ ~ q.done /\ q.offset <= Rank(q.of, x)'
                        \/ \E d \in q.removed : Precedes(q.of, d, x)'
    BY DEF Unshown
  <2>2. x \in EverListed(l) /\ x \in items /\ x \in next /\ x \in (p.start \cap items) \ p.shown
    BY <1>1, <1>3, <1>5, <2>1 DEF OfTheTable, Followed
  <2>3. CASE \E d \in p.removed : Precedes(l, d, x)
    BY <1>1, <1>2, <1>3, <2>2, <2>3 DEF StepFrom, Followed, OfTheTable
  <2>4. CASE \E d \in items \ next : Precedes(l, d, x)
    BY <1>1, <1>2, <2>2, <2>4 DEF StepFrom, Followed
  <2>5. CASE /\ ~ p.done /\ p.offset <= Rank(l, x)
             /\ ~ \E d \in items \ next : Precedes(l, d, x)
    <3>1. Rank(l, x) \in Int /\ Rank(l, x)' \in Int /\ Rank(l, x) <= Rank(l, x)'
      BY <1>1, <1>2, <2>2, <2>5, RankKept
    <3>2. ~ q.done /\ q.offset <= Rank(l, x)'
      BY <1>1, <2>5, <3>1 DEF Followed
    <3>. QED
      BY <1>1, <3>2
  <2>. QED
    BY <2>2, <2>3, <2>4, <2>5 DEF PageInv, Unshown
<1>7. Shown(q)'
  <2>1. SUFFICES ASSUME NEW x \in q.shown \cap Items(q.of, rows')
                 PROVE  \/ Rank(q.of, x)' < q.offset
                        \/ \E a \in q.added : Precedes(q.of, a, x)'
    BY DEF Shown
  <2>2. x \in EverListed(l) /\ x \in next /\ x \in p.shown \cap items
    BY <1>1, <1>3, <1>5, <2>1 DEF OfTheTable, Followed
  <2>3. CASE \E a \in p.added : Precedes(l, a, x)
    BY <1>1, <1>2, <1>3, <2>2, <2>3 DEF StepFrom, Followed, OfTheTable
  <2>4. CASE \E a \in next \ items : Precedes(l, a, x)'
    BY <1>1, <2>4 DEF Followed
  <2>5. CASE /\ Rank(l, x) < p.offset
             /\ ~ \E a \in next \ items : Precedes(l, a, x)'
    <3>1. Rank(l, x) \in Int /\ Rank(l, x)' \in Int /\ Rank(l, x)' <= Rank(l, x)
      BY <1>1, <1>2, <2>2, <2>5, RankNotRaised
    <3>2. Rank(l, x)' < q.offset
      BY <1>1, <2>5, <3>1 DEF Followed
    <3>. QED
      BY <1>1, <3>2
  <2>. QED
    BY <2>2, <2>3, <2>4, <2>5 DEF PageInv, Shown
<1>8. Repeated(q)'
  <2>1. SUFFICES ASSUME NEW x \in q.twice
                 PROVE  \E a \in q.added : Precedes(q.of, a, x)'
    BY DEF Repeated
  <2>2. x \in EverListed(l)
    BY <1>3, <2>1 DEF OfTheTable, Followed
  <2>3. PICK a \in p.added : Precedes(l, a, x)
    BY <2>1 DEF PageInv, Repeated, Followed
  <2>4. Precedes(l, a, x)'
    BY <1>2, <1>3, <2>2, <2>3 DEF StepFrom, OfTheTable
  <2>. QED
    BY <1>1, <2>3, <2>4 DEF Followed
<1>9. OnlyTies(q)'
  <2>1. SUFFICES ASSUME NEW d \in q.removed, NEW x \in q.start \cap Items(q.of, rows'),
                        Precedes(q.of, d, x)'
                 PROVE  captured_at'[d] = captured_at'[x]
    BY DEF OnlyTies
  <2>2. x \in EverListed(l) /\ x \in items /\ x \in next /\ x \in p.start
    BY <1>1, <1>3, <1>5, <2>1 DEF OfTheTable, Followed
  <2>3. d \in p.removed \/ d \in items \ next
    BY <2>1 DEF Followed
  <2>4. d \in EverListed(l) /\ OfRows(l)
    BY <1>2, <1>3, <2>3 DEF OfTheTable, StepFrom
  <2>5. Precedes(l, d, x)
    BY <1>1, <1>2, <2>1, <2>2, <2>4 DEF StepFrom
  <2>6. captured_at[d] = captured_at[x]
    <3>1. CASE d \in p.removed
      BY <2>2, <2>5, <3>1 DEF PageInv, OnlyTies
    <3>2. CASE d \in items \ next
      BY <1>2, <2>2, <2>5, <3>2 DEF StepFrom
    <3>. QED
      BY <2>3, <3>1, <3>2
  <2>. QED
    BY <1>2, <2>2, <2>4, <2>6 DEF StepFrom
<1>. QED
  BY <1>4, <1>6, <1>7, <1>8, <1>9 DEF PageInv

-----------------------------------------------------------------------------
(***************************************************************************)
(* Pages                                                                   *)
(***************************************************************************)
LEMMA PageInvStays ==
  ASSUME NEW p \in Progress, PageInv(p), UNCHANGED tableVars
  PROVE  PageInv(p)'
<1>1. rows' = rows /\ gone' = gone /\ captured_at' = captured_at
  BY DEF tableVars
<1>2. EverListed(p.of)' = EverListed(p.of)
  BY <1>1 DEF EverListed
<1>3. \A x, y : Precedes(p.of, y, x)' <=> Precedes(p.of, y, x)
  BY <1>1 DEF Precedes, Newer
<1>4. \A x : Rank(p.of, x)' = Rank(p.of, x)
  BY <1>1, <1>3 DEF Rank
<1>5. OfTheTable(p)'
  BY <1>2 DEF PageInv, OfTheTable
<1>6. Unshown(p)' /\ Shown(p)'
  BY <1>1, <1>3, <1>4 DEF PageInv, Unshown, Shown
<1>7. Repeated(p)' /\ OnlyTies(p)'
  BY <1>1, <1>3 DEF PageInv, Repeated, OnlyTies
<1>. QED
  BY <1>5, <1>6, <1>7 DEF PageInv

LEMMA PageOfItems ==
  ASSUME TableTypeOK, NEW l \in Listing, NEW m \in Nat, NEW n \in Nat
  PROVE  /\ Page(l, m, n) \subseteq Items(l, rows)
         /\ Items(l, rows) \subseteq Nat
         /\ Items(l, rows) \subseteq EverListed(l)
         /\ \A x \in Items(l, rows) :
              x \in Page(l, m, n) <=> m <= Rank(l, x) /\ Rank(l, x) < m + n
<1>1. rows \in SUBSET Row
  BY DEF TableTypeOK
<1>. QED
  BY <1>1, ItemsOfAListing DEF Page, EverListed

LEMMA FirstPage ==
  ASSUME TableTypeOK, NEW l \in Listing, NEW n \in Nat \ {0}, Open(l, n)
  PROVE  \E p \in Progress : listing' = p /\ PageInv(p)
<1> DEFINE page == Page(l, 0, n)
           items == Items(l, rows)
<1>0. PICK done \in BOOLEAN : done = (~ More(l, 0, n))
  OBVIOUS
<1>1. PICK p : p = [of |-> l, offset |-> n, signed |-> TRUE, done |-> done, shown |-> page,
                    start |-> items, added |-> {}, removed |-> {}, twice |-> {}]
  OBVIOUS
<1>2. listing' = p
  <2>1. listing' = [of |-> l, offset |-> NextOffset(0, n), signed |-> TRUE,
                    done |-> ~ More(l, 0, n), shown |-> page, start |-> items,
                    added |-> {}, removed |-> {}, twice |-> {}]
    BY Zenon DEF Open
  <2>2. NextOffset(0, n) = n
    BY DEF NextOffset
  <2>. QED
    BY <1>0, <1>1, <2>1, <2>2, Zenon
<1>3. page \subseteq items /\ items \subseteq Nat /\ items \subseteq EverListed(l)
  BY PageOfItems
<1>4. p \in Progress
  BY <1>0, <1>1, <1>3 DEF Progress
<1>5. OfTheTable(p)
  BY <1>1, <1>3 DEF OfTheTable
<1>6. \A x \in items :
         /\ Rank(l, x) \in Nat /\ Cardinality(items) \in Nat
         /\ Rank(l, x) < Cardinality(items)
         /\ x \in page <=> Rank(l, x) < n
  <2>1. ASSUME NEW x \in items PROVE x \in Nat
    BY <1>3
  <2>2. ASSUME NEW x \in items
        PROVE  x \in page <=> 0 <= Rank(l, x) /\ Rank(l, x) < 0 + n
    BY PageOfItems
  <2>. QED
    BY <2>1, <2>2, RankCounts
<1>7. Unshown(p)
  <2>1. SUFFICES ASSUME NEW x \in items \ page
                 PROVE  ~ done /\ n <= Rank(l, x)
    BY <1>1 DEF Unshown
  <2>2. n <= Rank(l, x) /\ n < Cardinality(items)
    BY <1>6
  <2>3. More(l, 0, n)
    BY <2>2 DEF More
  <2>. QED
    BY <1>0, <2>2, <2>3
<1>8. Shown(p)
  <2>1. ASSUME NEW x \in page PROVE Rank(l, x) < n
    BY <1>3, <1>6
  <2>. QED
    BY <1>1, <2>1 DEF Shown
<1>9. Repeated(p) /\ OnlyTies(p)
  BY <1>1 DEF Repeated, OnlyTies
<1>. QED
  BY <1>2, <1>4, <1>5, <1>7, <1>8, <1>9 DEF PageInv

LEMMA NextPage ==
  ASSUME TableTypeOK, NEW p \in Progress, listing = p, PageInv(p), QueryNext
  PROVE  \E q \in Progress : listing' = q /\ PageInv(q)
<1> DEFINE l == p.of
           o == p.offset
           items == Items(l, rows)
<1>1. l \in Listing /\ o \in Nat /\ p.signed \in BOOLEAN /\ ~ p.done
  BY DEF Progress, QueryNext
<1>2. PICK n \in PageLimit :
        listing' = [listing EXCEPT
                      !.offset = NextOffset(@, n),
                      !.done = ~ More(listing.of, listing.offset, n),
                      !.shown = @ \cup Page(listing.of, listing.offset, n),
                      !.twice = @ \cup (Page(listing.of, listing.offset, n) \cap listing.shown)]
  BY Zenon DEF QueryNext
<1>3. n \in Nat
  BY PagingAssumption
<1> DEFINE page == Page(l, o, n)
<1>0. PICK done \in BOOLEAN : done = (~ More(l, o, n))
  OBVIOUS
<1>4. PICK q : q = [of |-> l, offset |-> o + n, signed |-> p.signed, done |-> done,
                    shown |-> p.shown \cup page, start |-> p.start, added |-> p.added,
                    removed |-> p.removed, twice |-> p.twice \cup (page \cap p.shown)]
  OBVIOUS
<1>5. page \subseteq items /\ items \subseteq Nat /\ items \subseteq EverListed(l)
  BY <1>1, <1>3, PageOfItems
<1>6. q \in Progress
  BY <1>0, <1>1, <1>3, <1>4, <1>5 DEF Progress
<1>7. listing' = q
  <2>1. listing' = [p EXCEPT !.offset = NextOffset(o, n), !.done = ~ More(l, o, n),
                             !.shown = p.shown \cup page,
                             !.twice = p.twice \cup (page \cap p.shown)]
    BY <1>2, Zenon
  <2>2. listing' = [p EXCEPT !.offset = NextOffset(o, n), !.done = done,
                             !.shown = p.shown \cup page,
                             !.twice = p.twice \cup (page \cap p.shown)]
    BY <1>0, <2>1, Zenon
  <2>3. listing' = [p EXCEPT !.offset = o + n, !.done = done, !.shown = p.shown \cup page,
                             !.twice = p.twice \cup (page \cap p.shown)]
    BY <2>2, Zenon DEF NextOffset
  <2> DEFINE twice == p.twice \cup (page \cap p.shown)
  <2>4. PICK m \in Nat : m = o + n
    BY <1>1, <1>3
  <2>5. PICK f \in Progress : f = [p EXCEPT !.offset = m]
    BY DEF Progress
  <2>6. PICK g \in Progress : g = [f EXCEPT !.done = done]
    BY DEF Progress
  <2>7. PICK h \in Progress : h = [g EXCEPT !.shown = p.shown \cup page]
    BY <1>5 DEF Progress
  <2>8. twice \in SUBSET Nat
    BY DEF Progress
  <2>9. PICK k \in Progress : k = [h EXCEPT !.twice = twice]
    BY <2>8 DEF Progress
  <2>10. listing' = k
    BY <2>3, <2>4, <2>5, <2>6, <2>7, <2>9, Zenon
  <2>11. /\ k.of = p.of /\ k.offset = m /\ k.signed = p.signed /\ k.done = done
         /\ k.shown = p.shown \cup page /\ k.start = p.start /\ k.added = p.added
         /\ k.removed = p.removed /\ k.twice = twice
    BY <2>5, <2>6, <2>7, <2>9 DEF Progress
  <2>12. k = q
    BY <1>4, <2>4, <2>11 DEF Progress
  <2>. QED
    BY <2>10, <2>12
<1>8. OfTheTable(q)
  BY <1>4, <1>5 DEF OfTheTable, PageInv
<1>9. \A x \in items :
         /\ Rank(l, x) \in Nat /\ Cardinality(items) \in Nat
         /\ Rank(l, x) < Cardinality(items)
         /\ x \in page <=> o <= Rank(l, x) /\ Rank(l, x) < o + n
  <2>1. ASSUME NEW x \in items PROVE x \in Nat
    BY <1>5
  <2>2. ASSUME NEW x \in items
        PROVE  x \in page <=> o <= Rank(l, x) /\ Rank(l, x) < o + n
    BY <1>1, <1>3, PageOfItems
  <2>. QED
    BY <1>1, <2>1, <2>2, RankCounts
<1>10. Unshown(q)
  <2>1. SUFFICES ASSUME NEW x \in (p.start \cap items) \ (p.shown \cup page)
                 PROVE  \/ ~ done /\ o + n <= Rank(l, x)
                        \/ \E d \in p.removed : Precedes(l, d, x)
    BY <1>4 DEF Unshown
  <2>2. CASE o <= Rank(l, x)
    <3>1. o + n <= Rank(l, x) /\ o + n < Cardinality(items)
      BY <1>1, <1>3, <1>9, <2>2
    <3>2. More(l, o, n)
      BY <1>1, <1>3, <1>9, <3>1 DEF More
    <3>. QED
      BY <1>0, <3>1, <3>2
  <2>. QED
    BY <1>1, <2>1, <2>2 DEF PageInv, Unshown
<1>11. Shown(q)
  <2>1. SUFFICES ASSUME NEW x \in (p.shown \cup page) \cap items
                 PROVE  \/ Rank(l, x) < o + n
                        \/ \E a \in p.added : Precedes(l, a, x)
    BY <1>4 DEF Shown
  <2>2. Rank(l, x) < o => Rank(l, x) < o + n
    BY <1>1, <1>3, <1>9
  <2>. QED
    BY <1>9, <2>1, <2>2 DEF PageInv, Shown
<1>12. Repeated(q)
  <2>1. SUFFICES ASSUME NEW x \in page \cap p.shown
                 PROVE  \E a \in p.added : Precedes(l, a, x)
    BY <1>4 DEF PageInv, Repeated
  <2>2. x \in items /\ ~ Rank(l, x) < o
    BY <1>1, <1>5, <1>9
  <2>. QED
    BY <2>1, <2>2 DEF PageInv, Shown
<1>13. OnlyTies(q)
  BY <1>4 DEF PageInv, OnlyTies
<1>. QED
  BY <1>7, <1>6, <1>8, <1>10, <1>11, <1>12, <1>13 DEF PageInv

LEMMA FollowedPages ==
  ASSUME TableTypeOK, TableTypeOK', NEW p \in Progress, listing # None, listing = p, Follow,
         PageInv(p), TableNext
  PROVE  \E q \in Progress : listing' = q /\ PageInv(q)'
<1> DEFINE old == Items(p.of, rows)
           new == Items(p.of, rows')
           added == p.added \cup (new \ old)
           removed == p.removed \cup (old \ new)
<1>1. /\ p.of \in Listing
      /\ rows \in SUBSET Row /\ rows' \in SUBSET Row
      /\ p.added \in SUBSET Row /\ p.removed \in SUBSET Row
  BY DEF Progress, TableTypeOK
<1>2. added \in SUBSET Row /\ removed \in SUBSET Row
  <2>1. CASE OfRows(p.of)
    BY <1>1, <2>1, ItemsOfAListing
  <2>2. CASE ~ OfRows(p.of)
    BY <1>1, <2>2, ItemsOfAListing
  <2>. QED
    BY <2>1, <2>2
<1>3. listing' = [p EXCEPT !.added = added, !.removed = removed]
  <2>1. listing' = [listing EXCEPT
            !.added = @ \cup (Items(listing.of, rows') \ Items(listing.of, rows)),
            !.removed = @ \cup (Items(listing.of, rows) \ Items(listing.of, rows'))]
    BY Zenon DEF Follow
  <2>. QED
    BY <2>1, Zenon
<1>4. PICK f \in Progress : f = [p EXCEPT !.added = added]
  BY <1>2 DEF Progress
<1>5. PICK q \in Progress : q = [f EXCEPT !.removed = removed]
  BY <1>2 DEF Progress
<1>6. listing' = q
  BY <1>3, <1>4, <1>5, Zenon
<1>7. Followed(p, q)
  BY <1>4, <1>5 DEF Progress, Followed
<1>. QED
  BY <1>6, <1>7, TableStepKeepsPages

LEMMA UnsignedPages ==
  ASSUME NEW p \in Progress, PageInv(p), UNCHANGED tableVars
  PROVE  \E q \in Progress : q = [p EXCEPT !.signed = FALSE] /\ PageInv(q)'
<1>1. PICK q \in Progress : q = [p EXCEPT !.signed = FALSE]
  BY DEF Progress
<1>2. /\ q.of = p.of /\ q.offset = p.offset /\ q.done = p.done /\ q.shown = p.shown
      /\ q.start = p.start /\ q.added = p.added /\ q.removed = p.removed /\ q.twice = p.twice
  BY <1>1 DEF Progress
<1>3. PageInv(q)
  BY <1>2 DEF PageInv, OfTheTable, Unshown, Shown, Repeated, OnlyTies
<1>. QED
  BY <1>1, <1>3, PageInvStays

\* Every step keeps listings typed and their pages in place.
LEMMA ListingStep ==
  ASSUME TableTypeOK, TableTypeOK', PagingTypeOK, PagesInv, [Next]_vars
  PROVE  PagingTypeOK' /\ PagesInv'
<1>1. ASSUME listing' = None PROVE PagingTypeOK' /\ PagesInv'
  BY <1>1 DEF PagingTypeOK, PagesInv
<1>2. ASSUME NEW q \in Progress, listing' = q, PageInv(q)' PROVE PagingTypeOK' /\ PagesInv'
  BY <1>2 DEF PagingTypeOK, PagesInv
<1>3. ASSUME NEW p \in Progress, listing # None, listing = p PROVE PageInv(p)
  BY <1>3 DEF PagesInv
<1>4. CASE UNCHANGED <<listing, tableVars>>
  <2>1. CASE listing = None
    BY <1>1, <1>4, <2>1
  <2>2. CASE listing # None
    <3>1. PICK p \in Progress : listing = p
      BY <2>2 DEF PagingTypeOK
    <3>2. PageInv(p)'
      BY <1>3, <1>4, <2>2, <3>1, PageInvStays
    <3>. QED
      BY <1>2, <1>4, <3>1, <3>2
  <2>. QED
    BY <2>1, <2>2
<1>5. CASE TableStep
  <2>1. CASE listing = None
    BY <1>1, <1>5, <2>1 DEF TableStep, Follow
  <2>2. CASE listing # None
    <3>1. PICK p \in Progress : listing = p
      BY <2>2 DEF PagingTypeOK
    <3>2. PICK q \in Progress : listing' = q /\ PageInv(q)'
      BY <1>3, <1>5, <2>2, <3>1, FollowedPages DEF TableStep
    <3>. QED
      BY <1>2, <3>2
  <2>. QED
    BY <2>1, <2>2
<1>6. CASE PagingStep
  <2>1. ASSUME NEW q \in Progress, listing' = q, PageInv(q) PROVE PagingTypeOK' /\ PagesInv'
    <3>1. PageInv(q)'
      BY <1>6, <2>1, PageInvStays DEF PagingStep
    <3>. QED
      BY <1>2, <2>1, <3>1
  <2>2. CASE QueryFirst
    <3>1. PICK l \in EvidenceListing \cup CoverageListing, n \in PageLimit : Open(l, n)
      BY <2>2 DEF QueryFirst
    <3>2. l \in Listing /\ n \in Nat \ {0}
      BY <3>1, PagingAssumption DEF Listing
    <3>. QED
      BY <2>1, <3>1, <3>2, FirstPage
  <2>3. CASE GetEvidence
    <3>1. PICK i \in rows :
            i \in Evidence /\ Open([kind |-> "facts", evidence_id |-> i], FirstFacts)
      BY <2>3 DEF GetEvidence, Expandable, EvidenceRows
    <3>2. [kind |-> "facts", evidence_id |-> i] \in Listing
      BY <3>1 DEF Listing, FactListing
    <3>3. PICK q \in Progress : listing' = q /\ PageInv(q)
      BY <3>1, <3>2, FirstPage, PagingAssumption
    <3>. QED
      BY <2>1, <3>3
  <2>4. CASE QueryNext
    <3>1. PICK p \in Progress : listing # None /\ listing = p
      BY <2>4 DEF QueryNext, PagingTypeOK
    <3>2. PageInv(p)
      BY <1>3, <3>1
    <3>3. PICK q \in Progress : listing' = q /\ PageInv(q)
      BY <2>4, <3>1, <3>2, NextPage
    <3>. QED
      BY <2>1, <3>3
  <2>5. CASE Leave
    BY <1>1, <2>5 DEF Leave
  <2>. QED
    BY <1>6, <2>2, <2>3, <2>4, <2>5 DEF PagingStep, PagingNext
<1>7. CASE Restart
  <2>1. CASE listing = None
    BY <1>1, <1>7, <2>1 DEF Restart, Unsign
  <2>2. CASE listing # None
    <3>1. PICK p \in Progress : listing = p
      BY <2>2 DEF PagingTypeOK
    <3>2. PICK q \in Progress : q = [p EXCEPT !.signed = FALSE] /\ PageInv(q)'
      BY <1>3, <1>7, <2>2, <3>1, UnsignedPages DEF Restart
    <3>3. listing' = q
      BY <1>7, <2>2, <3>1, <3>2, Zenon DEF Restart, Unsign
    <3>. QED
      BY <1>2, <3>2, <3>3
  <2>. QED
    BY <2>1, <2>2
<1>. QED
  BY <1>4, <1>5, <1>6, <1>7 DEF Next, BriefStep, vars

-----------------------------------------------------------------------------
(***************************************************************************)
(* Briefs                                                                  *)
(***************************************************************************)
LEMMA ReadingTyped ==
  ASSUME TableTypeOK, BriefTypeOK, ReadEvidence \/ ReadCoverage
  PROVE  BriefTypeOK'
<1>1. \A c \in Case : /\ NewestRows(RowsOf(c, Evidence), EvidenceLimit) \in SUBSET Evidence
                      /\ NewestRows(RowsOf(c, Coverage), CoverageLimit) \in SUBSET Coverage
  BY DEF NewestRows, RowsOf
<1>2. CASE ReadEvidence
  <2>1. PICK c \in Case, n \in MaxChars :
          reading' = [case_id |-> c, max_chars |-> n, coverage |-> None,
                      evidence |-> NewestRows(RowsOf(c, Evidence), EvidenceLimit)]
    BY <1>2 DEF ReadEvidence
  <2>. QED
    BY <1>1, <1>2, <2>1 DEF ReadEvidence, BriefTypeOK
<1>3. CASE ReadCoverage
  <2>1. PICK S \in SUBSET Coverage : reading' = [reading EXCEPT !.coverage = S]
    BY <1>1, <1>3 DEF ReadCoverage, BriefTypeOK
  <2>. QED
    BY <1>3, <2>1 DEF ReadCoverage, BriefTypeOK
<1>. QED
  BY <1>2, <1>3

\* The order in which candidates are packed.
PackingOrder(candidates) ==
  {p \in candidates \X candidates :
     PackedBefore(candidates \cap Evidence, p[1], p[2])}

LEMMA RoundsAreNatural ==
  ASSUME NEW E \in SUBSET Evidence, NEW i
  PROVE  Round(E, i) \in Nat
<1>1. PICK ahead : ahead = {k \in E : Category[k] = Category[i] /\ Better(k, i)}
  OBVIOUS
<1>2. ahead \in SUBSET Row
  BY <1>1 DEF Row
<1>. QED
  BY <1>1, <1>2, RowsAreFinite DEF Round

LEMMA CandidateTypes ==
  /\ \A i \in Row \cup Probe : i \in Nat /\ Line[i] \in Nat
  /\ \A i \in Row : OmittedLine <= Line[i] /\ Category[i] \in Nat
  /\ \A i \in Evidence : Score[i] \in Nat /\ i \notin Coverage
  /\ Row \cap Probe = {}
BY EvidenceTableAssumption, BriefAssumption DEF Probe, Row

LEMMA RankedInOrder ==
  ASSUME NEW E \in SUBSET Evidence
  PROVE  /\ \A i \in E : ~ RankedBefore(E, i, i)
         /\ \A i, j, k \in E : RankedBefore(E, i, j) /\ RankedBefore(E, j, k)
                                 => RankedBefore(E, i, k)
         /\ \A i, j \in E : i = j \/ RankedBefore(E, i, j) \/ RankedBefore(E, j, i)
<1>1. \A i \in E : Score[i] \in Nat /\ i \in Nat
  BY CandidateTypes DEF Row
<1>2. \A i \in E : Round(E, i) \in Nat
  BY RoundsAreNatural
<1>3. /\ \A i \in E : ~ Better(i, i)
      /\ \A i, j, k \in E : Better(i, j) /\ Better(j, k) => Better(i, k)
      /\ \A i, j \in E : i = j \/ Better(i, j) \/ Better(j, i)
  BY <1>1 DEF Better
<1>. QED
  BY <1>2, <1>3 DEF RankedBefore

LEMMA PackingIsInOrder ==
  ASSUME NEW candidates \in SUBSET (Row \cup Probe)
  PROVE  Orders(PackingOrder(candidates), candidates)
<1> DEFINE E == candidates \cap Evidence
           before(i, j) == PackedBefore(E, i, j)
<1>1. /\ \A i \in E : ~ RankedBefore(E, i, i)
      /\ \A i, j, k \in E : RankedBefore(E, i, j) /\ RankedBefore(E, j, k)
                              => RankedBefore(E, i, k)
      /\ \A i, j \in E : i = j \/ RankedBefore(E, i, j) \/ RankedBefore(E, j, i)
  BY RankedInOrder
<1>2. \A i \in candidates : /\ i \in Nat
                            /\ i \in Evidence \/ i \in Coverage \/ i \in Probe
                            /\ i \in Coverage => Category[i] \in Nat
                            /\ i \in Evidence => i \in E /\ i \notin Coverage /\ i \notin Probe
                            /\ i \in Coverage => i \notin Probe
  BY CandidateTypes DEF Row
<1> HIDE DEF E
<1>3. \A i \in candidates : ~ before(i, i)
  BY <1>1, <1>2 DEF PackedBefore
<1>4. ASSUME NEW i \in candidates, NEW j \in candidates, NEW k \in candidates,
             before(i, j), before(j, k)
      PROVE  before(i, k)
  <2>1. CASE i \in Evidence
    BY <1>1, <1>2, <1>4, <2>1 DEF PackedBefore
  <2>2. CASE i \in Coverage
    BY <1>1, <1>2, <1>4, <2>2 DEF PackedBefore
  <2>3. CASE i \in Probe
    BY <1>1, <1>2, <1>4, <2>3 DEF PackedBefore
  <2>. QED
    BY <1>2, <2>1, <2>2, <2>3
<1>5. ASSUME NEW i \in candidates, NEW j \in candidates
      PROVE  i = j \/ before(i, j) \/ before(j, i)
  <2>1. CASE i \in Evidence
    BY <1>1, <1>2, <2>1 DEF PackedBefore
  <2>2. CASE i \in Coverage
    BY <1>1, <1>2, <2>2 DEF PackedBefore
  <2>3. CASE i \in Probe
    BY <1>1, <1>2, <2>3 DEF PackedBefore
  <2>. QED
    BY <1>2, <2>1, <2>2, <2>3
<1>. QED
  BY <1>3, <1>4, <1>5 DEF Orders, PackingOrder, E

\* The loop of Packed, as a function of the number of turns.
Packing(pack, candidates, known, max_chars) ==
  pack = [k \in 0..Cardinality(candidates) |->
            IF k = 0 THEN {}
            ELSE LET more == pack[k - 1] \cup {Candidate(candidates, k)}
                 IN IF TextLength(candidates, more, known) <= max_chars
                    THEN more ELSE pack[k - 1]]

LEMMA PackedByPacking ==
  ASSUME NEW candidates \in SUBSET (Row \cup Probe), IsFiniteSet(candidates),
         NEW known, NEW max_chars
  PROVE  \E pack \in [0..Cardinality(candidates) -> SUBSET candidates] :
           /\ Packing(pack, candidates, known, max_chars)
           /\ Packed(candidates, known, max_chars) = pack[Cardinality(candidates)]
<1> DEFINE n == Cardinality(candidates)
           R == PackingOrder(candidates)
<1>1. n \in Nat
  BY FS_CardinalityType
<1>2. \A k \in 1..n : Turn(candidates, R, k)
  BY PackingIsInOrder, EveryoneHasATurn
<1>3. \A i \in candidates :
        {j \in candidates : PackedBefore(candidates \cap Evidence, j, i)} = Ahead(candidates, R, i)
  BY DEF Ahead, PackingOrder
<1>4. \A k \in 1..n : Candidate(candidates, k) = InTurn(candidates, R, k)
  BY <1>3 DEF Candidate, InTurn
<1>5. \A k \in 1..n : Candidate(candidates, k) \in candidates
  BY <1>2, <1>4 DEF Turn
<1> DEFINE step == [p \in (SUBSET candidates) \X (1..n) |->
                      LET more == p[1] \cup {Candidate(candidates, p[2])}
                      IN IF TextLength(candidates, more, known) <= max_chars
                         THEN more ELSE p[1]]
<1>6. step \in [(SUBSET candidates) \X (1..n) -> SUBSET candidates]
  BY <1>5
<1>7. PICK f : Turns(f, SUBSET candidates, {}, step, n)
  <2> HIDE DEF step, n
  <2>1. {} \in SUBSET candidates
    OBVIOUS
  <2>. QED
    BY <1>1, <1>6, <2>1, Recursion
<1>8. Packing(f, candidates, known, max_chars)
  <2>1. f \in [0..n -> SUBSET candidates] /\ f[0] = {}
    BY <1>7 DEF Turns
  <2>2. ASSUME NEW k \in 1..n
        PROVE  f[k] = LET more == f[k - 1] \cup {Candidate(candidates, k)}
                      IN IF TextLength(candidates, more, known) <= max_chars
                         THEN more ELSE f[k - 1]
    <3>1. f[k - 1] \in SUBSET candidates
      BY <1>1, <2>1
    <3>2. f[k] = step[<<f[k - 1], k>>]
      BY <1>7 DEF Turns
    <3>. QED
      BY <3>1, <3>2
  <2> HIDE DEF step
  <2>. QED
    BY <1>1, <2>1, <2>2 DEF Packing
<1>9. PICK pack : pack = CHOOSE g : Packing(g, candidates, known, max_chars)
  OBVIOUS
<1>10. Packing(pack, candidates, known, max_chars)
  BY <1>8, <1>9
<1>11. Packed(candidates, known, max_chars) = pack[n]
  BY <1>9 DEF Packed, Packing
<1>12. pack \in [0..n -> SUBSET candidates]
  <2> DEFINE T == {k \in 0..n : pack[k] \in SUBSET candidates}
  <2>1. 0 \in T
    BY <1>1, <1>10 DEF Packing
  <2>2. ASSUME NEW k \in 0..(n - 1), k \in T PROVE k + 1 \in T
    <3>1. pack[k + 1] \in {pack[k], pack[k] \cup {Candidate(candidates, k + 1)}}
      <4>1. k + 1 \in 0..n /\ k + 1 # 0 /\ (k + 1) - 1 = k
        BY <1>1
      <4>. QED
        BY <1>10, <4>1 DEF Packing
    <3>2. Candidate(candidates, k + 1) \in candidates
      BY <1>1, <1>5
    <3>. QED
      BY <1>1, <2>2, <3>1, <3>2
  <2>3. 0..n \subseteq T
    <3> HIDE DEF T, n
    <3>. QED
      BY <1>1, <2>1, <2>2, LoopInduction
  <2>4. DOMAIN pack = 0..n /\ pack = [k \in 0..n |-> pack[k]]
    BY <1>10 DEF Packing
  <2>. QED
    BY <2>3, <2>4
<1>. QED
  BY <1>10, <1>11, <1>12

\* What is left out did not fit beside some of those before it that are in.
Greedy(candidates, known, max_chars, selected) ==
  /\ selected \in SUBSET candidates
  /\ \A i \in candidates \ selected :
       \E taken \in SUBSET {j \in selected : PackedBefore(candidates \cap Evidence, j, i)} :
         ~ TextLength(candidates, taken \cup {i}, known) <= max_chars

LEMMA LeftOutDidNotFit ==
  ASSUME NEW candidates \in SUBSET (Row \cup Probe), IsFiniteSet(candidates),
         NEW known, NEW max_chars
  PROVE  Greedy(candidates, known, max_chars, Packed(candidates, known, max_chars))
<1>0. PICK selected : selected = Packed(candidates, known, max_chars)
  OBVIOUS
<1> DEFINE n == Cardinality(candidates)
           R == PackingOrder(candidates)
<1>1. PICK pack \in [0..n -> SUBSET candidates] :
        Packing(pack, candidates, known, max_chars) /\ selected = pack[n]
  BY <1>0, PackedByPacking
<1>2. /\ n \in Nat
      /\ Seen(candidates, R, 0) = {}
      /\ \A k \in 1..n : Turn(candidates, R, k)
      /\ \A i \in candidates : \E k \in 1..n : i = InTurn(candidates, R, k)
  BY PackingIsInOrder, EveryoneHasATurn, FS_CardinalityType
<1>3. \A i \in candidates :
        {j \in candidates : PackedBefore(candidates \cap Evidence, j, i)} = Ahead(candidates, R, i)
  BY DEF Ahead, PackingOrder
<1>4. \A k \in 1..n : Candidate(candidates, k) = InTurn(candidates, R, k)
  BY <1>3 DEF Candidate, InTurn
<1> HIDE DEF n, R
<1>5. pack[0] = {}
  BY <1>1, <1>2 DEF Packing, n
<1>6. ASSUME NEW k \in 1..n
      PROVE  pack[k] = IF TextLength(candidates, pack[k - 1] \cup {InTurn(candidates, R, k)}, known)
                            <= max_chars
                       THEN pack[k - 1] \cup {InTurn(candidates, R, k)} ELSE pack[k - 1]
  <2>1. k \in 0..n /\ k # 0
    BY <1>2
  <2>. QED
    BY <1>1, <1>4, <2>1 DEF Packing, n
<1>7. \A k \in 0..n : pack[k] \subseteq Seen(candidates, R, k)
  <2> DEFINE T == {k \in 0..n : pack[k] \subseteq Seen(candidates, R, k)}
  <2>1. 0 \in T
    BY <1>2, <1>5
  <2>2. ASSUME NEW k \in 0..(n - 1), k \in T PROVE k + 1 \in T
    <3>1. PICK m \in 1..n : m = k + 1 /\ m - 1 = k
      BY <1>2
    <3>2. pack[m] \subseteq pack[k] \cup {InTurn(candidates, R, m)}
      BY <1>6, <3>1
    <3>3. Seen(candidates, R, m) = Seen(candidates, R, k) \cup {InTurn(candidates, R, m)}
      BY <1>2, <3>1 DEF Turn
    <3>. QED
      BY <1>2, <2>2, <3>1, <3>2, <3>3
  <2>3. 0..n \subseteq T
    <3> HIDE DEF T
    <3>. QED
      BY <1>2, <2>1, <2>2, LoopInduction
  <2>. QED
    BY <2>3
<1>8. \A k \in 0..n : pack[k] \subseteq pack[n]
  <2> DEFINE T == {m \in 0..n : \A k \in 0..m : pack[k] \subseteq pack[m]}
  <2>1. 0 \in T
    BY <1>2
  <2>2. ASSUME NEW k \in 0..(n - 1), k \in T PROVE k + 1 \in T
    <3>1. PICK m \in 1..n : m = k + 1 /\ m - 1 = k
      BY <1>2
    <3>2. pack[k] \subseteq pack[m]
      BY <1>6, <3>1
    <3>3. \A l \in 0..m : l \in 0..k \/ l = m
      BY <1>2, <3>1
    <3>. QED
      BY <1>2, <2>2, <3>1, <3>2, <3>3
  <2>3. 0..n \subseteq T
    <3> HIDE DEF T
    <3>. QED
      BY <1>2, <2>1, <2>2, LoopInduction
  <2>. QED
    BY <1>2, <2>3
<1>9. ASSUME NEW i \in candidates \ selected
      PROVE  \E taken \in SUBSET {j \in selected :
                                    PackedBefore(candidates \cap Evidence, j, i)} :
               ~ TextLength(candidates, taken \cup {i}, known) <= max_chars
  <2>1. PICK k \in 1..n : i = InTurn(candidates, R, k)
    BY <1>2
  <2>2. k - 1 \in 0..n /\ k \in 0..n
    BY <1>2
  <2>3. ~ TextLength(candidates, pack[k - 1] \cup {i}, known) <= max_chars
    <3>1. i \notin pack[k]
      BY <1>1, <1>8, <1>9, <2>2
    <3>. QED
      BY <1>6, <2>1, <3>1
  <2>4. pack[k - 1] \subseteq Ahead(candidates, R, i)
    BY <1>2, <1>7, <2>1, <2>2 DEF Turn
  <2>5. pack[k - 1] \subseteq selected
    BY <1>1, <1>8, <2>2
  <2>6. pack[k - 1] \in SUBSET {j \in selected : PackedBefore(candidates \cap Evidence, j, i)}
    BY <1>3, <2>4, <2>5 DEF Ahead
  <2>. QED
    BY <2>3, <2>6
<1>10. selected \in SUBSET candidates
  BY <1>1, <1>2
<1>. QED
  BY <1>0, <1>9, <1>10 DEF Greedy

\* A section that lists more is longer, and one that lists something is if its
\* lines are no shorter than the one in place of them.
LEMMA SectionGrows ==
  ASSUME NEW S \in SUBSET (Row \cup Probe), IsFiniteSet(S),
         NEW U \in SUBSET S, NEW T \in SUBSET U,
         T # {} \/ U = {} \/ \A i \in S : OmittedLine <= Line[i]
  PROVE  /\ Section(S, T) \in Nat /\ Section(S, U) \in Nat
         /\ Section(S, T) <= Section(S, U)
<1>1. \A i \in S : Line[i] \in Nat
  BY CandidateTypes
<1>2. OmittedLine \in Nat /\ NoneLine \in Nat
  BY BriefAssumption
<1>3. \A V \in SUBSET S : Total(Line, V) \in Nat
  BY <1>1, TotalOfAll
<1>4. \A V : Section(S, V) = IF V # {} THEN Total(Line, V)
                             ELSE IF S # {} THEN OmittedLine ELSE NoneLine
  BY DEF Section, Total
<1>5. Section(S, T) \in Nat /\ Section(S, U) \in Nat
  BY <1>2, <1>3, <1>4
<1>6. \A V \in SUBSET U : Total(Line, V) <= Total(Line, U)
  BY <1>1, TotalGrows
<1>7. CASE T # {} \/ U = {}
  BY <1>2, <1>3, <1>4, <1>6, <1>7
<1>8. CASE T = {} /\ U # {}
  <2>1. PICK i \in U : OmittedLine <= Line[i]
    BY <1>8
  <2>2. Total(Line, {i}) = Line[i]
    <3>1. Total(Line, {}) = 0 /\ Total(Line, {} \cup {i}) = Total(Line, {}) + Line[i]
      BY <1>1, TotalOfAll
    <3>2. {} \cup {i} = {i} /\ Line[i] \in Nat
      BY <1>1
    <3>. QED
      BY <3>1, <3>2
  <2>3. Line[i] <= Total(Line, U)
    BY <1>6, <2>2
  <2>4. Section(S, T) = OmittedLine /\ Section(S, U) = Total(Line, U)
    BY <1>4, <1>8
  <2>. QED
    BY <1>1, <1>2, <1>3, <1>5, <2>1, <2>3, <2>4
<1>. QED
  BY <1>5, <1>7, <1>8

AddedLength(delta) == IF delta = {} THEN NoneLine ELSE AddedLine * Cardinality(delta)

LEMMA AddedGrows ==
  ASSUME NEW U, IsFiniteSet(U), NEW T \in SUBSET U
  PROVE  /\ AddedLength(T) \in Nat /\ AddedLength(U) \in Nat
         /\ AddedLength(T) <= AddedLength(U)
<1>1. AddedLine \in Nat /\ NoneLine \in Nat /\ NoneLine <= AddedLine
  BY BriefAssumption
<1>2. PICK m \in Nat, n \in Nat : m = Cardinality(T) /\ n = Cardinality(U) /\ m <= n
  BY FS_Subset, FS_CardinalityType
<1>3. AddedLine * m \in Nat /\ AddedLine * n \in Nat
  BY <1>1
<1>4. AddedLine * m <= AddedLine * n
  <2>1. PICK d \in Nat : d = n - m /\ n = m + d
    BY <1>2
  <2>2. AddedLine * (m + d) = AddedLine * m + AddedLine * d /\ AddedLine * d \in Nat
    BY <1>1
  <2>. QED
    BY <1>3, <2>1, <2>2
<1>5. U # {} => AddedLine <= AddedLine * n
  <2>1. SUFFICES ASSUME U # {} PROVE AddedLine <= AddedLine * n
    OBVIOUS
  <2>2. n # 0
    BY <1>2, <2>1, FS_EmptySet
  <2>3. PICK d \in Nat : n = 1 + d
    BY <1>2, <2>2
  <2>4. AddedLine * (1 + d) = AddedLine + AddedLine * d /\ AddedLine * d \in Nat
    BY <1>1
  <2>. QED
    BY <1>1, <2>3, <2>4
<1>. QED
  BY <1>1, <1>2, <1>3, <1>4, <1>5 DEF AddedLength

\* A text that cites more is longer, unless what it has more are the first of
\* its probes.
LEMMA LengthGrows ==
  ASSUME NEW candidates \in SUBSET (Row \cup Probe), IsFiniteSet(candidates), NEW known,
         NEW U \in SUBSET candidates, NEW T \in SUBSET U,
         T \cap Probe = {} => U \cap Probe = {}
  PROVE  /\ TextLength(candidates, T, known) \in Nat
         /\ TextLength(candidates, U, known) \in Nat
         /\ TextLength(candidates, T, known) <= TextLength(candidates, U, known)
<1>1. \A S : IsFiniteSet(candidates \cap S)
  BY FS_Intersection
<1>2. PICK a1, a2 : /\ a1 = Section(candidates \cap Evidence, T \cap Evidence)
                    /\ a2 = Section(candidates \cap Evidence, U \cap Evidence)
  OBVIOUS
<1>3. a1 \in Nat /\ a2 \in Nat /\ a1 <= a2
  <2>1. \A i \in candidates \cap Evidence : OmittedLine <= Line[i]
    BY CandidateTypes DEF Row
  <2>2. /\ candidates \cap Evidence \in SUBSET (Row \cup Probe)
        /\ U \cap Evidence \in SUBSET (candidates \cap Evidence)
        /\ T \cap Evidence \in SUBSET (U \cap Evidence)
    OBVIOUS
  <2>. QED
    BY <1>1, <1>2, <2>1, <2>2, SectionGrows
<1>4. PICK b1, b2 : /\ b1 = Section(candidates \cap Coverage, T \cap Coverage)
                    /\ b2 = Section(candidates \cap Coverage, U \cap Coverage)
  OBVIOUS
<1>5. b1 \in Nat /\ b2 \in Nat /\ b1 <= b2
  <2>1. \A i \in candidates \cap Coverage : OmittedLine <= Line[i]
    BY CandidateTypes DEF Row
  <2>2. /\ candidates \cap Coverage \in SUBSET (Row \cup Probe)
        /\ U \cap Coverage \in SUBSET (candidates \cap Coverage)
        /\ T \cap Coverage \in SUBSET (U \cap Coverage)
    OBVIOUS
  <2>. QED
    BY <1>1, <1>4, <2>1, <2>2, SectionGrows
<1>6. PICK c1, c2 : /\ c1 = Section(candidates \cap Probe, T \cap Probe)
                    /\ c2 = Section(candidates \cap Probe, U \cap Probe)
  OBVIOUS
<1>7. c1 \in Nat /\ c2 \in Nat /\ c1 <= c2
  <2>1. /\ candidates \cap Probe \in SUBSET (Row \cup Probe)
        /\ U \cap Probe \in SUBSET (candidates \cap Probe)
        /\ T \cap Probe \in SUBSET (U \cap Probe)
    OBVIOUS
  <2>. QED
    BY <1>1, <1>6, <2>1, SectionGrows
<1>8. PICK d1, d2 : d1 = AddedLength(Delta(T, known)) /\ d2 = AddedLength(Delta(U, known))
  OBVIOUS
<1>9. d1 \in Nat /\ d2 \in Nat /\ d1 <= d2
  <2>1. Delta(T, known) \in SUBSET Delta(U, known) /\ Delta(U, known) \in SUBSET candidates
    BY DEF Delta
  <2>2. IsFiniteSet(Delta(U, known))
    BY <2>1, FS_Subset
  <2>. QED
    BY <1>8, <2>1, <2>2, AddedGrows
<1>10. /\ TextLength(candidates, T, known) = Header + a1 + b1 + c1 + d1
       /\ TextLength(candidates, U, known) = Header + a2 + b2 + c2 + d2
  BY <1>2, <1>4, <1>6, <1>8 DEF TextLength, AddedLength
<1>11. Header \in Nat
  BY BriefAssumption
<1>. QED
  BY <1>3, <1>5, <1>7, <1>9, <1>10, <1>11

\* A brief holds and omits what was read, and adds to what the client was
\* told all it holds beyond the brief before.
LEMMA GenerateKeeps ==
  ASSUME BriefTypeOK, DeltasCoverBrief, Generate
  PROVE  BriefTypeOK' /\ DeltasCoverBrief'
<1> DEFINE c == reading.case_id
<1>1. PICK call : call = reading
  OBVIOUS
<1>2. /\ call.case_id \in Case /\ call.max_chars \in MaxChars
      /\ call.evidence \in SUBSET Evidence /\ call.coverage \in SUBSET Coverage
  BY <1>1 DEF Generate, BriefTypeOK
<1>3. PICK d \in Case : d = call.case_id
  BY <1>2
<1>4. Candidates(call) \in SUBSET (Row \cup Probe)
  BY <1>2 DEF Candidates, BriefTypeOK, Row
<1>5. PICK known \in SUBSET Row : known = Known(d)
  BY DEF Known, BriefTypeOK, CaseBrief
<1>6. PICK selected : selected = Packed(Candidates(call), known, call.max_chars)
  OBVIOUS
<1> DEFINE delta == Delta(selected, known)
           omitted == Candidates(call) \ selected
           revision == IF briefs[d] = None THEN 1 ELSE briefs[d].revision + 1
<1>7. PICK b : b = [revision |-> revision, included |-> selected \cap Row, delta |-> delta,
                    probes |-> selected \cap Probe, omitted |-> omitted, known |-> known,
                    max_chars |-> call.max_chars]
  OBVIOUS
<1>8. /\ briefs' = [briefs EXCEPT ![d] = b]
      /\ told' = [told EXCEPT ![d] = @ \cup delta]
      /\ reading' = None /\ pending' = pending
  BY <1>1, <1>3, <1>5, <1>6, <1>7, Zenon DEF Generate
<1>9. revision \in Nat
  BY DEF BriefTypeOK, CaseBrief
<1>10. delta \in SUBSET Row /\ selected \cap Row \subseteq known \cup delta
  BY DEF Delta
<1>11. b \in CaseBrief
  BY <1>2, <1>4, <1>7, <1>9, <1>10 DEF CaseBrief
<1>12. BriefTypeOK'
  BY <1>8, <1>10, <1>11 DEF BriefTypeOK
<1>13. DeltasCoverBrief'
  <2>1. SUFFICES ASSUME NEW e \in Case, briefs'[e] # None
                 PROVE  briefs'[e].included \subseteq told'[e]
    BY DEF DeltasCoverBrief
  <2>2. CASE e # d
    BY <1>8, <2>1, <2>2 DEF BriefTypeOK, DeltasCoverBrief
  <2>3. CASE e = d
    <3>1. b.included = selected \cap Row
      BY <1>7
    <3>2. known \subseteq told[d]
      BY <1>5 DEF Known, DeltasCoverBrief
    <3>. QED
      BY <1>8, <1>10, <2>3, <3>1, <3>2 DEF BriefTypeOK
  <2>. QED
    BY <2>2, <2>3
<1>. QED
  BY <1>12, <1>13

LEMMA BriefStepKeeps ==
  ASSUME TableTypeOK, BriefTypeOK, DeltasCoverBrief, [Next]_vars
  PROVE  BriefTypeOK' /\ DeltasCoverBrief'
<1>1. CASE UNCHANGED briefVars
  BY <1>1 DEF briefVars, BriefTypeOK, DeltasCoverBrief
<1>2. CASE ReadEvidence \/ ReadCoverage
  BY <1>2, ReadingTyped DEF ReadEvidence, ReadCoverage, DeltasCoverBrief
<1>3. CASE Generate
  BY <1>3, GenerateKeeps
<1>4. CASE TooSmall
  BY <1>4 DEF TooSmall, BriefTypeOK, DeltasCoverBrief
<1>5. CASE Forget
  BY <1>5 DEF Forget, BriefTypeOK, DeltasCoverBrief
<1>. QED
  BY <1>1, <1>2, <1>3, <1>4, <1>5
     DEF Next, TableStep, PagingStep, BriefStep, BriefNext, Restart, vars

-----------------------------------------------------------------------------
(***************************************************************************)
(* Theorems                                                                *)
(***************************************************************************)
WorkspaceInv == TypeOK /\ PagesInv /\ DeltasCoverBrief

LEMMA InitHolds == Init => WorkspaceInv
<1> SUFFICES ASSUME Init PROVE WorkspaceInv
  OBVIOUS
<1>1. TableTypeOK
  BY EvidenceTableAssumption DEF Init, TableInit, TableTypeOK
<1>2. PagingTypeOK /\ PagesInv
  BY DEF Init, PagingTypeOK, PagesInv
<1>3. Pending \in [Case -> SUBSET Probe]
  BY BriefAssumption DEF Probe
<1>4. BriefTypeOK /\ DeltasCoverBrief
  BY <1>3 DEF Init, BriefInit, BriefTypeOK, DeltasCoverBrief
<1>. QED
  BY <1>1, <1>2, <1>4 DEF WorkspaceInv, TypeOK

LEMMA StepHolds == WorkspaceInv /\ [Next]_vars => WorkspaceInv'
<1> SUFFICES ASSUME WorkspaceInv, [Next]_vars PROVE WorkspaceInv'
  OBVIOUS
<1>1. [TableNext]_tableVars
  BY DEF Next, TableStep, PagingStep, BriefStep, Restart, vars
<1>2. TableTypeOK'
  BY <1>1, TableTyped DEF WorkspaceInv, TypeOK
<1>3. PagingTypeOK' /\ PagesInv'
  BY <1>2, ListingStep DEF WorkspaceInv, TypeOK
<1>4. BriefTypeOK' /\ DeltasCoverBrief'
  BY BriefStepKeeps DEF WorkspaceInv, TypeOK
<1>. QED
  BY <1>2, <1>3, <1>4 DEF WorkspaceInv, TypeOK

\* Every reachable state of Workspace is well typed; prune's slots never
\* become negative (retention.py:56).
THEOREM TypeCorrect == Spec => []TypeOK
<1>1. WorkspaceInv => TypeOK
  BY DEF WorkspaceInv
<1>. QED
  BY <1>1, InitHolds, StepHolds, PTL DEF Spec

\* The invariant of listings: where their items lie with respect to the
\* offset of the cursor (mcp_server.py:226-364).
THEOREM PagesHold == Spec => []PagesInv
<1>1. WorkspaceInv => PagesInv
  BY DEF WorkspaceInv
<1>. QED
  BY <1>1, InitHolds, StepHolds, PTL DEF Spec

\* For any rows, filters, page sizes and batches: what a finished listing
\* skipped was tied in captured_at with a deleted row.
THEOREM SkippedOnlyTies == Spec => []SkippedOnlyInATie
<1>1. WorkspaceInv => SkippedOnlyInATie
  <2>1. SUFFICES ASSUME WorkspaceInv, listing # None, listing.done,
                        NEW x \in (listing.start \cap Items(listing.of, rows)) \ listing.shown
                 PROVE  \E d \in listing.removed : captured_at[d] = captured_at[x]
    BY DEF SkippedOnlyInATie
  <2>2. PICK p \in Progress : listing = p
    BY <2>1 DEF WorkspaceInv, TypeOK, PagingTypeOK
  <2>3. Unshown(p) /\ OnlyTies(p)
    BY <2>1, <2>2 DEF WorkspaceInv, PagesInv, PageInv
  <2>. QED
    BY <2>1, <2>2, <2>3 DEF Unshown, OnlyTies
<1>. QED
  BY <1>1, InitHolds, StepHolds, PTL DEF Spec

\* For any rows, filters and page sizes: what is shown twice stood behind an
\* insertion.
THEOREM TwiceOnlyShifted == Spec => []TwiceOnlyBehindAnInsertion
<1>1. WorkspaceInv => TwiceOnlyBehindAnInsertion
  <2>1. SUFFICES ASSUME WorkspaceInv, listing # None, NEW x \in listing.twice
                 PROVE  \E a \in listing.added : Precedes(listing.of, a, x)
    BY DEF TwiceOnlyBehindAnInsertion
  <2>2. PICK p \in Progress : listing = p
    BY <2>1 DEF WorkspaceInv, TypeOK, PagingTypeOK
  <2>3. Repeated(p)
    BY <2>1, <2>2 DEF WorkspaceInv, PagesInv, PageInv
  <2>. QED
    BY <2>1, <2>2, <2>3 DEF Repeated
<1>. QED
  BY <1>1, InitHolds, StepHolds, PTL DEF Spec

\* For any cases, rows and budgets: the deltas since revision 1 add up to
\* what the latest brief cites.
THEOREM DeltasCover == Spec => []DeltasCoverBrief
<1>1. WorkspaceInv => DeltasCoverBrief
  BY DEF WorkspaceInv
<1>. QED
  BY <1>1, InitHolds, StepHolds, PTL DEF Spec

-----------------------------------------------------------------------------
(***************************************************************************)
(* What a brief leaves out                                                 *)
(***************************************************************************)

\* A brief tells what it was packed from.
IsPacked(b) ==
  /\ CandidatesOf(b) \in SUBSET (Row \cup Probe) /\ IsFiniteSet(CandidatesOf(b))
  /\ b.included \cup b.probes = Packed(CandidatesOf(b), b.known, b.max_chars)
  /\ b.omitted \cap (b.included \cup b.probes) = {}
  /\ TextLength(CandidatesOf(b), b.included \cup b.probes, b.known) <= b.max_chars

BriefsPacked ==
  /\ \A c \in Case : pending[c] \subseteq Pending[c]
  /\ \A c \in Case : briefs[c] # None => IsPacked(briefs[c])

\* What is left out of a brief did not fit beside some of those before it.
LEMMA OmittedDidNotFit ==
  ASSUME NEW b \in CaseBrief, IsPacked(b), NEW i \in b.omitted
  PROVE  \E taken \in SUBSET {j \in b.included \cup b.probes :
                                PackedBefore(CandidatesOf(b) \cap Evidence, j, i)} :
           TextLength(CandidatesOf(b), taken \cup {i}, b.known) > b.max_chars
<1>1. PICK candidates : candidates = CandidatesOf(b)
  OBVIOUS
<1>2. candidates \in SUBSET (Row \cup Probe) /\ IsFiniteSet(candidates)
  BY <1>1 DEF IsPacked
<1>3. PICK selected : selected = b.included \cup b.probes
  OBVIOUS
<1>4. selected = Packed(candidates, b.known, b.max_chars)
  BY <1>1, <1>3 DEF IsPacked
<1>5. i \in candidates \ selected
  BY <1>1, <1>3 DEF IsPacked, CandidatesOf
<1>6. PICK taken \in SUBSET {j \in selected : PackedBefore(candidates \cap Evidence, j, i)} :
        ~ TextLength(candidates, taken \cup {i}, b.known) <= b.max_chars
  <2>1. Greedy(candidates, b.known, b.max_chars, selected)
    BY <1>2, <1>4, LeftOutDidNotFit
  <2>. QED
    BY <1>5, <2>1 DEF Greedy
<1>7. selected \in SUBSET candidates
  BY <1>1, <1>3 DEF CandidatesOf
<1>8. TextLength(candidates, taken \cup {i}, b.known) \in Nat
  <2>1. PICK T : T = taken \cup {i}
    OBVIOUS
  <2>2. T \in SUBSET candidates
    BY <1>5, <1>6, <1>7, <2>1
  <2>3. TextLength(candidates, T, b.known) \in Nat
    BY <1>2, <2>2, LengthGrows
  <2>. QED
    BY <2>1, <2>3
<1>9. b.max_chars \in Nat
  BY BriefAssumption DEF CaseBrief
<1>10. TextLength(candidates, taken \cup {i}, b.known) > b.max_chars
  BY <1>6, <1>8, <1>9
<1>. QED
  BY <1>1, <1>3, <1>6, <1>10

\* Nor, then, beside more of them.
LEMMA NorBesideMore ==
  ASSUME NEW b \in CaseBrief, IsPacked(b), NEW i \in b.omitted,
         NEW more \in SUBSET (b.included \cup b.probes),
         \A j \in b.included \cup b.probes :
           PackedBefore(CandidatesOf(b) \cap Evidence, j, i) => j \in more,
         i \notin Probe => more \cap Probe = {}
  PROVE  TextLength(CandidatesOf(b), more \cup {i}, b.known) > b.max_chars
<1>1. PICK taken \in SUBSET {j \in b.included \cup b.probes :
                               PackedBefore(CandidatesOf(b) \cap Evidence, j, i)} :
        TextLength(CandidatesOf(b), taken \cup {i}, b.known) > b.max_chars
  BY OmittedDidNotFit
<1>2. PICK candidates : candidates = CandidatesOf(b)
  OBVIOUS
<1>3. candidates \in SUBSET (Row \cup Probe) /\ IsFiniteSet(candidates)
  BY <1>2 DEF IsPacked
<1>4. PICK T, U : T = taken \cup {i} /\ U = more \cup {i}
  OBVIOUS
<1>5. U \in SUBSET candidates /\ T \in SUBSET U
  BY <1>1, <1>2, <1>4 DEF CandidatesOf
<1>6. T \cap Probe = {} => U \cap Probe = {}
  BY <1>4
<1>7. /\ TextLength(candidates, T, b.known) \in Nat
      /\ TextLength(candidates, U, b.known) \in Nat
      /\ TextLength(candidates, T, b.known) <= TextLength(candidates, U, b.known)
  BY <1>3, <1>5, <1>6, LengthGrows
<1>8. b.max_chars \in Nat
  BY BriefAssumption DEF CaseBrief
<1>9. TextLength(candidates, T, b.known) > b.max_chars
  BY <1>1, <1>2, <1>4
<1>10. TextLength(candidates, U, b.known) > b.max_chars
  BY <1>7, <1>8, <1>9
<1>. QED
  BY <1>2, <1>4, <1>10

LEMMA PackedFillsBudget ==
  ASSUME NEW b \in CaseBrief, IsPacked(b)
  PROVE  /\ \A i \in b.omitted \cap Row :
              TextLength(CandidatesOf(b), b.included \cup {i}, b.known) > b.max_chars
         /\ \A i \in b.omitted \cap Probe :
              TextLength(CandidatesOf(b), b.included \cup b.probes \cup {i}, b.known)
                > b.max_chars
<1>1. /\ b.included \in SUBSET Row /\ b.probes \in SUBSET Probe /\ Row \cap Probe = {}
      /\ b.omitted \in SUBSET (Row \cup Probe)
  BY CandidateTypes DEF CaseBrief
<1>2. ASSUME NEW i \in b.omitted \cap Row
      PROVE  TextLength(CandidatesOf(b), b.included \cup {i}, b.known) > b.max_chars
  <2>1. i \notin Probe /\ (i \in Evidence \/ i \in Coverage)
    BY <1>1, <1>2 DEF Row
  <2>2. ASSUME NEW j \in b.included \cup b.probes,
               PackedBefore(CandidatesOf(b) \cap Evidence, j, i)
        PROVE  j \in b.included
    <3>1. CASE j \in b.probes
      <4>1. j \in Probe /\ j \notin Evidence /\ j \notin Coverage
        BY <1>1, <3>1 DEF Row
      <4>. QED
        BY <2>1, <2>2, <4>1 DEF PackedBefore
    <3>. QED
      BY <3>1
  <2>3. b.included \in SUBSET (b.included \cup b.probes) /\ b.included \cap Probe = {}
    BY <1>1
  <2>. QED
    BY <2>2, <2>3, NorBesideMore
<1>3. ASSUME NEW i \in b.omitted \cap Probe
      PROVE  TextLength(CandidatesOf(b), b.included \cup b.probes \cup {i}, b.known)
               > b.max_chars
  <2>1. b.included \cup b.probes \in SUBSET (b.included \cup b.probes)
    OBVIOUS
  <2>. QED
    BY <1>3, <2>1, NorBesideMore
<1>. QED
  BY <1>2, <1>3

\* The best row of a category that is left out did not fit beside the others.
Diverse(b, E, best) ==
  \A j \in b.omitted \cap best :
    TextLength(CandidatesOf(b), (best \cap b.included) \cup {j}, b.known) > b.max_chars

LEMMA PackedIsDiverse ==
  ASSUME NEW b \in CaseBrief, IsPacked(b), NEW E, E = CandidatesOf(b) \cap Evidence
  PROVE  Diverse(b, E, {i \in E : Round(E, i) = 0})
<1>0. SUFFICES ASSUME NEW best, best = {i \in E : Round(E, i) = 0},
                      NEW j \in b.omitted \cap best
               PROVE  TextLength(CandidatesOf(b), (best \cap b.included) \cup {j}, b.known)
                        > b.max_chars
  BY DEF Diverse
<1>1. /\ b.included \in SUBSET Row /\ b.probes \in SUBSET Probe /\ Row \cap Probe = {}
  BY CandidateTypes DEF CaseBrief
<1>2. j \in Evidence /\ j \notin Probe /\ j \notin Coverage /\ Round(E, j) = 0
  <2>1. j \in Evidence /\ j \in Row
    BY <1>0 DEF Row
  <2>. QED
    BY <1>0, <1>1, <2>1, EvidenceTableAssumption
<1>3. E \in SUBSET Evidence
  OBVIOUS
<1>4. ASSUME NEW k \in b.included \cup b.probes,
             PackedBefore(CandidatesOf(b) \cap Evidence, k, j)
      PROVE  k \in best \cap b.included
  <2>1. k \in Evidence /\ RankedBefore(E, k, j)
    BY <1>0, <1>2, <1>4 DEF PackedBefore
  <2>2. k \in b.included
    BY <1>1, <2>1 DEF Row
  <2>3. k \in E
    BY <1>0, <2>1, <2>2 DEF CandidatesOf
  <2>4. Round(E, k) \in Nat
    BY <1>3, RoundsAreNatural
  <2>5. Round(E, k) = 0
    BY <1>0, <1>2, <2>1, <2>4 DEF RankedBefore
  <2>. QED
    BY <1>0, <2>2, <2>3, <2>5
<1>5. /\ best \cap b.included \in SUBSET (b.included \cup b.probes)
      /\ (best \cap b.included) \cap Probe = {}
  BY <1>1
<1>. QED
  BY <1>0, <1>2, <1>4, <1>5, NorBesideMore

\* What a brief is packed from is finite.
LEMMA CandidatesAreFinite ==
  ASSUME BriefTypeOK, BriefsPacked, reading # None, reading.coverage # None
  PROVE  /\ Candidates(reading) \in SUBSET (Row \cup Probe)
         /\ IsFiniteSet(Candidates(reading))
<1>1. PICK call : call = reading
  OBVIOUS
<1>2. /\ call.case_id \in Case
      /\ call.evidence \in SUBSET Evidence /\ call.coverage \in SUBSET Coverage
  BY <1>1 DEF BriefTypeOK
<1>3. PICK d \in Case : d = call.case_id
  BY <1>2
<1>4. PICK candidates : candidates = Candidates(call)
  OBVIOUS
<1>5. candidates \in SUBSET (Row \cup Probe)
  BY <1>2, <1>4 DEF Candidates, BriefTypeOK, Row
<1>6. IsFiniteSet(candidates)
  <2>1. IsFiniteSet(Pending[d]) /\ pending[d] \in SUBSET Pending[d]
    BY BriefAssumption DEF BriefsPacked
  <2>2. IsFiniteSet(pending[d])
    BY <2>1, FS_Subset
  <2>3. call.evidence \cup call.coverage \in SUBSET Row
    BY <1>2 DEF Row
  <2>4. IsFiniteSet(call.evidence \cup call.coverage)
    BY <2>3, RowsAreFinite
  <2>. QED
    BY <1>3, <1>4, <2>2, <2>4, FS_Union DEF Candidates
<1>. QED
  BY <1>1, <1>4, <1>5, <1>6

LEMMA GenerateKeepsPacked ==
  ASSUME BriefTypeOK, BriefsPacked, Generate
  PROVE  BriefsPacked'
<1>1. PICK call : call = reading
  OBVIOUS
<1>2. /\ call.case_id \in Case /\ call.max_chars \in MaxChars
      /\ call.evidence \in SUBSET Evidence /\ call.coverage \in SUBSET Coverage
  BY <1>1 DEF Generate, BriefTypeOK
<1>3. PICK d \in Case : d = call.case_id
  BY <1>2
<1>4. PICK candidates : candidates = Candidates(call)
  OBVIOUS
<1>5. candidates \in SUBSET (Row \cup Probe)
  BY <1>1, <1>4, CandidatesAreFinite DEF Generate
<1>6. IsFiniteSet(candidates)
  BY <1>1, <1>4, CandidatesAreFinite DEF Generate
<1>7. PICK known : known = Known(d)
  OBVIOUS
<1>8. PICK selected : selected = Packed(candidates, known, call.max_chars)
  OBVIOUS
<1>9. selected \in SUBSET candidates
  <2>1. Greedy(candidates, known, call.max_chars, selected)
    BY <1>5, <1>6, <1>8, LeftOutDidNotFit
  <2>. QED
    BY <2>1 DEF Greedy
<1> DEFINE revision == IF briefs[d] = None THEN 1 ELSE briefs[d].revision + 1
<1>10. PICK b : b = [revision |-> revision, included |-> selected \cap Row,
                     delta |-> Delta(selected, known), probes |-> selected \cap Probe,
                     omitted |-> candidates \ selected, known |-> known,
                     max_chars |-> call.max_chars]
  OBVIOUS
<1>11. /\ briefs' = [briefs EXCEPT ![d] = b]
       /\ TextLength(candidates, selected, known) <= call.max_chars
       /\ pending' = pending
  BY <1>1, <1>3, <1>4, <1>7, <1>8, <1>10, Zenon DEF Generate
<1>12. /\ b.included \cup b.probes = selected /\ b.omitted = candidates \ selected
       /\ b.known = known /\ b.max_chars = call.max_chars
       /\ CandidatesOf(b) = candidates
  BY <1>5, <1>9, <1>10 DEF CandidatesOf
<1>13. IsPacked(b)
  BY <1>5, <1>6, <1>8, <1>11, <1>12 DEF IsPacked
<1>14. \A c \in Case : briefs'[c] = IF c = d THEN b ELSE briefs[c]
  BY <1>11 DEF BriefTypeOK
<1>. QED
  BY <1>11, <1>13, <1>14 DEF BriefsPacked

LEMMA BriefsPackedHolds == Spec => []BriefsPacked
<1>1. Init => BriefsPacked
  BY DEF Init, BriefInit, BriefsPacked
<1>2. TypeOK /\ BriefsPacked /\ [Next]_vars => BriefsPacked'
  <2>1. SUFFICES ASSUME TypeOK, BriefsPacked, [Next]_vars PROVE BriefsPacked'
    OBVIOUS
  <2>2. CASE UNCHANGED <<briefs, pending>>
    BY <2>1, <2>2 DEF BriefsPacked
  <2>3. CASE Generate
    BY <2>1, <2>3, GenerateKeepsPacked DEF TypeOK
  <2>4. CASE Forget
    BY <2>4 DEF Forget, BriefsPacked
  <2>. QED
    BY <2>1, <2>2, <2>3, <2>4
       DEF Next, TableStep, PagingStep, BriefStep, BriefNext, Restart, vars, briefVars,
           ReadEvidence, ReadCoverage, TooSmall
<1>. QED
  BY <1>1, <1>2, TypeCorrect, PTL DEF Spec

\* A brief is within its budget and leaves out nothing that would have fitted
\* when its turn came (brief.py:126-141).
THEOREM BriefsFillTheirBudget == Spec => []BriefFillsBudget
<1>1. TypeOK /\ BriefsPacked => BriefFillsBudget
  <2>1. SUFFICES ASSUME TypeOK, BriefsPacked, NEW c \in Case, briefs[c] # None,
                        NEW b, b = briefs[c]
                 PROVE  /\ TextLength(CandidatesOf(b), b.included \cup b.probes, b.known)
                             <= b.max_chars
                        /\ \A i \in b.omitted \cap Row :
                             TextLength(CandidatesOf(b), b.included \cup {i}, b.known)
                               > b.max_chars
                        /\ \A i \in b.omitted \cap Probe :
                             TextLength(CandidatesOf(b), b.included \cup b.probes \cup {i},
                                        b.known) > b.max_chars
    BY DEF BriefFillsBudget
  <2>2. b \in CaseBrief /\ IsPacked(b)
    BY <2>1 DEF TypeOK, BriefTypeOK, BriefsPacked
  <2>3. TextLength(CandidatesOf(b), b.included \cup b.probes, b.known) <= b.max_chars
    BY <2>2 DEF IsPacked
  <2>. QED
    BY <2>2, <2>3, PackedFillsBudget
<1>. QED
  BY <1>1, TypeCorrect, BriefsPackedHolds, PTL

\* No second record of a category keeps the best of another out of a brief
\* (ranking.py:41-71, brief.py:126-129).
THEOREM BriefsAreDiverse == Spec => []DiverseBeforeDeep
<1>1. TypeOK /\ BriefsPacked => DiverseBeforeDeep
  <2>1. SUFFICES ASSUME TypeOK, BriefsPacked, NEW c \in Case, briefs[c] # None,
                        NEW b, b = briefs[c], NEW E, E = CandidatesOf(b) \cap Evidence
                 PROVE  Diverse(b, E, {i \in E : Round(E, i) = 0})
    BY DEF DiverseBeforeDeep, Diverse
  <2>2. b \in CaseBrief /\ IsPacked(b)
    BY <2>1 DEF TypeOK, BriefTypeOK, BriefsPacked
  <2>. QED
    BY <2>1, <2>2, PackedIsDiverse
<1>. QED
  BY <1>1, TypeCorrect, BriefsPackedHolds, PTL

-----------------------------------------------------------------------------
(***************************************************************************)
(* What a brief cites                                                      *)
(***************************************************************************)

\* What was read of a case are rows of it that were there.
OfCase(c, read) == \A i \in read : CaseOf[i] = c /\ i \in rows \cup gone

BriefsCite ==
  /\ reading # None => /\ OfCase(reading.case_id, reading.evidence)
                       /\ reading.coverage # None => OfCase(reading.case_id, reading.coverage)
  /\ \A c \in Case : briefs[c] # None => OfCase(c, briefs[c].included)

LEMMA RowsStay ==
  ASSUME TableTypeOK, [TableNext]_tableVars
  PROVE  \A i \in rows \cup gone : i \in rows' \cup gone'
BY DEF TableNext, tableVars, Collect, Tick, DeleteExpired, DeleteOldest, EndPrune, Delete

LEMMA GenerateCites ==
  ASSUME BriefTypeOK, BriefsPacked, BriefsCite, Generate, UNCHANGED tableVars
  PROVE  BriefsCite'
<1>1. PICK call : call = reading
  OBVIOUS
<1>2. /\ call # None /\ call.coverage # None /\ call.case_id \in Case
      /\ OfCase(call.case_id, call.evidence) /\ OfCase(call.case_id, call.coverage)
  BY <1>1 DEF Generate, BriefTypeOK, BriefsCite
<1>3. PICK d \in Case : d = call.case_id
  BY <1>2
<1>4. PICK candidates, selected : /\ candidates = Candidates(call)
                                  /\ selected = Packed(candidates, Known(d), call.max_chars)
  OBVIOUS
<1>5. PICK b : b.included = selected \cap Row /\ briefs' = [briefs EXCEPT ![d] = b]
  <2>1. PICK b : b = [revision |-> IF briefs[d] = None THEN 1 ELSE briefs[d].revision + 1,
                      included |-> selected \cap Row,
                      delta |-> Delta(selected, Known(d)), probes |-> selected \cap Probe,
                      omitted |-> candidates \ selected, known |-> Known(d),
                      max_chars |-> call.max_chars]
    OBVIOUS
  <2>2. briefs' = [briefs EXCEPT ![d] = b]
    BY <1>1, <1>3, <1>4, <2>1, Zenon DEF Generate
  <2>3. b.included = selected \cap Row
    BY <2>1
  <2>. QED
    BY <2>2, <2>3
<1>6. selected \in SUBSET candidates
  <2>1. candidates \in SUBSET (Row \cup Probe) /\ IsFiniteSet(candidates)
    BY <1>1, <1>2, <1>4, CandidatesAreFinite
  <2>2. Greedy(candidates, Known(d), call.max_chars, selected)
    BY <1>4, <2>1, LeftOutDidNotFit
  <2>. QED
    BY <2>2 DEF Greedy
<1>7. selected \cap Row \subseteq call.evidence \cup call.coverage
  <2>1. pending[d] \in SUBSET Probe /\ Probe \cap Row = {}
    BY CandidateTypes DEF BriefTypeOK
  <2>. QED
    BY <1>3, <1>4, <1>6, <2>1 DEF Candidates
<1>8. OfCase(d, b.included)
  BY <1>2, <1>3, <1>5, <1>7 DEF OfCase
<1>9. \A c \in Case : briefs'[c] = IF c = d THEN b ELSE briefs[c]
  BY <1>5 DEF BriefTypeOK
<1>10. reading' = None
  BY DEF Generate
<1>11. rows' = rows /\ gone' = gone
  BY DEF tableVars
<1>12. \A c \in Case : briefs'[c] # None =>
         \A i \in briefs'[c].included : CaseOf[i] = c /\ i \in rows' \cup gone'
  BY <1>8, <1>9, <1>11 DEF OfCase, BriefsCite
<1>. QED
  BY <1>10, <1>12 DEF BriefsCite, OfCase

\* Rows that were read stay rows of their case, in the table or deleted.
LEMMA TableKeepsCites ==
  ASSUME TableTypeOK, BriefsCite, [TableNext]_tableVars, UNCHANGED <<reading, briefs>>
  PROVE  BriefsCite'
<1>1. \A i \in rows \cup gone : i \in rows' \cup gone'
  BY RowsStay
<1>. QED
  BY <1>1 DEF BriefsCite, OfCase

LEMMA ReadingCites ==
  ASSUME BriefTypeOK, BriefsCite, ReadEvidence \/ ReadCoverage, UNCHANGED tableVars
  PROVE  BriefsCite'
<1>1. rows' = rows /\ gone' = gone /\ briefs' = briefs
  BY DEF tableVars, ReadEvidence, ReadCoverage
<1>2. \A c, S, n : \A i \in NewestRows(RowsOf(c, S), n) : CaseOf[i] = c /\ i \in rows
  BY DEF NewestRows, RowsOf
<1>3. CASE ReadEvidence
  <2>1. PICK c \in Case, n \in MaxChars :
          reading' = [case_id |-> c, max_chars |-> n, coverage |-> None,
                      evidence |-> NewestRows(RowsOf(c, Evidence), EvidenceLimit)]
    BY <1>3 DEF ReadEvidence
  <2>2. /\ reading'.case_id = c /\ reading'.coverage = None
        /\ reading'.evidence = NewestRows(RowsOf(c, Evidence), EvidenceLimit)
    BY <2>1
  <2>. QED
    BY <1>1, <1>2, <2>2 DEF BriefsCite, OfCase
<1>4. CASE ReadCoverage
  <2>1. PICK read, c : /\ read = NewestRows(RowsOf(c, Coverage), CoverageLimit)
                       /\ c = reading.case_id
    OBVIOUS
  <2>2. /\ reading # None /\ reading' = [reading EXCEPT !.coverage = read]
    BY <1>4, <2>1 DEF ReadCoverage
  <2>3. /\ reading'.case_id = c /\ reading'.coverage = read
        /\ reading'.evidence = reading.evidence
    BY <2>1, <2>2 DEF BriefTypeOK
  <2>. QED
    BY <1>1, <1>2, <2>1, <2>2, <2>3 DEF BriefsCite, OfCase
<1>. QED
  BY <1>3, <1>4

LEMMA BriefsCiteHolds == Spec => []BriefsCite
<1>1. Init => BriefsCite
  BY DEF Init, BriefInit, BriefsCite
<1>2. TypeOK /\ BriefsPacked /\ BriefsCite /\ [Next]_vars => BriefsCite'
  <2>1. SUFFICES ASSUME TypeOK, BriefsPacked, BriefsCite, [Next]_vars PROVE BriefsCite'
    OBVIOUS
  <2>2. CASE TableStep \/ PagingStep \/ UNCHANGED vars
    <3>1. [TableNext]_tableVars /\ UNCHANGED <<reading, briefs>>
      BY <2>2 DEF TableStep, PagingStep, vars, briefVars
    <3>. QED
      BY <2>1, <3>1, TableKeepsCites DEF TypeOK
  <2>3. CASE BriefStep
    <3>1. UNCHANGED tableVars
      BY <2>3 DEF BriefStep
    <3>2. CASE ReadEvidence \/ ReadCoverage
      BY <2>1, <3>1, <3>2, ReadingCites DEF TypeOK
    <3>3. CASE Generate
      BY <2>1, <3>1, <3>3, GenerateCites DEF TypeOK
    <3>4. CASE TooSmall
      BY <2>1, <3>1, <3>4 DEF TooSmall, BriefsCite, OfCase, tableVars
    <3>. QED
      BY <2>3, <3>2, <3>3, <3>4 DEF BriefStep, BriefNext
  <2>4. CASE Restart
    <3>1. reading' = None /\ \A c \in Case : briefs'[c] = None
      BY <2>4 DEF Restart, Forget
    <3>. QED
      BY <3>1 DEF BriefsCite
  <2>. QED
    BY <2>1, <2>2, <2>3, <2>4 DEF Next
<1>. QED
  BY <1>1, <1>2, TypeCorrect, BriefsPackedHolds, PTL DEF Spec

\* A brief cites rows of its case only, and an evidence record it cites can be
\* expanded until it is deleted: coverage records are the one exception to what
\* docs/testing.md promises (mcp_server.py:366-409).
THEOREM EvidenceCitationsDoExpand == Spec => []EvidenceCitationsExpand
<1>1. BriefsCite => EvidenceCitationsExpand
  BY DEF BriefsCite, OfCase, EvidenceCitationsExpand, Expandable, EvidenceRows
<1>. QED
  BY <1>1, BriefsCiteHolds, PTL

=============================================================================
