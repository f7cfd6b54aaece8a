------------------------------ MODULE Snapshots ------------------------------
(***************************************************************************)
(* The snapshot handlers of packs/runtime.py and worker.py and the         *)
(* backends they call: each asks the machine for one table after another,  *)
(* skips the rows it cannot read, and bounds what it keeps.  What a table  *)
(* holds is external; a row matters by whether it can be read, whether it  *)
(* is in the scope of the section, and its rank in the order the section   *)
(* is sorted by, 0 first.                                                  *)
(***************************************************************************)
EXTENDS Naturals, Sequences, FiniteSets

CONSTANTS
  Limit,      \* bounded section -> how many rows it keeps
  RawLimit,   \* bounded section -> how many readable rows it looks at
  MaxRows,    \* bound on the rows of a table
  Ranks       \* the ranks rows may have

Handlers == [application |-> <<"processes", "services">>,
             network     |-> <<"adapters", "connections">>,
             devices     |-> <<"devices", "drivers">>,
             servicing   |-> <<"updates", "reboot">>,
             local_ai    |-> <<"gpus", "packages">>]

Section == UNION {{Handlers[p][1], Handlers[p][2]} : p \in DOMAIN Handlers}

\* Services are asked for by four names, reboot indicators by three.
Bounded == Section \ {"services", "reboot"}

Sorted == {"adapters", "connections", "updates", "packages"}

\* Two sections ask for more rows than they keep: 4096 endpoints for 128 and
\* 10000 packages for 256.
ASSUME SnapshotsAssumption ==
  /\ Limit \in [Bounded -> Nat \ {0}] /\ RawLimit \in [Bounded -> Nat \ {0}]
  /\ \A s \in Bounded : IF s \in {"connections", "packages"} THEN RawLimit[s] >= Limit[s]
                        ELSE RawLimit[s] = Limit[s]
  /\ MaxRows \in Nat /\ Ranks \subseteq Nat

VARIABLES
  probe,        \* the handler that runs
  todo,         \* the sections it has still to ask for
  facts,        \* section -> the rows kept of it
  limitations,  \* the sections it says it could not read
  outcome,
  tables,       \* history: section -> the table it read
  denied        \* history: sections the machine refused

snapshotVars == <<probe, todo, facts, limitations, outcome, tables, denied>>

Row == [readable : BOOLEAN, inScope : BOOLEAN, rank : Ranks]

\* Only endpoints are left out for their status, only reboot indicators for
\* being off, and only four sections are sorted; nothing else is known of a row
\* that cannot be read or is out of scope.
RowOf(s) ==
  {r \in Row : /\ r.inScope \/ (r.readable /\ s \in {"connections", "reboot"})
               /\ r.rank = 0 \/ (r.readable /\ r.inScope /\ s \in Sorted)}

Table(s) == UNION {[1..n -> RowOf(s)] : n \in 0..MaxRows}

SnapshotInit ==
  /\ \E p \in DOMAIN Handlers : probe = p /\ todo = Handlers[p]
  /\ facts = [s \in {} |-> {}]
  /\ limitations = {}
  /\ outcome = "running"
  /\ tables = [s \in {} |-> <<>>]
  /\ denied = {}

Readable(t) == {i \in DOMAIN t : t[i].readable}
InScope(rows, t) == {i \in rows : t[i].inScope}

\* A stable sort by rank.
Precedes(t, i, j) == t[i].rank < t[j].rank \/ (t[i].rank = t[j].rank /\ i < j)

\* The first n of some rows, in the order of the table and in that of ranks.
First(rows, n) == {i \in rows : Cardinality({j \in rows : j < i}) < n}
Best(rows, n, t) == {i \in rows : Cardinality({j \in rows : Precedes(t, j, i)}) < n}

Processes(t) == First(Readable(t), Limit["processes"])
Services(t) == Readable(t)
Adapters(t) == Best(Readable(t), Limit["adapters"], t)
Devices(t) == First(Readable(t), Limit["devices"])
Drivers(t) == First(Readable(t), Limit["drivers"])
Gpus(t) == First(Readable(t), Limit["gpus"])
Packages(t) == Best(First(Readable(t), RawLimit["packages"]), Limit["packages"], t)

\* By installed_on, compared as text, of those the loop has got to.
Updates(t) == Best(First(Readable(t), RawLimit["updates"]), Limit["updates"], t)

\* An indicator that cannot be read counts as one that is off.
Reboot(t) == InScope(Readable(t), t)

\* Mutant: what is in scope is kept in the order it is listed.
ConnectionsUnsorted(t) ==
  First(InScope(First(Readable(t), RawLimit["connections"]), t), Limit["connections"])

\* Mutant: the rows are cut to the limit before those out of scope are left out.
ConnectionsCutFirst(t) ==
  InScope(First(Readable(t), Limit["connections"]), t)

Connections(t) ==
  Best(InScope(First(Readable(t), RawLimit["connections"]), t), Limit["connections"], t)

Kept(s, t) ==
  CASE s = "processes"   -> Processes(t)
    [] s = "services"    -> Services(t)
    [] s = "adapters"    -> Adapters(t)
    [] s = "connections" -> Connections(t)
    [] s = "devices"     -> Devices(t)
    [] s = "drivers"     -> Drivers(t)
    [] s = "updates"     -> Updates(t)
    [] s = "reboot"      -> Reboot(t)
    [] s = "gpus"        -> Gpus(t)
    [] s = "packages"    -> Packages(t)

With(f, s, v) == [x \in DOMAIN f \cup {s} |-> IF x = s THEN v ELSE f[x]]

\* A handler asks for its sections in turn; the machine has moved on in
\* between, so that each reads a table of its own.
Collect(s, t) ==
  /\ facts' = With(facts, s, Kept(s, t))
  /\ UNCHANGED <<limitations, outcome, denied>>

\* A table of endpoints that is refused reads as an empty one.
DeniedConnections(s) ==
  /\ s = "connections"
  /\ facts' = With(facts, s, {})
  /\ denied' = denied \cup {s}
  /\ UNCHANGED <<limitations, outcome>>

\* Only the services are asked for in a try: the handler goes on without.
UnavailableServices(s) ==
  /\ s = "services"
  /\ facts' = With(facts, s, {})
  /\ limitations' = limitations \cup {s}
  /\ UNCHANGED <<outcome, denied>>

\* Whatever else is raised ends the handler, and what it has read is lost.
Fail(s) ==
  /\ s # "services"
  /\ facts' = [x \in {} |-> {}]
  /\ outcome' = "failed"
  /\ UNCHANGED <<limitations, denied>>

Ask ==
  /\ outcome = "running" /\ todo # <<>>
  /\ todo' = Tail(todo)
  /\ \E s \in {Head(todo)} : \E t \in Table(s) :
       /\ tables' = With(tables, s, t)
       /\ Collect(s, t) \/ DeniedConnections(s) \/ UnavailableServices(s) \/ Fail(s)
  /\ UNCHANGED probe

Emit ==
  /\ outcome = "running" /\ todo = <<>>
  /\ outcome' = "observed"
  /\ UNCHANGED <<probe, todo, facts, limitations, tables, denied>>

SnapshotNext == Ask \/ Emit

SnapshotSpec == SnapshotInit /\ [][SnapshotNext]_snapshotVars

-----------------------------------------------------------------------------
\* The sections of what a handler emits.
Emitted == IF outcome = "observed" THEN DOMAIN facts ELSE {}

\* Where a section is sorted, a row is passed over for one that ranks behind it
\* only if the loop had stopped before it: past 4096 endpoints a listener can
\* be left out for a connection, and among updates whenever there are more
\* than the section keeps (packs/network/connections.py:58,
\* packs/servicing/history.py:85).
OutrankedOnlyBehindRawLimit ==
  \A s \in (Emitted \cap Sorted) \ denied :
    \A t \in {tables[s]} : \A i \in InScope(Readable(t), t) \ facts[s], j \in facts[s] :
      Precedes(t, i, j) => /\ s # "adapters"
                           /\ Cardinality({h \in Readable(t) : h < i}) >= RawLimit[s]

\* No list is flagged as cut, so that its length has to tell: a list shorter
\* than its limit is all there was in scope.  The exceptions are endpoints the
\* machine refused, which nothing in the snapshot gives away, and a raw table
\* full of endpoints out of scope.
ShortMeansComplete ==
  \A s \in (Emitted \cap Bounded) \ denied : \A t \in {tables[s]} :
    /\ Cardinality(facts[s]) < Limit[s]
    /\ s = "connections" => Cardinality(Readable(t)) <= RawLimit[s]
    => facts[s] = InScope(Readable(t), t)
=============================================================================
