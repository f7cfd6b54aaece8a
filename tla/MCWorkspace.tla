---------------------------- MODULE MCWorkspace ----------------------------
(***************************************************************************)
(* An instance of Workspace for TLC: three evidence rows, two of one       *)
(* category, and a coverage row of one case.                               *)
(***************************************************************************)
EXTENDS Workspace, TLC

CONSTANT c1

MCCaseOf == [i \in 1..4 |-> c1]
MCFilter == {{1, 2, 3}, {1, 3}}
MCFacts == [i \in 1..3 |-> IF i = 1 THEN 5 ELSE 0]
MCPending == c1 :> {8}
MCCategory == [i \in 1..4 |-> IF i = 3 THEN 2 ELSE 1]
MCScore == [i \in 1..3 |-> 4 - i]
MCLine == [i \in 1..3 |-> 10] @@ (4 :> 6) @@ (8 :> 3)

\* Listings and briefs share nothing but the table: they are explored apart.
\* What a brief reads does not depend on times as long as EvidenceLimit is not
\* exceeded: the clock stands still for briefs.
OneAtATime ==
  \/ reading = None /\ \A c \in Case : briefs[c] = None
  \/ listing = None /\ now = 0

=============================================================================
