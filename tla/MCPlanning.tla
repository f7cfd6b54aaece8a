----------------------------- MODULE MCPlanning -----------------------------
(***************************************************************************)
(* Two probes with facts, a common one b1 and an optional one b2, which    *)
(* share a signal and have different times to live; and candidates for the *)
(* planner that observe nothing: a common one c1, and optional ones d1, as *)
(* good as b2 and more expensive, and d2, worth too little.                *)
(***************************************************************************)
EXTENDS Planning, TLC

CONSTANTS p1, p2, b1, b2, c1, d1, d2, v1, v2

MCProc == {p1, p2}
MCProbe == {b1, b2}
MCCommon == {b1, c1}
MCTtl == [b \in MCProbe |-> IF b = b1 THEN 2 ELSE 1]
MCSignal == {{b2}, {b1, b2}}
MCValue == {v1, v2}

MCCandidate == {b1, b2, c1, d1, d2}
MCCost == b1 :> 1 @@ b2 :> 1 @@ c1 :> 2 @@ d1 :> 2 @@ d2 :> 1
MCWorth == b1 :> 1 @@ b2 :> 2 @@ c1 :> 2 @@ d1 :> 3 @@ d2 :> 0
MCId == b1 :> 2 @@ b2 :> 3 @@ c1 :> 1 @@ d1 :> 4 @@ d2 :> 5
MCRelevant == {{}, {b2}, {b2, d1, d2}}
MCBudget == {1, 4, 6}
MCLimit == {2, 4}

Symmetry == Permutations(MCProc) \cup Permutations(MCValue)

=============================================================================
