--------------------------- MODULE InventoryProofs ---------------------------
(***************************************************************************)
(* What holds of Inventory for any processes, probes, times to live and    *)
(* signals.                                                                *)
(***************************************************************************)
EXTENDS Planning, SequenceTheorems, InductionLemmas, TLAPS

\* A fact is dated no later than it was read, an observation in hand likewise.
DatesInv ==
  /\ \A p \in Proc :
       /\ created_at[p] <= now
       /\ pc[p] = "store" => /\ probe[p] \in Probe
                             /\ value[p] \in Value
                             /\ created_at[p] <= read[p]
                             /\ read[p] <= now
  /\ \A b \in Probe : current[b] # None =>
       /\ current[b].observed_at <= read_at[b]
       /\ current[b].invalidated_at # None => current[b].invalidated_at <= now

\* A fact that is out of date bears the mark of the signal, or was stored
\* after it.
MarksInv ==
  \A b \in outdated : /\ current[b] # None
                      /\ b \in overtaken \/ current[b].invalidated_at # None

InventoryInv == TypeOK /\ DatesInv /\ MarksInv

-----------------------------------------------------------------------------
LEMMA FactIsFact ==
  ASSUME TypeOK, NEW p \in Proc, value[p] \in Value
  PROVE  /\ FactOf(p) \in InventoryFact
         /\ FactOf(p) # None
         /\ FactOf(p).value = value[p]
         /\ FactOf(p).observed_at = created_at[p]
         /\ FactOf(p).invalidated_at = None
<1>1. FactOf(p) \in InventoryFact
  BY DEF FactOf, InventoryFact, TypeOK
<1>2. FactOf(p) # None
  BY <1>1, InventoryAssumption
<1>3. QED
  BY <1>1, <1>2 DEF FactOf

\* What a signal makes of the stored facts.
LEMMA MarkedFacts ==
  ASSUME TypeOK, NEW s \in Signal, InvalidateFor(s)
  PROVE  /\ current' \in [Probe -> InventoryFact \cup {None}]
         /\ \E at \in 0..now : \A b \in Probe :
              /\ current[b] = None <=> current'[b] = None
              /\ current[b] # None => /\ current'[b].value = current[b].value
                                      /\ current'[b].observed_at = current[b].observed_at
                                      /\ current'[b].invalidated_at =
                                           IF b \in s THEN at ELSE current[b].invalidated_at
<1>1. PICK at \in 0..now :
        current' = [b \in Probe |-> IF b \in s /\ current[b] # None
                                    THEN [current[b] EXCEPT !.invalidated_at = at]
                                    ELSE current[b]]
  BY DEF InvalidateFor
<1>2. ASSUME NEW b \in Probe
      PROVE  /\ current'[b] \in InventoryFact \cup {None}
             /\ current[b] = None <=> current'[b] = None
             /\ current[b] # None => /\ current'[b].value = current[b].value
                                     /\ current'[b].observed_at = current[b].observed_at
                                     /\ current'[b].invalidated_at =
                                          IF b \in s THEN at ELSE current[b].invalidated_at
  <2>1. CASE b \in s /\ current[b] # None
    <3>1. current[b] \in InventoryFact /\ at \in 0..MaxTime
      BY <2>1, InventoryAssumption DEF TypeOK
    <3>2. current'[b] = [current[b] EXCEPT !.invalidated_at = at]
      BY <1>1, <2>1
    <3>3. current'[b] \in InventoryFact
      BY <3>1, <3>2 DEF InventoryFact
    <3>4. current'[b] # None
      BY <3>3, InventoryAssumption
    <3>5. QED
      BY <2>1, <3>1, <3>2, <3>3, <3>4 DEF InventoryFact
  <2>2. CASE ~ (b \in s /\ current[b] # None)
    BY <1>1, <2>2 DEF TypeOK
  <2>3. QED
    BY <2>1, <2>2
<1>3. QED
  BY <1>1, <1>2

LEMMA InvInit == Init => InventoryInv
<1> SUFFICES ASSUME Init
             PROVE  InventoryInv
  OBVIOUS
<1>1. <<>> \in Seq(Value)
  OBVIOUS
<1>2. history \in [Probe -> Seq(Value)]
  BY <1>1, Zenon DEF Init
<1>3. now \in 0..MaxTime /\ opened \in 0..MaxCases /\ 0 \in 0..MaxTime
  BY InventoryAssumption DEF Init
<1>4. TypeOK
  BY <1>2, <1>3 DEF Init, TypeOK
<1>5. DatesInv /\ MarksInv
  BY <1>3 DEF Init, DatesInv, MarksInv
<1>6. QED
  BY <1>4, <1>5 DEF InventoryInv

LEMMA InvStep == InventoryInv /\ [Next]_vars => InventoryInv'
<1> SUFFICES ASSUME InventoryInv, [Next]_vars
             PROVE  InventoryInv'
  OBVIOUS
<1> USE InventoryAssumption DEF InventoryInv
<1>1. ASSUME NEW p \in Proc, StartCase(p) PROVE InventoryInv'
  BY <1>1 DEF TypeOK, DatesInv, MarksInv, StartCase, Goto, tables, marks
<1>2. ASSUME NEW p \in Proc, PlanCase(p) PROVE InventoryInv'
  BY <1>2 DEF TypeOK, DatesInv, MarksInv, PlanCase, Goto, tables, marks
<1>3. ASSUME NEW p \in Proc, StartRefresh(p) PROVE InventoryInv'
  BY <1>3 DEF TypeOK, DatesInv, MarksInv, StartRefresh, Goto, tables, marks
<1>4. ASSUME NEW p \in Proc, Collect(p) PROVE InventoryInv'
  BY <1>4 DEF TypeOK, DatesInv, MarksInv, Collect, Goto, tables, marks
<1>5. ASSUME NEW p \in Proc, CollectNothing(p) PROVE InventoryInv'
  BY <1>5 DEF TypeOK, DatesInv, MarksInv, CollectNothing, tables, marks
<1>6. ASSUME NEW p \in Proc, Store(p) PROVE InventoryInv'
  <2> DEFINE b == probe[p]
             f == FactOf(p)
  <2>1. /\ b \in Probe
        /\ value[p] \in Value
        /\ created_at[p] <= read[p]
        /\ read[p] <= now
    BY <1>6 DEF DatesInv, Store
  <2>2. /\ f \in InventoryFact
        /\ f # None
        /\ f.value = value[p]
        /\ f.observed_at = created_at[p]
        /\ f.invalidated_at = None
    BY <2>1, FactIsFact
  <2> HIDE DEF f
  <2>3. /\ current' = [current EXCEPT ![b] = f]
        /\ history' = [history EXCEPT ![b] = history'[b]]
        /\ history'[b] \in Seq(Value)
    <3>1. Append(history[b], f.value) \in Seq(Value)
      BY <2>1, <2>2 DEF TypeOK
    <3>2. QED
      BY <1>6, <2>1, <3>1 DEF Store, Upsert, TypeOK, f
  <2>4. TypeOK'
    <3>1. current' \in [Probe -> InventoryFact \cup {None}]
      BY <2>1, <2>2, <2>3 DEF TypeOK
    <3>2. history' \in [Probe -> Seq(Value)]
      BY <2>1, <2>3 DEF TypeOK
    <3>3. /\ read_at' \in [Probe -> 0..MaxTime]
          /\ outdated' \subseteq Probe
          /\ overtaken' \subseteq Probe
      BY <1>6, <2>1 DEF TypeOK, Store
    <3>4. /\ pc' \in [Proc -> {"idle", "plan", "collect", "store"}]
          /\ probe' \in [Proc -> Probe \cup {None}]
          /\ value' \in [Proc -> Value \cup {None}]
          /\ read' \in [Proc -> 0..MaxTime]
          /\ late' \subseteq Proc
      BY <1>6 DEF TypeOK, Store, Drop, Goto
    <3>5. QED
      BY <1>6, <3>1, <3>2, <3>3, <3>4 DEF TypeOK, Store
  <2>5. DatesInv'
    BY <1>6, <2>1, <2>2, <2>3 DEF TypeOK, DatesInv, Store, Drop, Goto
  <2>6. MarksInv'
    <3>1. \A c \in Probe \ {b} : current'[c] = current[c]
      BY <2>3 DEF TypeOK
    <3>2. current'[b] # None
      BY <2>1, <2>2, <2>3 DEF TypeOK
    <3>3. CASE p \in late
      <4>1. outdated' = outdated \cup {b} /\ overtaken' = overtaken \cup {b}
        BY <1>6, <3>3 DEF Store
      <4>2. QED
        BY <3>1, <3>2, <4>1 DEF MarksInv, TypeOK
    <3>4. CASE p \notin late
      <4>1. outdated' = outdated \ {b} /\ overtaken' = overtaken \ {b}
        BY <1>6, <3>4 DEF Store
      <4>2. QED
        BY <3>1, <4>1 DEF MarksInv, TypeOK
    <3>5. QED
      BY <3>3, <3>4
  <2>7. QED
    BY <2>4, <2>5, <2>6
<1>7. ASSUME NEW p \in Proc, Leave(p) PROVE InventoryInv'
  BY <1>7 DEF TypeOK, DatesInv, MarksInv, Leave, Drop, Goto, tables, marks
<1>8. ASSUME NEW s \in Signal, InvalidateFor(s) PROVE InventoryInv'
  <2>1. PICK at \in 0..now : \A b \in Probe :
          /\ current[b] = None <=> current'[b] = None
          /\ current[b] # None => /\ current'[b].value = current[b].value
                                  /\ current'[b].observed_at = current[b].observed_at
                                  /\ current'[b].invalidated_at =
                                       IF b \in s THEN at ELSE current[b].invalidated_at
    BY <1>8, MarkedFacts
  <2>2. current' \in [Probe -> InventoryFact \cup {None}]
    BY <1>8, MarkedFacts
  <2>3. TypeOK'
    BY <1>8, <2>2 DEF TypeOK, InvalidateFor
  <2>4. at \in Nat /\ at <= now /\ at # None
    BY DEF TypeOK
  <2>5. DatesInv'
    BY <1>8, <2>1, <2>4 DEF DatesInv, InvalidateFor
  <2>6. MarksInv'
    BY <1>8, <2>1, <2>4 DEF MarksInv, InvalidateFor, TypeOK
  <2>7. QED
    BY <2>3, <2>5, <2>6
<1>9. CASE Tick
  BY <1>9 DEF TypeOK, DatesInv, MarksInv, Tick, tables, memory, marks, InventoryFact
<1>10. CASE UNCHANGED vars
  BY <1>10 DEF TypeOK, DatesInv, MarksInv, vars, tables, memory, marks
<1>11. QED
  BY <1>1, <1>2, <1>3, <1>4, <1>5, <1>6, <1>7, <1>8, <1>9, <1>10 DEF Next, Step

LEMMA InvHolds == Spec => []InventoryInv
  BY InvInit, InvStep, PTL DEF Spec

\* Every reachable state is well typed.
THEOREM TypeCorrect == Spec => []TypeOK
<1>1. InventoryInv => TypeOK
  BY DEF InventoryInv
<1>2. QED
  BY <1>1, InvHolds, PTL

\* A probe that is left out as fresh found its value at most its time to live
\* before the case was created (case_service.py:73-82).
THEOREM FreshFactsAreRecent == Spec => FreshWasReadRecently
<1>1. InventoryInv => \A p \in Proc : PlanCase(p) =>
        \A b \in FreshProbes(created_at[p]) : read_at[b] + Ttl[b] >= created_at[p]
  <2> SUFFICES ASSUME InventoryInv, NEW p \in Proc, NEW b \in FreshProbes(created_at[p])
               PROVE  read_at[b] + Ttl[b] >= created_at[p]
    OBVIOUS
  <2>1. b \in Probe /\ current[b] # None /\ created_at[p] <= current[b].observed_at + Ttl[b]
    <3>1. b \in Probe /\ current[b] # None /\ ~ (created_at[p] > current[b].observed_at + Ttl[b])
      BY DEF FreshProbes, IsStale
    <3>2. current[b].observed_at \in Nat
      BY <3>1 DEF InventoryInv, TypeOK, InventoryFact
    <3>3. QED
      BY <3>1, <3>2, InventoryAssumption DEF InventoryInv, TypeOK
  <2>2. current[b].observed_at <= read_at[b] /\ current[b].observed_at \in Nat
    BY <2>1 DEF InventoryInv, DatesInv, TypeOK, InventoryFact
  <2>3. QED
    BY <2>1, <2>2, InventoryAssumption DEF InventoryInv, TypeOK
<1>2. QED
  BY <1>1, InvHolds, PTL DEF FreshWasReadRecently

\* After a signal only an observation that was under way at the signal makes
\* a fact fresh without a new reading (sqlite_store.py:115-124).
THEOREM InvalidationIsHonoured == Spec => []InvalidationHonoured
<1>1. InventoryInv => InvalidationHonoured
  <2> SUFFICES ASSUME InventoryInv, NEW b \in outdated, b \in FreshProbes(now), b \notin overtaken
               PROVE  FALSE
    BY DEF InvalidationHonoured
  <2>1. /\ current[b] # None
        /\ current[b].invalidated_at # None
        /\ b \in Probe
    BY DEF InventoryInv, MarksInv, FreshProbes
  <2>2. ~ (now >= current[b].invalidated_at)
    BY <2>1 DEF FreshProbes, IsStale
  <2>3. current[b].invalidated_at <= now /\ current[b].invalidated_at \in Nat /\ now \in Nat
    BY <2>1 DEF InventoryInv, DatesInv, TypeOK, InventoryFact
  <2>4. QED
    BY <2>2, <2>3
<1>2. QED
  BY <1>1, InvHolds, PTL

-----------------------------------------------------------------------------
(***************************************************************************)
(* The change-only history                                                 *)
(***************************************************************************)

LEMMA AppendedChange ==
  ASSUME NEW h \in Seq(Value), NEW v \in Value,
         h # <<>> => h[Len(h)] # v,
         \A i \in 1..(Len(h) - 1) : h[i] # h[i + 1]
  PROVE  LET g == Append(h, v) IN
         /\ g # <<>>
         /\ g[Len(g)] = v
         /\ \A i \in 1..(Len(g) - 1) : g[i] # g[i + 1]
<1> DEFINE g == Append(h, v)
<1>1. /\ Len(h) \in Nat
      /\ Len(g) = Len(h) + 1
      /\ g[Len(h) + 1] = v
      /\ \A i \in 1..Len(h) : g[i] = h[i]
      /\ g # <<>>
  BY AppendProperties
<1>2. Len(h) > 0 => h[Len(h)] # v
  OBVIOUS
<1>3. ASSUME NEW i \in 1..(Len(g) - 1) PROVE g[i] # g[i + 1]
  <2>1. CASE i = Len(h)
    BY <1>1, <1>2, <2>1
  <2>2. CASE i < Len(h)
    <3>1. i \in 1..(Len(h) - 1) /\ i \in 1..Len(h) /\ i + 1 \in 1..Len(h)
      BY <1>1, <2>2
    <3>2. QED
      BY <1>1, <3>1
  <2>3. QED
    BY <1>1, <2>1, <2>2
<1>4. QED
  BY <1>1, <1>3

LEMMA HistoryStep == InventoryInv /\ HistoryIsTheChanges /\ [Next]_vars => HistoryIsTheChanges'
<1> SUFFICES ASSUME InventoryInv, HistoryIsTheChanges, [Next]_vars, NEW b \in Probe
             PROVE  /\ current'[b] = None <=> history'[b] = <<>>
                    /\ current'[b] # None => history'[b][Len(history'[b])] = current'[b].value
                    /\ \A i \in 1..(Len(history'[b]) - 1) : history'[b][i] # history'[b][i + 1]
  BY DEF HistoryIsTheChanges
<1>1. /\ current[b] = None <=> history[b] = <<>>
      /\ current[b] # None => history[b][Len(history[b])] = current[b].value
      /\ \A i \in 1..(Len(history[b]) - 1) : history[b][i] # history[b][i + 1]
      /\ history[b] \in Seq(Value)
  BY DEF HistoryIsTheChanges, InventoryInv, TypeOK
<1>2. CASE UNCHANGED <<current, history>>
  BY <1>1, <1>2
<1>3. ASSUME NEW p \in Proc, Store(p)
      PROVE  /\ current'[b] = None <=> history'[b] = <<>>
             /\ current'[b] # None => history'[b][Len(history'[b])] = current'[b].value
             /\ \A i \in 1..(Len(history'[b]) - 1) : history'[b][i] # history'[b][i + 1]
  <2> DEFINE v == value[p]
  <2>1. probe[p] \in Probe /\ v \in Value
    BY <1>3 DEF InventoryInv, DatesInv, Store
  <2>2. FactOf(p) # None /\ FactOf(p).value = v
    BY <2>1, FactIsFact DEF InventoryInv
  <2>3. CASE b # probe[p]
    BY <1>1, <1>3, <2>1, <2>3 DEF Store, Upsert, InventoryInv, TypeOK
  <2>4. CASE b = probe[p] /\ (current[b] = None \/ current[b].value # v)
    <3>1. current'[b] = FactOf(p) /\ history'[b] = Append(history[b], v)
      BY <1>3, <2>1, <2>2, <2>4 DEF Store, Upsert, InventoryInv, TypeOK
    <3>2. history[b] # <<>> => history[b][Len(history[b])] # v
      BY <1>1, <2>4
    <3>3. /\ history'[b] # <<>>
          /\ history'[b][Len(history'[b])] = v
          /\ \A i \in 1..(Len(history'[b]) - 1) : history'[b][i] # history'[b][i + 1]
      BY <1>1, <2>1, <3>1, <3>2, AppendedChange
    <3>4. QED
      BY <2>2, <3>1, <3>3
  <2>5. CASE b = probe[p] /\ current[b] # None /\ current[b].value = v
    <3>1. current'[b] = FactOf(p) /\ history'[b] = history[b]
      BY <1>3, <2>1, <2>2, <2>5 DEF Store, Upsert, InventoryInv, TypeOK
    <3>2. QED
      BY <1>1, <2>2, <2>5, <3>1
  <2>6. QED
    BY <2>3, <2>4, <2>5
<1>4. ASSUME NEW s \in Signal, InvalidateFor(s)
      PROVE  /\ history' = history
             /\ current'[b] = None <=> current[b] = None
             /\ current[b] # None => current'[b].value = current[b].value
  BY <1>4, MarkedFacts DEF InvalidateFor, InventoryInv
<1>5. QED
  BY <1>1, <1>2, <1>3, <1>4 DEF Next, Step, vars, StartCase, PlanCase, StartRefresh, Collect,
     CollectNothing, Leave, Tick, tables

\* The history of every fact consists of its changes and ends with its current
\* value (docs/packs.md:43-44, sqlite_store.py:82-112).
THEOREM HistoryHoldsTheChanges == Spec => []HistoryIsTheChanges
<1>1. Init => HistoryIsTheChanges
  BY DEF Init, HistoryIsTheChanges
<1>2. QED
  BY <1>1, HistoryStep, InvHolds, PTL DEF Spec

-----------------------------------------------------------------------------
\* A stale fact becomes fresh by storing an observation and in no other way
\* (domain/inventory.py:42-46, sqlite_store.py:115-124).
THEOREM OnlyStoringMakesFresh == Spec => OnlyStoringRefreshes
<1> DEFINE Refreshed == \A b \in FreshProbes(now)' \ FreshProbes(now) :
                          \E p \in Proc : Store(p) /\ probe[p] = b
<1>1. InventoryInv /\ [Next]_vars => [Refreshed]_vars
  <2> SUFFICES ASSUME InventoryInv, [Next]_vars
               PROVE  Refreshed
    OBVIOUS
  <2>1. CASE UNCHANGED <<now, current>>
    BY <2>1 DEF FreshProbes
  <2>2. ASSUME NEW p \in Proc, Store(p), NEW b \in FreshProbes(now)' \ FreshProbes(now)
        PROVE  probe[p] = b
    <3>1. now' = now /\ current' = [current EXCEPT ![probe[p]] = FactOf(p)]
      BY <2>2 DEF Store, Upsert
    <3>2. b \in Probe /\ (probe[p] # b => current'[b] = current[b])
      BY <2>2, <3>1 DEF FreshProbes, InventoryInv, TypeOK
    <3>3. QED
      BY <2>2, <3>1, <3>2 DEF FreshProbes
  <2>3. ASSUME NEW s \in Signal, InvalidateFor(s), NEW b \in FreshProbes(now)'
        PROVE  b \in FreshProbes(now)
    <3>1. PICK at \in 0..now :
            /\ current[b] = None <=> current'[b] = None
            /\ current[b] # None => /\ current'[b].observed_at = current[b].observed_at
                                    /\ current'[b].invalidated_at =
                                         IF b \in s THEN at ELSE current[b].invalidated_at
      BY <2>3, MarkedFacts DEF FreshProbes, InventoryInv
    <3>2. now' = now /\ b \in Probe /\ now \in Nat /\ at # None
      BY <2>3, InventoryAssumption DEF InvalidateFor, FreshProbes, InventoryInv, TypeOK
    <3>3. b \notin s
      BY <2>3, <3>1, <3>2 DEF FreshProbes, IsStale
    <3>4. QED
      BY <2>3, <3>1, <3>2, <3>3 DEF FreshProbes, IsStale, Readable
  <2>4. ASSUME Tick, NEW b \in FreshProbes(now)'
        PROVE  b \in FreshProbes(now)
    <3>1. current' = current /\ now' = now + 1 /\ now \in Nat /\ b \in Probe
      BY <2>4 DEF Tick, tables, FreshProbes, InventoryInv, TypeOK
    <3>2. current[b] # None /\ Readable(current[b]) /\ ~ IsStale(b, current[b], now + 1)
      BY <2>4, <3>1 DEF FreshProbes
    <3>3. current[b] \in InventoryFact /\ Ttl[b] \in Nat
      BY <3>1, <3>2, InventoryAssumption DEF InventoryInv, TypeOK
    <3>4. ~ IsStale(b, current[b], now)
      BY <3>1, <3>2, <3>3 DEF IsStale, InventoryFact
    <3>5. QED
      BY <3>1, <3>2, <3>4 DEF FreshProbes
  <2>5. QED
    BY <2>1, <2>2, <2>3, <2>4 DEF Next, Step, vars, StartCase, PlanCase, StartRefresh, Collect,
       CollectNothing, Leave, tables
<1>2. QED
  BY <1>1, InvHolds, PTL DEF Spec, OnlyStoringRefreshes

-----------------------------------------------------------------------------
\* With the planner's own choice of a plan in place of any, every step is still
\* a step of Inventory: what is proved above holds of Planning.
THEOREM PlanningImplementsInventory == PlanningSpec => Spec
<1>1. PlanningInit => Init
  BY DEF PlanningInit
<1>2. [PlanningNext]_planningVars => [Next]_vars
  <2> SUFFICES ASSUME [PlanningNext]_planningVars PROVE [Next]_vars
    OBVIOUS
  <2>1. CASE Other
    BY <2>1 DEF Other, Next, Step
  <2>2. ASSUME NEW p \in Proc, PlanFor(p) PROVE Next
    BY <2>2 DEF PlanFor, Next, Step
  <2>3. CASE UNCHANGED planningVars
    BY <2>3 DEF planningVars
  <2>4. QED
    BY <2>1, <2>2, <2>3 DEF PlanningNext
<1>3. QED
  BY <1>1, <1>2, PTL DEF PlanningSpec, Spec

-----------------------------------------------------------------------------
(***************************************************************************)
(* The plan                                                                *)
(***************************************************************************)
PlanType ==
  [probes : Seq(Candidate), total_cost_ms : Nat, skipped_fresh : SUBSET Candidate,
   skipped_budget : SUBSET Candidate, skipped_low_value : SUBSET Candidate]

PlanRequest ==
  [considered : SUBSET Candidate, fresh : SUBSET Probe, budget : Nat, limit : Nat \ {0}]

ConsideredBefore(S) == {p \in S \X S : Before(p[1], p[2])}

LEMMA ConsideredInOrder ==
  ASSUME NEW S \in SUBSET Candidate
  PROVE  Orders(ConsideredBefore(S), S) /\ IsFiniteSet(S)
<1>1. IsFiniteSet(S)
  BY PlanningAssumption, FS_Subset
<1>2. \A c \in S : Id[c] \in Nat /\ Worth[c] \in Nat /\ Cost[c] \in Nat
  BY PlanningAssumption
<1>3. \A c, d \in S : Id[c] = Id[d] => c = d
  BY PlanningAssumption
<1>4. \A c, d \in S : <<c, d>> \in ConsideredBefore(S) <=> Before(c, d)
  BY DEF ConsideredBefore
<1>5. \A c \in S : ~ Before(c, c)
  BY <1>2 DEF Before
<1>6. \A b, c, d \in S : Before(b, c) /\ Before(c, d) => Before(b, d)
  BY <1>2 DEF Before
<1>7. \A c, d \in S : c = d \/ Before(c, d) \/ Before(d, c)
  BY <1>2, <1>3 DEF Before
<1>. QED
  BY <1>1, <1>4, <1>5, <1>6, <1>7 DEF Orders

\* A turn of the loop adds the candidate to one of the four parts of the plan.
LEMMA ConsiderTyped ==
  ASSUME NEW m \in PlanType, NEW c \in Candidate, NEW request
  PROVE  Consider(m, c, request) \in PlanType
<1>1. Cost[c] \in Nat /\ Append(m.probes, c) \in Seq(Candidate)
  BY PlanningAssumption DEF PlanType
<1>2. PICK probes, total : probes = Append(m.probes, c) /\ total = m.total_cost_ms + Cost[c]
  OBVIOUS
<1>3. probes \in Seq(Candidate) /\ total \in Nat
  BY <1>1, <1>2 DEF PlanType
<1>4. [m EXCEPT !.probes = Append(@, c), !.total_cost_ms = @ + Cost[c]]
        = [m EXCEPT !.probes = probes, !.total_cost_ms = total]
  BY <1>2
<1>5. [m EXCEPT !.probes = probes, !.total_cost_ms = total] \in PlanType
  BY <1>3 DEF PlanType
<1>6. /\ [m EXCEPT !.skipped_fresh = @ \cup {c}] \in PlanType
      /\ [m EXCEPT !.skipped_budget = @ \cup {c}] \in PlanType
      /\ [m EXCEPT !.skipped_low_value = @ \cup {c}] \in PlanType
  BY DEF PlanType
<1>. QED
  BY <1>4, <1>5, <1>6, Zenon DEF Consider

\* The loop of Plan, as a function of the number of turns.
Nth(S, i) == CHOOSE c \in S : Cardinality({d \in S : Before(d, c)}) = i - 1

Making(made, request) ==
  made = [i \in 0..Cardinality(request.considered) |->
            IF i = 0 THEN NoPlan ELSE Consider(made[i - 1], Nth(request.considered, i), request)]

LEMMA NthInTurn ==
  ASSUME NEW S \in SUBSET Candidate, NEW k
  PROVE  Nth(S, k) = InTurn(S, ConsideredBefore(S), k)
<1>1. \A c \in S : {d \in S : Before(d, c)} = Ahead(S, ConsideredBefore(S), c)
  BY DEF Ahead, ConsideredBefore
<1>. QED
  BY <1>1 DEF Nth, InTurn

LEMMA PlanByMaking ==
  ASSUME NEW request \in PlanRequest
  PROVE  \E made \in [0..Cardinality(request.considered) -> PlanType] :
           /\ Making(made, request)
           /\ Plan(request) = made[Cardinality(request.considered)]
<1> DEFINE S == request.considered
           n == Cardinality(S)
<1>1. S \in SUBSET Candidate /\ n \in Nat
  BY ConsideredInOrder, FS_CardinalityType DEF PlanRequest
<1>2. \A k \in 1..n : Turn(S, ConsideredBefore(S), k)
  BY <1>1, ConsideredInOrder, EveryoneHasATurn
<1>3. \A k \in 1..n : Nth(S, k) \in S
  BY <1>1, <1>2, NthInTurn DEF Turn
<1> DEFINE step == [p \in PlanType \X (1..n) |-> Consider(p[1], Nth(S, p[2]), request)]
<1>4. step \in [PlanType \X (1..n) -> PlanType]
  BY <1>1, <1>3, ConsiderTyped
<1>5. NoPlan \in PlanType
  BY DEF NoPlan, PlanType
<1>6. PICK f : Turns(f, PlanType, NoPlan, step, n)
  <2> HIDE DEF step, n
  <2>. QED
    BY <1>1, <1>4, <1>5, Recursion
<1>7. Making(f, request)
  <2>1. f \in [0..n -> PlanType] /\ f[0] = NoPlan
    BY <1>6 DEF Turns
  <2>2. ASSUME NEW k \in 1..n
        PROVE  f[k] = Consider(f[k - 1], Nth(S, k), request)
    <3>1. f[k - 1] \in PlanType
      BY <1>1, <2>1
    <3>2. f[k] = step[<<f[k - 1], k>>]
      BY <1>6 DEF Turns
    <3>. QED
      BY <3>1, <3>2
  <2> HIDE DEF step
  <2>. QED
    BY <1>1, <2>1, <2>2 DEF Making
<1>8. PICK made : made = CHOOSE g : Making(g, request)
  OBVIOUS
<1>9. Making(made, request)
  BY <1>7, <1>8
<1>10. Plan(request) = made[n]
  BY <1>8 DEF Plan, Making, Nth
<1>11. made \in [0..n -> PlanType]
  <2> DEFINE T == {k \in 0..n : made[k] \in PlanType}
  <2>1. 0 \in T
    BY <1>1, <1>5, <1>9 DEF Making
  <2>2. ASSUME NEW k \in 0..(n - 1), k \in T PROVE k + 1 \in T
    <3>1. k + 1 \in 0..n /\ k + 1 \in 1..n /\ k + 1 # 0 /\ (k + 1) - 1 = k
      BY <1>1
    <3>2. made[k + 1] = Consider(made[k], Nth(S, k + 1), request)
      BY <1>9, <3>1 DEF Making
    <3>3. Nth(S, k + 1) \in Candidate
      BY <1>1, <1>3, <3>1
    <3>. QED
      BY <2>2, <3>1, <3>2, <3>3, ConsiderTyped
  <2>3. 0..n \subseteq T
    <3> HIDE DEF T, n
    <3>. QED
      BY <1>1, <2>1, <2>2, LoopInduction
  <2>4. DOMAIN made = 0..n /\ made = [k \in 0..n |-> made[k]]
    BY <1>9 DEF Making
  <2>. QED
    BY <2>3, <2>4
<1>. QED
  BY <1>9, <1>10, <1>11

\* What a pass over the candidates in seen has made of them.
Spent(planned, c) == Total(Cost, {d \in planned : Before(d, c)})

FitsBeside(planned, c, request) ==
  /\ Spent(planned, c) + Cost[c] <= request.budget
  /\ Cardinality({d \in planned : Before(d, c)}) < request.limit

Passed(m, seen, request) ==
  /\ seen = Planned(m) \cup m.skipped_fresh \cup m.skipped_budget \cup m.skipped_low_value
  /\ Planned(m) \cap (m.skipped_fresh \cup m.skipped_budget \cup m.skipped_low_value) = {}
  /\ m.skipped_fresh \cap (m.skipped_budget \cup m.skipped_low_value) = {}
  /\ m.skipped_budget \cap m.skipped_low_value = {}
  /\ (m.skipped_fresh \cup m.skipped_low_value) \cap Common = {}
  /\ m.total_cost_ms = Total(Cost, Planned(m)) /\ m.total_cost_ms <= request.budget
  /\ Len(m.probes) = Cardinality(Planned(m)) /\ Len(m.probes) <= request.limit
  /\ \A i, j \in 1..Len(m.probes) : i < j => Before(m.probes[i], m.probes[j])
  /\ \A c \in Planned(m) : FitsBeside(Planned(m), c, request)
  /\ \A c \in m.skipped_budget : ~ FitsBeside(Planned(m), c, request)

LEMMA NothingPassed ==
  ASSUME NEW request \in PlanRequest
  PROVE  Passed(NoPlan, {}, request)
<1>1. Planned(NoPlan) = {}
  BY DEF Planned, NoPlan
<1>2. Total(Cost, {}) = 0
  BY PlanningAssumption, TotalOfAll
<1>3. Cardinality({}) = 0
  BY FS_EmptySet
<1>4. /\ NoPlan.probes = <<>> /\ NoPlan.total_cost_ms = 0 /\ NoPlan.skipped_fresh = {}
      /\ NoPlan.skipped_budget = {} /\ NoPlan.skipped_low_value = {}
  BY DEF NoPlan
<1>. QED
  BY <1>1, <1>2, <1>3, <1>4 DEF Passed, PlanRequest

\* A candidate that is considered last does not count against the others.
LEMMA LaterCountsNothing ==
  ASSUME NEW planned, NEW seen, planned \subseteq seen, NEW c,
         \A d \in seen : ~ Before(c, d)
  PROVE  \A d \in seen : {e \in planned \cup {c} : Before(e, d)} = {e \in planned : Before(e, d)}
OBVIOUS

LEMMA ConsiderPasses ==
  ASSUME NEW request \in PlanRequest, NEW m \in PlanType,
         NEW seen \in SUBSET Candidate, Passed(m, seen, request),
         NEW c \in Candidate, c \notin seen,
         \A d \in seen : Before(d, c) /\ ~ Before(c, d), ~ Before(c, c)
  PROVE  Passed(Consider(m, c, request), seen \cup {c}, request)
<1>1. CASE c \notin Common /\ c \in request.fresh
  <2>1. PICK n : n = [m EXCEPT !.skipped_fresh = @ \cup {c}]
    OBVIOUS
  <2>2. Consider(m, c, request) = n
    BY <1>1, <2>1, Zenon DEF Consider
  <2>3. /\ n.probes = m.probes /\ n.total_cost_ms = m.total_cost_ms
        /\ n.skipped_fresh = m.skipped_fresh \cup {c} /\ n.skipped_budget = m.skipped_budget
        /\ n.skipped_low_value = m.skipped_low_value /\ Planned(n) = Planned(m)
    BY <2>1 DEF PlanType, Planned
  <2>. QED
    BY <1>1, <2>2, <2>3 DEF Passed
<1>2. CASE ~ (c \notin Common /\ c \in request.fresh) /\ c \notin Common /\ Worth[c] < MinimumValue
  <2>1. PICK n : n = [m EXCEPT !.skipped_low_value = @ \cup {c}]
    OBVIOUS
  <2>2. Consider(m, c, request) = n
    BY <1>2, <2>1, Zenon DEF Consider
  <2>3. /\ n.probes = m.probes /\ n.total_cost_ms = m.total_cost_ms
        /\ n.skipped_fresh = m.skipped_fresh /\ n.skipped_budget = m.skipped_budget
        /\ n.skipped_low_value = m.skipped_low_value \cup {c} /\ Planned(n) = Planned(m)
    BY <2>1 DEF PlanType, Planned
  <2>. QED
    BY <1>2, <2>2, <2>3 DEF Passed
<1> DEFINE planned == Planned(m)
<1>3. /\ planned \in SUBSET seen /\ IsFiniteSet(planned)
      /\ {d \in planned : Before(d, c)} = planned
  <2>1. planned \in SUBSET seen
    BY DEF Passed
  <2>2. IsFiniteSet(planned)
    BY <2>1, PlanningAssumption, FS_Subset
  <2>. QED
    BY <2>1, <2>2
<1>4. Fits(m, c, request) <=> FitsBeside(planned, c, request)
  <2>1. /\ Total(Cost, {d \in planned : Before(d, c)}) = m.total_cost_ms
        /\ Cardinality({d \in planned : Before(d, c)}) = Len(m.probes)
    BY <1>3 DEF Passed
  <2>2. /\ Len(m.probes) \in Nat /\ Len(m.probes) <= request.limit /\ request.limit \in Nat
    BY DEF Passed, PlanType, PlanRequest
  <2>3. Len(m.probes) # request.limit <=> Len(m.probes) < request.limit
    BY <2>2
  <2>. QED
    BY <2>1, <2>3 DEF Fits, FitsBeside, Spent
<1>5. CASE ~ (c \notin Common /\ c \in request.fresh)
           /\ ~ (c \notin Common /\ Worth[c] < MinimumValue) /\ ~ Fits(m, c, request)
  <2>1. PICK n : n = [m EXCEPT !.skipped_budget = @ \cup {c}]
    OBVIOUS
  <2>2. Consider(m, c, request) = n
    BY <1>5, <2>1, Zenon DEF Consider
  <2>3. /\ n.probes = m.probes /\ n.total_cost_ms = m.total_cost_ms
        /\ n.skipped_fresh = m.skipped_fresh /\ n.skipped_budget = m.skipped_budget \cup {c}
        /\ n.skipped_low_value = m.skipped_low_value /\ Planned(n) = planned
    BY <2>1 DEF PlanType, Planned
  <2>4. ~ FitsBeside(planned, c, request)
    BY <1>4, <1>5
  <2>. QED
    BY <2>2, <2>3, <2>4 DEF Passed
<1>6. CASE ~ (c \notin Common /\ c \in request.fresh)
           /\ ~ (c \notin Common /\ Worth[c] < MinimumValue) /\ Fits(m, c, request)
  <2>1. PICK n, probes :
          /\ probes = Append(m.probes, c)
          /\ n = [m EXCEPT !.probes = probes, !.total_cost_ms = @ + Cost[c]]
    OBVIOUS
  <2>2. Consider(m, c, request) = n
    BY <1>6, <2>1, Zenon DEF Consider
  <2>3. /\ n.probes = probes /\ n.total_cost_ms = m.total_cost_ms + Cost[c]
        /\ n.skipped_fresh = m.skipped_fresh /\ n.skipped_budget = m.skipped_budget
        /\ n.skipped_low_value = m.skipped_low_value
    BY <2>1 DEF PlanType
  <2>4. PICK l \in Nat : l = Len(m.probes)
    BY DEF PlanType
  <2>5. /\ Len(probes) = l + 1 /\ probes[l + 1] = c
        /\ \A i \in 1..l : probes[i] = m.probes[i] /\ probes[i] \in planned
    <3>1. m.probes \in Seq(Candidate)
      BY DEF PlanType
    <3>. QED
      BY <2>1, <2>4, <3>1 DEF Planned
  <2>6. Planned(n) = planned \cup {c}
    <3>1. Planned(n) = {probes[i] : i \in 1..(l + 1)}
      BY <2>3, <2>5 DEF Planned
    <3>2. planned = {m.probes[i] : i \in 1..l}
      BY <2>4 DEF Planned
    <3>3. 1..(l + 1) = (1..l) \cup {l + 1}
      BY <2>4
    <3> HIDE DEF planned
    <3>4. {probes[i] : i \in 1..(l + 1)} = {m.probes[i] : i \in 1..l} \cup {c}
      BY <2>5, <3>3
    <3>. QED
      BY <3>1, <3>2, <3>4
  <2>7. c \notin planned
    BY <1>3
  <2>8. n.total_cost_ms = Total(Cost, Planned(n)) /\ n.total_cost_ms <= request.budget
    <3>1. planned \in SUBSET Candidate /\ c \in Candidate \ planned
      BY <1>3, <2>7
    <3>2. Total(Cost, planned \cup {c}) = Total(Cost, planned) + Cost[c]
      <4> HIDE DEF planned
      <4>. QED
        BY <3>1, PlanningAssumption, TotalOfAll
    <3>. QED
      BY <1>6, <2>3, <2>6, <3>2 DEF Passed, Fits
  <2>9. Len(n.probes) = Cardinality(Planned(n)) /\ Len(n.probes) <= request.limit
    <3>1. Cardinality(planned \cup {c}) = Cardinality(planned) + 1
      BY <1>3, <2>7, FS_AddElement
    <3>2. l = Cardinality(planned) /\ l <= request.limit /\ l # request.limit
      BY <1>6, <2>4 DEF Passed, Fits
    <3>3. request.limit \in Nat
      BY DEF PlanRequest
    <3>4. Len(n.probes) = l + 1
      BY <2>3, <2>5
    <3>5. l + 1 <= request.limit
      BY <2>4, <3>2, <3>3
    <3>. QED
      BY <2>6, <3>1, <3>2, <3>4, <3>5
  <2>10. ASSUME NEW i \in 1..Len(n.probes), NEW j \in 1..Len(n.probes), i < j
         PROVE  Before(n.probes[i], n.probes[j])
    <3>1. i \in 1..l /\ (j \in 1..l \/ j = l + 1)
      BY <2>3, <2>4, <2>5, <2>10
    <3>2. CASE j \in 1..l
      BY <2>3, <2>4, <2>5, <2>10, <3>1, <3>2 DEF Passed
    <3>3. CASE j = l + 1
      BY <1>3, <2>3, <2>5, <3>1, <3>3
    <3>. QED
      BY <3>1, <3>2, <3>3
  <2>11. \A d \in seen \cup {c} : {e \in Planned(n) : Before(e, d)} = {e \in planned : Before(e, d)}
    BY <1>3, <2>6
  <2>12. \A d \in seen \cup {c} : FitsBeside(Planned(n), d, request) <=> FitsBeside(planned, d, request)
    BY <2>11 DEF FitsBeside, Spent
  <2>13. FitsBeside(planned, c, request)
    BY <1>4, <1>6
  <2>14. planned \cup m.skipped_budget \subseteq seen
    BY DEF Passed
  <2>15. \A d \in Planned(n) : FitsBeside(Planned(n), d, request)
    <3>1. \A d \in planned : FitsBeside(planned, d, request)
      BY DEF Passed
    <3>. QED
      BY <2>6, <2>12, <2>13, <2>14, <3>1
  <2>16. \A d \in n.skipped_budget : ~ FitsBeside(Planned(n), d, request)
    <3>1. \A d \in m.skipped_budget : ~ FitsBeside(planned, d, request)
      BY DEF Passed
    <3>. QED
      BY <2>3, <2>12, <2>14, <3>1
  <2>17. /\ seen \cup {c} = Planned(n) \cup n.skipped_fresh \cup n.skipped_budget \cup n.skipped_low_value
         /\ Planned(n) \cap (n.skipped_fresh \cup n.skipped_budget \cup n.skipped_low_value) = {}
         /\ n.skipped_fresh \cap (n.skipped_budget \cup n.skipped_low_value) = {}
         /\ n.skipped_budget \cap n.skipped_low_value = {}
         /\ (n.skipped_fresh \cup n.skipped_low_value) \cap Common = {}
    BY <2>3, <2>6 DEF Passed
  <2>. QED
    BY <2>2, <2>8, <2>9, <2>10, <2>15, <2>16, <2>17 DEF Passed
<1>. QED
  BY <1>1, <1>2, <1>5, <1>6

\* The plan is what a pass over all that is considered makes.
LEMMA PlanPasses ==
  ASSUME NEW request \in PlanRequest
  PROVE  Plan(request) \in PlanType /\ Passed(Plan(request), request.considered, request)
<1>1. PICK S, R, n : /\ S = request.considered /\ R = ConsideredBefore(S)
                     /\ n = Cardinality(S)
  OBVIOUS
<1>2. S \in SUBSET Candidate /\ IsFiniteSet(S) /\ Orders(R, S) /\ n \in Nat
  <2>1. S \in SUBSET Candidate
    BY <1>1 DEF PlanRequest
  <2>. QED
    BY <1>1, <2>1, ConsideredInOrder, FS_CardinalityType
<1>3. /\ Seen(S, R, 0) = {} /\ Seen(S, R, n) = S
      /\ \A k \in 1..n : Turn(S, R, k)
  BY <1>1, <1>2, EveryoneHasATurn
<1>4. PICK made \in [0..n -> PlanType] : Making(made, request) /\ Plan(request) = made[n]
  BY <1>1, PlanByMaking
<1> DEFINE T == {k \in 0..n : Passed(made[k], Seen(S, R, k), request)}
<1>5. 0 \in T
  <2>1. made[0] = NoPlan
    BY <1>1, <1>2, <1>4 DEF Making
  <2>. QED
    BY <1>2, <1>3, <2>1, NothingPassed
<1>6. ASSUME NEW k \in 0..(n - 1), k \in T PROVE k + 1 \in T
  <2>1. PICK l \in 1..n : l = k + 1 /\ l - 1 = k
    BY <1>2
  <2>2. PICK c : c = InTurn(S, R, l)
    OBVIOUS
  <2>3. /\ c \in S /\ c \notin Seen(S, R, k) /\ Seen(S, R, l) = Seen(S, R, k) \cup {c}
        /\ Ahead(S, R, c) = Seen(S, R, k)
    BY <1>3, <2>1, <2>2 DEF Turn
  <2>4. made[l] = Consider(made[k], c, request)
    <3>1. l \in 0..n /\ l # 0
      BY <1>2, <2>1
    <3>2. made[l] = Consider(made[l - 1], Nth(S, l), request)
      BY <1>1, <1>4, <3>1 DEF Making
    <3>. QED
      BY <1>1, <1>2, <2>1, <2>2, <3>2, NthInTurn
  <2>5. made[k] \in PlanType /\ Passed(made[k], Seen(S, R, k), request)
    BY <1>4, <1>6
  <2>6. Seen(S, R, k) \in SUBSET S
    BY DEF Seen
  <2>7. \A d \in Seen(S, R, k) : <<d, c>> \in R /\ <<c, d>> \notin R
    <3>1. ASSUME NEW d \in Seen(S, R, k) PROVE <<d, c>> \in R /\ <<c, d>> \notin R
      <4>1. d \in S /\ <<d, c>> \in R
        BY <2>3, <2>6, <3>1 DEF Ahead
      <4>. QED
        BY <1>2, <2>3, <4>1 DEF Orders
    <3>. QED
      BY <3>1
  <2>8. \A d \in Seen(S, R, k) : Before(d, c) /\ ~ Before(c, d)
    BY <1>1, <2>3, <2>6, <2>7 DEF ConsideredBefore
  <2>9. ~ Before(c, c)
    BY <1>1, <1>2, <2>3 DEF Orders, ConsideredBefore
  <2>10. PICK seen \in SUBSET Candidate : seen = Seen(S, R, k)
    BY <1>2, <2>6
  <2>11. Passed(Consider(made[k], c, request), seen \cup {c}, request)
    <3>1. Passed(made[k], seen, request) /\ made[k] \in PlanType
      BY <2>5, <2>10
    <3>2. c \in Candidate /\ c \notin seen
      BY <1>2, <2>3, <2>10
    <3>3. \A d \in seen : Before(d, c) /\ ~ Before(c, d)
      BY <2>8, <2>10
    <3>. QED
      BY <2>9, <3>1, <3>2, <3>3, ConsiderPasses
  <2>12. Passed(made[l], Seen(S, R, l), request)
    BY <2>3, <2>4, <2>10, <2>11
  <2>. QED
    BY <1>2, <2>1, <2>12
<1>7. 0..n \subseteq T
  <2> HIDE DEF T
  <2>. QED
    BY <1>2, <1>5, <1>6, LoopInduction
<1>. QED
  BY <1>1, <1>2, <1>3, <1>4, <1>7

\* Two sets that a budget makes of the same candidates are the same: neither
\* has a first member that the other lacks.
LEMMA BudgetsDecide ==
  ASSUME NEW S \in SUBSET Candidate, NEW A \in SUBSET S, NEW B \in SUBSET S, NEW request,
         \A c \in S : c \in A <=> FitsBeside(A, c, request),
         \A c \in S : c \in B <=> FitsBeside(B, c, request)
  PROVE  A = B
<1>1. PICK D, R : D = {c \in S : c \in A <=> c \notin B} /\ R = ConsideredBefore(S)
  OBVIOUS
<1>2. SUFFICES ASSUME D # {} PROVE FALSE
  BY <1>1
<1>3. PICK c \in D : \A d \in D : ~ Before(d, c)
  <2>1. Orders(R, S) /\ IsFiniteSet(S)
    BY <1>1, ConsideredInOrder
  <2>2. D \in SUBSET S
    BY <1>1
  <2>3. \E c \in D : \A d \in D : <<d, c>> \notin R
    <3>1. /\ \A c \in S : <<c, c>> \notin R
          /\ \A b, c, d \in S : <<b, c>> \in R /\ <<c, d>> \in R => <<b, d>> \in R
      BY <2>1 DEF Orders
    <3>. QED
      BY <1>2, <2>1, <2>2, <3>1, FirstOfAll
  <2>. QED
    BY <1>1, <2>2, <2>3 DEF ConsideredBefore
<1>4. {d \in A : Before(d, c)} = {d \in B : Before(d, c)}
  BY <1>1, <1>3
<1>. QED
  BY <1>1, <1>3, <1>4 DEF FitsBeside, Spent

LEMMA CommonFirst ==
  ASSUME NEW request \in PlanRequest, Common \subseteq request.considered,
         NEW alone, alone = [request EXCEPT !.considered = Common, !.fresh = {}]
  PROVE  Planned(Plan(request)) \cap Common = Planned(Plan(alone))
<1>1. /\ alone \in PlanRequest /\ alone.considered = Common
      /\ alone.budget = request.budget /\ alone.limit = request.limit
  BY PlanningAssumption DEF PlanRequest
<1>2. PICK m, n : m = Plan(request) /\ n = Plan(alone)
  OBVIOUS
<1>3. Passed(m, request.considered, request) /\ Passed(n, Common, alone)
  BY <1>1, <1>2, PlanPasses
<1>4. PICK A, B : A = Planned(m) \cap Common /\ B = Planned(n)
  OBVIOUS
<1>5. Common \in SUBSET Candidate
  BY <1>1 DEF PlanRequest
<1>6. \A c \in Common : c \in A <=> FitsBeside(A, c, request)
  <2>1. \A c \in Common : {d \in Planned(m) : Before(d, c)} = {d \in A : Before(d, c)}
    BY <1>4 DEF Before
  <2>2. \A c \in Common : FitsBeside(Planned(m), c, request) <=> FitsBeside(A, c, request)
    BY <2>1 DEF FitsBeside, Spent
  <2>. QED
    BY <1>3, <1>4, <2>2 DEF Passed
<1>7. \A c \in Common : c \in B <=> FitsBeside(B, c, request)
  BY <1>1, <1>3, <1>4 DEF Passed, FitsBeside
<1>8. A \in SUBSET Common /\ B \in SUBSET Common
  BY <1>3, <1>4 DEF Passed
<1>. QED
  BY <1>2, <1>4, <1>5, <1>6, <1>7, <1>8, BudgetsDecide

\* A plan is that of its request, or none has just been made.
PlanInv ==
  \/ plan = [request |-> NoRequest, made |-> NoPlan]
  \/ /\ plan.request \in PlanRequest /\ Common \subseteq plan.request.considered
     /\ plan.made = Plan(plan.request)

LEMMA PlanInvHolds == PlanningSpec => []PlanInv
<1>1. PlanningInit => PlanInv
  BY DEF PlanningInit, PlanInv
<1>2. PlanInv /\ [PlanningNext]_planningVars => PlanInv'
  <2> SUFFICES ASSUME PlanInv, [PlanningNext]_planningVars PROVE PlanInv'
    OBVIOUS
  <2>1. CASE UNCHANGED planningVars
    BY <2>1 DEF planningVars, PlanInv
  <2>2. CASE Other
    BY <2>2 DEF Other, PlanInv
  <2>3. ASSUME NEW p \in Proc, PlanFor(p) PROVE PlanInv'
    <3>1. PICK request \in Requests(FreshProbes(created_at[p])) :
            plan' = [request |-> request, made |-> Plan(request)]
      BY <2>3 DEF PlanFor
    <3>2. FreshProbes(created_at[p]) \in SUBSET Probe
      BY DEF FreshProbes
    <3>3. request \in PlanRequest /\ Common \subseteq request.considered
      BY <3>2, PlanningAssumption DEF Requests, PlanRequest
    <3>. QED
      BY <3>1, <3>3 DEF PlanInv
  <2>. QED
    BY <2>1, <2>2, <2>3 DEF PlanningNext
<1>. QED
  BY <1>1, <1>2, PTL DEF PlanningSpec

LEMMA FourParts ==
  ASSUME NEW a, NEW b, NEW c, NEW d,
         a \cap (b \cup c \cup d) = {}, b \cap (c \cup d) = {}, c \cap d = {}
  PROVE  /\ UNION {<<a, b, c, d>>[i] : i \in 1..4} = a \cup b \cup c \cup d
         /\ \A i, j \in 1..4 : i # j => <<a, b, c, d>>[i] \cap <<a, b, c, d>>[j] = {}
<1>1. PICK parts : parts = <<a, b, c, d>>
  OBVIOUS
<1>2. parts[1] = a /\ parts[2] = b /\ parts[3] = c /\ parts[4] = d
  BY <1>1
<1>3. 1..4 = {1, 2, 3, 4}
  OBVIOUS
<1>4. UNION {parts[i] : i \in 1..4} = a \cup b \cup c \cup d
  BY <1>2, <1>3
<1>5. \A i, j \in 1..4 : i # j => parts[i] \cap parts[j] = {}
  BY <1>2, <1>3
<1>. QED
  BY <1>1, <1>4, <1>5

LEMMA PassedIsGreedy ==
  ASSUME NEW m, m = plan.made, Passed(m, plan.request.considered, plan.request),
         CommonPlannedAnyway
  PROVE  PlanIsGreedy
<1>1. PICK parts : parts = <<Planned(m), m.skipped_fresh, m.skipped_budget, m.skipped_low_value>>
  OBVIOUS
<1>2. /\ UNION {parts[i] : i \in 1..4} = plan.request.considered
      /\ \A i, j \in 1..4 : i # j => parts[i] \cap parts[j] = {}
  BY <1>1, FourParts DEF Passed
<1>3. \A c : SpentBefore(c) = Spent(Planned(m), c)
  BY DEF SpentBefore, Spent, Total
<1>4. \A c \in Planned(m) \cup m.skipped_budget :
        c \in Planned(m) <=>
          /\ SpentBefore(c) + Cost[c] <= plan.request.budget
          /\ Cardinality({d \in Planned(m) : Before(d, c)}) < plan.request.limit
  <2>1. \A c \in Planned(m) \cup m.skipped_budget :
          c \in Planned(m) <=> FitsBeside(Planned(m), c, plan.request)
    BY DEF Passed
  <2>. QED
    BY <1>3, <2>1 DEF FitsBeside
<1>5. \A i, j \in 1..Len(m.probes) : i < j => Before(m.probes[i], m.probes[j])
  BY DEF Passed
<1>. QED
  BY <1>1, <1>2, <1>4, <1>5, Zenon DEF PlanIsGreedy


\* Whatever the candidates, their costs and values and the two budgets: a plan
\* accounts for each candidate once, leaves none out for a less important one
\* and none that still fits, and plans the common bundle as if it were alone
\* (planner.py:61-104).
THEOREM PlansAreGreedy == PlanningSpec => []PlanIsGreedy
<1>1. PlanInv => PlanIsGreedy
  <2> SUFFICES ASSUME PlanInv PROVE PlanIsGreedy
    OBVIOUS
  <2> DEFINE request == plan.request
             alone == [request EXCEPT !.considered = Common, !.fresh = {}]
  <2>1. CASE plan = [request |-> NoRequest, made |-> NoPlan]
    <3>1. request = NoRequest /\ plan.made = NoPlan
      BY <2>1
    <3>2. Planned(NoPlan) = {}
      BY DEF Planned, NoPlan
    <3>3. CommonPlannedAnyway
      BY <3>1, <3>2 DEF CommonPlannedAnyway
    <3>4. NoRequest \in [considered : {{}}, fresh : {{}}, budget : Nat, limit : Nat \ {0}]
      BY DEF NoRequest
    <3>5. Passed(NoPlan, {}, NoRequest)
      BY <3>4, NothingPassed DEF PlanRequest
    <3>6. Passed(plan.made, request.considered, request)
      BY <3>1, <3>5 DEF NoRequest
    <3>. QED
      BY <3>3, <3>6, PassedIsGreedy
  <2>2. CASE /\ request \in PlanRequest /\ Common \subseteq request.considered
             /\ plan.made = Plan(request)
    <3>1. Passed(plan.made, request.considered, request)
      BY <2>2, PlanPasses
    <3>2. CASE request = NoRequest
      <4>1. Common = {}
        BY <2>2, <3>2 DEF NoRequest
      <4>2. CommonPlannedAnyway
        BY <3>2, <4>1 DEF CommonPlannedAnyway
      <4>. QED
        BY <3>1, <4>2, PassedIsGreedy
    <3>3. CASE request # NoRequest
      <4>1. Planned(Plan(request)) \cap Common = Planned(Plan(alone))
        BY <2>2, CommonFirst
      <4>2. CommonPlannedAnyway
        BY <2>2, <3>3, <4>1 DEF CommonPlannedAnyway
      <4>. QED
        BY <3>1, <4>2, PassedIsGreedy
    <3>. QED
      BY <3>2, <3>3
  <2>. QED
    BY <2>1, <2>2 DEF PlanInv
<1>. QED
  BY <1>1, PlanInvHolds, PTL

\* Whatever the candidates and the budgets: a plan costs what its probes cost
\* and stays within its time and its number (planner.py:90-112).
THEOREM PlansStayInBudget == PlanningSpec => []PlanInBudget
<1>1. PlanInv => PlanInBudget
  <2> SUFFICES ASSUME PlanInv PROVE PlanInBudget
    OBVIOUS
  <2>1. PICK m, request : m = plan.made /\ request = plan.request
    OBVIOUS
  <2>2. \E seen : Passed(m, seen, request)
    <3>1. CASE plan = [request |-> NoRequest, made |-> NoPlan]
      <4>1. request = NoRequest /\ m = NoPlan
        BY <2>1, <3>1
      <4>2. NoRequest \in [considered : {{}}, fresh : {{}}, budget : Nat, limit : Nat \ {0}]
        BY DEF NoRequest
      <4>. QED
        BY <4>1, <4>2, NothingPassed DEF PlanRequest
    <3>2. CASE request \in PlanRequest /\ m = Plan(request)
      BY <3>2, PlanPasses
    <3>. QED
      BY <2>1, <3>1, <3>2 DEF PlanInv
  <2>3. /\ m.total_cost_ms = Total(Cost, Planned(m)) /\ m.total_cost_ms <= request.budget
        /\ Len(m.probes) <= request.limit
    BY <2>2 DEF Passed
  <2>. QED
    BY <2>1, <2>3 DEF PlanInBudget, Total
<1>. QED
  BY <1>1, PlanInvHolds, PTL

-----------------------------------------------------------------------------
\* What holds of the inventory whatever the plan holds with the planner's:
\* facts left out as fresh are recent, signals are honoured, the history is
\* the sequence of changes (freshness.py, sqlite_store.py:104-124).
THEOREM PlanningKeepsTheInventory ==
  PlanningSpec => /\ []InvalidationHonoured /\ []HistoryIsTheChanges
                  /\ FreshWasReadRecently /\ OnlyStoringRefreshes
BY PlanningImplementsInventory, InvalidationIsHonoured, HistoryHoldsTheChanges,
   FreshFactsAreRecent, OnlyStoringMakesFresh, PTL

=============================================================================
