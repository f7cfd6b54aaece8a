------------------------------ MODULE Inventory ------------------------------
(***************************************************************************)
(* The current inventory: facts that cases collect in several processes,   *)
(* that signals invalidate, and that case planning reads to leave out what *)
(* is still fresh.  A case's facts are dated with the creation of the      *)
(* case, before its plan is made and its probes have run.                  *)
(*                                                                         *)
(* Every probe has one fact, whose value is what the probe finds in the    *)
(* machine at some moment of its run; the machine may change at any time.  *)
(* Evidence rows and audit events of a case are the business of            *)
(* CaseRuntime, whose transaction is one step here.  The clock is not set  *)
(* back.                                                                   *)
(***************************************************************************)
EXTENDS Naturals, Sequences

CONSTANTS
  Proc,      \* processes that open cases or refresh facts
  Probe,     \* probes, each with the fact it observes
  Common,    \* the common bundle, which freshness never leaves out
  Ttl,       \* freshness_ttl_seconds of each probe's fact
  Signal,    \* for each invalidation signal, the probes of its categories
  Value,     \* what a probe may find
  MaxTime,   \* bound of the clock
  MaxCases,  \* bound on cases opened and facts refreshed
  None

\* A row of inventory_current, of which the facts a probe found are the value.
InventoryFact ==
  [value : Value, observed_at : 0..MaxTime, invalidated_at : 0..MaxTime \cup {None}]

ASSUME InventoryAssumption ==
  /\ Ttl \in [Probe -> Nat \ {0}]
  /\ Signal \subseteq SUBSET Probe
  /\ MaxTime \in Nat
  /\ MaxCases \in Nat
  /\ None \notin Probe \cup Value \cup 0..MaxTime \cup InventoryFact

VARIABLES
  now,         \* the clock
  current,     \* table inventory_current
  history,     \* table inventory_history: the values, oldest first
  opened,      \* cases opened and refreshes begun
  \* each process's memory
  pc,
  created_at,  \* when its case was created, or its fact measured
  todo,        \* planned probes that have not run
  probe,       \* the probe in hand
  value,       \* what that found
  \* history, read by properties only
  read,        \* when the process read the value in hand
  read_at,     \* when the value of each fact was read
  late,        \* the value in hand was read before a signal about its probe
  outdated,    \* facts whose value was read before the last signal about them
  overtaken    \* facts that were stored late

tables == <<current, history>>
memory == <<created_at, todo, probe, value, read, late>>
marks == <<read_at, outdated, overtaken>>
vars == <<now, tables, opened, pc, memory, marks>>

TypeOK ==
  /\ now \in 0..MaxTime
  /\ current \in [Probe -> InventoryFact \cup {None}]
  /\ history \in [Probe -> Seq(Value)]
  /\ opened \in 0..MaxCases
  /\ pc \in [Proc -> {"idle", "plan", "collect", "store"}]
  /\ created_at \in [Proc -> 0..MaxTime]
  /\ todo \in [Proc -> SUBSET Probe]
  /\ probe \in [Proc -> Probe \cup {None}]
  /\ value \in [Proc -> Value \cup {None}]
  /\ read \in [Proc -> 0..MaxTime]
  /\ read_at \in [Probe -> 0..MaxTime]
  /\ late \subseteq Proc
  /\ outdated \subseteq Probe
  /\ overtaken \subseteq Probe

Init ==
  /\ now = 0
  /\ current = [b \in Probe |-> None]
  /\ history = [b \in Probe |-> <<>>]
  /\ opened = 0
  /\ pc = [p \in Proc |-> "idle"]
  /\ created_at = [p \in Proc |-> 0]
  /\ todo = [p \in Proc |-> {}]
  /\ probe = [p \in Proc |-> None]
  /\ value = [p \in Proc |-> None]
  /\ read = [p \in Proc |-> 0]
  /\ read_at = [b \in Probe |-> 0]
  /\ late = {}
  /\ outdated = {}
  /\ overtaken = {}

Goto(p, l) == pc' = [pc EXCEPT ![p] = l]

\* The observation in hand is stored or lost.
Drop(p) ==
  /\ probe' = [probe EXCEPT ![p] = None]
  /\ value' = [value EXCEPT ![p] = None]
  /\ read' = [read EXCEPT ![p] = 0]
  /\ late' = late \ {p}

-----------------------------------------------------------------------------
(***************************************************************************)
(* Freshness                                                               *)
(***************************************************************************)

IsStale(b, fact, at) ==
  \/ fact.invalidated_at # None /\ at >= fact.invalidated_at
  \/ at > fact.observed_at + Ttl[b]

\* A stored fact that was invalidated before it was observed does not validate.
Readable(fact) ==
  fact.invalidated_at # None => fact.invalidated_at >= fact.observed_at

\* What planning at a given time takes for fresh; unreadable facts are not.
FreshProbes(at) ==
  {b \in Probe : /\ current[b] # None
                 /\ Readable(current[b])
                 /\ ~ IsStale(b, current[b], at)}

-----------------------------------------------------------------------------
(***************************************************************************)
(* A case, and InventoryService.refresh                                    *)
(***************************************************************************)

StartCase(p) ==
  /\ pc[p] = "idle"
  /\ opened < MaxCases
  /\ opened' = opened + 1
  /\ created_at' = [created_at EXCEPT ![p] = now]
  /\ Goto(p, "plan")
  /\ UNCHANGED <<now, tables, todo, probe, value, read, late, marks>>

\* Budgets and relevance may leave out any probe, freshness leaves out the
\* fresh ones that are not common.
PlanCase(p) ==
  /\ pc[p] = "plan"
  /\ \E s \in SUBSET (Probe \ (FreshProbes(created_at[p]) \ Common)) :
       todo' = [todo EXCEPT ![p] = s]
  /\ Goto(p, "collect")
  /\ UNCHANGED <<now, tables, opened, created_at, probe, value, read, late, marks>>

\* Whoever calls refresh measures one fact and dates it when it begins.
StartRefresh(p) ==
  /\ pc[p] = "idle"
  /\ opened < MaxCases
  /\ opened' = opened + 1
  /\ created_at' = [created_at EXCEPT ![p] = now]
  /\ \E b \in Probe : todo' = [todo EXCEPT ![p] = {b}]
  /\ Goto(p, "collect")
  /\ UNCHANGED <<now, tables, probe, value, read, late, marks>>

\* A probe runs and observes.
Collect(p) ==
  /\ pc[p] = "collect"
  /\ \E b \in todo[p], v \in Value :
       /\ todo' = [todo EXCEPT ![p] = @ \ {b}]
       /\ probe' = [probe EXCEPT ![p] = b]
       /\ value' = [value EXCEPT ![p] = v]
  /\ read' = [read EXCEPT ![p] = now]
  /\ Goto(p, "store")
  /\ UNCHANGED <<now, tables, opened, created_at, late, marks>>

\* A probe ends without an observation: there is no fact to store.
CollectNothing(p) ==
  /\ pc[p] = "collect"
  /\ \E b \in todo[p] : todo' = [todo EXCEPT ![p] = @ \ {b}]
  /\ UNCHANGED <<now, tables, opened, pc, created_at, probe, value, read, late, marks>>

\* Mutant: whole records are compared, their dates included.
UpsertRecords(b, fact) ==
  /\ current' = [current EXCEPT ![b] = fact]
  /\ history' = IF current[b] # fact
                THEN [history EXCEPT ![b] = Append(@, fact.value)]
                ELSE history

\* The value is compared with the stored one in the transaction that
\* replaces it, and a change is appended to the history.
Upsert(b, fact) ==
  /\ current' = [current EXCEPT ![b] = fact]
  /\ history' = IF current[b] = None \/ current[b].value # fact.value
                THEN [history EXCEPT ![b] = Append(@, fact.value)]
                ELSE history

\* Mutant: the fact is dated when it is stored.
FactOfNow(p) ==
  [value |-> value[p], observed_at |-> now, invalidated_at |-> None]

FactOf(p) ==
  [value |-> value[p], observed_at |-> created_at[p], invalidated_at |-> None]

Store(p) ==
  /\ pc[p] = "store"
  /\ Upsert(probe[p], FactOf(p))
  /\ Goto(p, "collect")
  /\ read_at' = [read_at EXCEPT ![probe[p]] = read[p]]
  /\ outdated' = IF p \in late THEN outdated \cup {probe[p]} ELSE outdated \ {probe[p]}
  /\ overtaken' = IF p \in late THEN overtaken \cup {probe[p]} ELSE overtaken \ {probe[p]}
  /\ Drop(p)
  /\ UNCHANGED <<now, opened, created_at, todo>>

\* The call returns, raises or dies with its process.
Leave(p) ==
  /\ pc[p] # "idle"
  /\ Goto(p, "idle")
  /\ created_at' = [created_at EXCEPT ![p] = 0]
  /\ todo' = [todo EXCEPT ![p] = {}]
  /\ Drop(p)
  /\ UNCHANGED <<now, tables, opened, marks>>

-----------------------------------------------------------------------------
(***************************************************************************)
(* InventoryService.invalidate_for, and the clock                          *)
(***************************************************************************)

\* Mutant: facts as new as the signal are left alone.
InvalidateForOlder(s) ==
  /\ \E at \in 0..now :
       current' = [b \in Probe |->
         IF b \in s /\ current[b] # None /\ current[b].observed_at < at
         THEN [current[b] EXCEPT !.invalidated_at = at]
         ELSE current[b]]
  /\ late' = late \cup {p \in Proc : pc[p] = "store" /\ probe[p] \in s}
  /\ outdated' = outdated \cup {b \in s : current[b] # None}
  /\ overtaken' = overtaken \ s
  /\ UNCHANGED <<now, history, opened, pc, created_at, todo, probe, value, read, read_at>>

\* One transaction marks every stored fact of the signal's categories, with
\* the time the caller gives: now, or earlier when it reports late.
InvalidateFor(s) ==
  /\ \E at \in 0..now :
       current' = [b \in Probe |->
         IF b \in s /\ current[b] # None
         THEN [current[b] EXCEPT !.invalidated_at = at]
         ELSE current[b]]
  /\ late' = late \cup {p \in Proc : pc[p] = "store" /\ probe[p] \in s}
  /\ outdated' = outdated \cup {b \in s : current[b] # None}
  /\ overtaken' = overtaken \ s
  /\ UNCHANGED <<now, history, opened, pc, created_at, todo, probe, value, read, read_at>>

Tick ==
  /\ now < MaxTime
  /\ now' = now + 1
  /\ UNCHANGED <<tables, opened, pc, memory, marks>>

Step(p) ==
  \/ StartCase(p) \/ PlanCase(p) \/ StartRefresh(p)
  \/ Collect(p) \/ CollectNothing(p) \/ Store(p) \/ Leave(p)

Next ==
  \/ \E p \in Proc : Step(p)
  \/ \E s \in Signal : InvalidateFor(s)
  \/ Tick

Spec == Init /\ [][Next]_vars

-----------------------------------------------------------------------------
(***************************************************************************)
(* Properties                                                              *)
(***************************************************************************)

\* "A changed fact appends history; identical state updates current context
\* without adding change noise" (docs/packs.md:43-44): whatever processes store
\* in whatever order, the history of a fact ends with its current value and
\* never has the same value twice in a row (sqlite_store.py:82-112).
HistoryIsTheChanges ==
  \A b \in Probe :
    LET h == history[b] IN
    /\ current[b] = None <=> h = <<>>
    /\ current[b] # None => h[Len(h)] = current[b].value
    /\ \A i \in 1..(Len(h) - 1) : h[i] # h[i + 1]

\* A probe that a case leaves out as fresh found its value at most the time to
\* live before the case was created, however long its run, its process and
\* the planning took (case_service.py:73-82, runtime.py:166-191).
FreshWasReadRecently ==
  [][\A p \in Proc : PlanCase(p) =>
       \A b \in FreshProbes(created_at[p]) : read_at[b] + Ttl[b] >= created_at[p]]_vars

\* After a signal about it a fact is stale for cases created from then on,
\* until it is observed again; the one exception is an observation that was
\* already under way at the signal and is stored after it
\* (freshness.py:51-72, sqlite_store.py:115-124).
InvalidationHonoured ==
  outdated \cap FreshProbes(now) \subseteq overtaken

\* A stale fact becomes fresh by storing an observation of its probe and in no
\* other way: a second signal, itself perhaps reported late, never revives
\* what the first has invalidated (domain/inventory.py:42-46).
OnlyStoringRefreshes ==
  [][\A b \in FreshProbes(now)' \ FreshProbes(now) :
       \E p \in Proc : Store(p) /\ probe[p] = b]_vars

=============================================================================
