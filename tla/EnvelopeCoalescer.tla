-------------------------- MODULE EnvelopeCoalescer --------------------------
(***************************************************************************)
(* collection/coalescer.py: repeated events of a source are grouped by     *)
(* their fingerprint.  An OrderedDict holds the groups, the one touched    *)
(* longest ago first; a full coalescer gives that one up for a new key and *)
(* counts it.                                                              *)
(*                                                                         *)
(* An envelope is its key (source_id, fingerprint) and when it was         *)
(* observed, which need not follow the order the envelopes arrive in.      *)
(***************************************************************************)
EXTENDS Naturals, Sequences, FiniteSets

CONSTANTS
  Key,         \* CoalescingKey
  ObservedAt,  \* the instants envelopes may be observed at
  MaxGroups,   \* max_groups
  MaxAdds      \* bound on the calls of add()

ASSUME EnvelopeCoalescerAssumption ==
  /\ ObservedAt \subseteq Nat
  /\ MaxGroups \in Nat \ {0}
  /\ MaxAdds \in Nat

VARIABLES
  groups,         \* _groups
  evicted_count,  \* _evicted_count
  added           \* history: every envelope and what became of it

envelopeCoalescerVars == <<groups, evicted_count, added>>

\* representative and touched are calls of add(): the one whose envelope
\* represents the group, and the one that put it last in the dictionary.
CoalescedGroup ==
  [first_observed_at : ObservedAt, last_observed_at : ObservedAt, count : Nat \ {0},
   representative : Nat \ {0}, touched : Nat \ {0}]

\* An envelope is held in a group, was returned by flush(), or was given up
\* with the n-th group evicted.
Added == [key : Key, observed_at : ObservedAt, flushed : BOOLEAN, evicted : Nat]

EnvelopeCoalescerInit ==
  /\ groups = [k \in {} |-> 0]
  /\ evicted_count = 0
  /\ added = <<>>

NewGroup(at) ==
  [first_observed_at |-> at, last_observed_at |-> at, count |-> 1,
   representative |-> Len(added) + 1, touched |-> Len(added) + 1]

\* Mutant: envelopes are taken to arrive in the order they were observed.
UpdatedInOrder(group, at) ==
  [group EXCEPT !.last_observed_at = at, !.count = @ + 1, !.touched = Len(added) + 1]

\* The group after one more envelope; move_to_end() makes it the last touched.
Updated(group, at) ==
  [first_observed_at |-> IF at < group.first_observed_at THEN at ELSE group.first_observed_at,
   last_observed_at  |-> IF at > group.last_observed_at THEN at ELSE group.last_observed_at,
   count             |-> group.count + 1,
   representative    |-> group.representative,
   touched           |-> Len(added) + 1]

\* Mutant: popitem(), which takes the last.
IsMostRecent(k) == \A g \in DOMAIN groups : groups[g].touched <= groups[k].touched

\* popitem(last=False)
IsLeastRecent(k) == \A g \in DOMAIN groups : groups[k].touched <= groups[g].touched

AddedNow(k, at) == [key |-> k, observed_at |-> at, flushed |-> FALSE, evicted |-> 0]

AddToGroup(k, at) ==
  /\ k \in DOMAIN groups
  /\ groups' = [groups EXCEPT ![k] = Updated(@, at)]
  /\ added' = Append(added, AddedNow(k, at))
  /\ UNCHANGED evicted_count

AddGroup(k, at) ==
  /\ k \notin DOMAIN groups
  /\ Cardinality(DOMAIN groups) # MaxGroups
  /\ groups' = [g \in DOMAIN groups \cup {k} |-> IF g = k THEN NewGroup(at) ELSE groups[g]]
  /\ added' = Append(added, AddedNow(k, at))
  /\ UNCHANGED evicted_count

Held(i) == ~ added[i].flushed /\ added[i].evicted = 0

AddInPlaceOf(k, at) ==
  /\ k \notin DOMAIN groups
  /\ Cardinality(DOMAIN groups) = MaxGroups
  /\ \E old \in DOMAIN groups :
       /\ IsLeastRecent(old)
       /\ groups' = [g \in (DOMAIN groups \ {old}) \cup {k} |->
                       IF g = k THEN NewGroup(at) ELSE groups[g]]
       /\ evicted_count' = evicted_count + 1
       /\ added' = Append([i \in DOMAIN added |->
                             IF Held(i) /\ added[i].key = old
                             THEN [added[i] EXCEPT !.evicted = evicted_count']
                             ELSE added[i]],
                          AddedNow(k, at))

Add(k, at) ==
  /\ Len(added) < MaxAdds
  /\ AddToGroup(k, at) \/ AddGroup(k, at) \/ AddInPlaceOf(k, at)

\* flush() returns the groups and leaves the count of evictions as it is.
Flush ==
  /\ groups' = [k \in {} |-> 0]
  /\ added' = [i \in DOMAIN added |->
                 IF Held(i) THEN [added[i] EXCEPT !.flushed = TRUE] ELSE added[i]]
  /\ UNCHANGED evicted_count

EnvelopeCoalescerNext == Flush \/ \E k \in Key, at \in ObservedAt : Add(k, at)

EnvelopeCoalescerSpec ==
  EnvelopeCoalescerInit /\ [][EnvelopeCoalescerNext]_envelopeCoalescerVars

-----------------------------------------------------------------------------
HeldOf(k) == {i \in DOMAIN added : Held(i) /\ added[i].key = k}

\* Each group tells what became of its key since the group began: how many
\* envelopes, the earliest and the latest observed, whatever order they came
\* in, and the first to arrive stands for it.  Every envelope held is of a
\* group, and evicted_count is the number of groups that took theirs along.
GroupsTellTheStory ==
  /\ \A k \in DOMAIN groups :
       /\ groups[k].count = Cardinality(HeldOf(k))
       /\ groups[k].representative \in HeldOf(k)
       /\ groups[k].touched \in HeldOf(k)
       /\ \A i \in HeldOf(k) :
            /\ groups[k].representative <= i /\ i <= groups[k].touched
            /\ groups[k].first_observed_at <= added[i].observed_at
            /\ added[i].observed_at <= groups[k].last_observed_at
       /\ \E i, j \in HeldOf(k) : /\ groups[k].first_observed_at = added[i].observed_at
                                  /\ groups[k].last_observed_at = added[j].observed_at
  /\ \A i \in DOMAIN added : Held(i) => added[i].key \in DOMAIN groups
  /\ {added[i].evicted : i \in DOMAIN added} \ {0} = 1..evicted_count

\* No more groups than the bound, and one is given up only when the bound's
\* worth of other keys have been seen since it was last touched: a burst of
\* one key, however long, pushes nothing out.
EvictedOnlyForLater ==
  /\ Cardinality(DOMAIN groups) <= MaxGroups
  /\ \A i \in DOMAIN added : added[i].evicted # 0 =>
       \E later \in SUBSET (Key \ {added[i].key}) :
         /\ Cardinality(later) = MaxGroups
         /\ \A k \in later : \E j \in DOMAIN added : i < j /\ added[j].key = k
=============================================================================
