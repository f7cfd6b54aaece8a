----------------------------- MODULE AuditChain -----------------------------
(***************************************************************************)
(* The hash-linked audit log of systemsense/audit.py as operators on a     *)
(* sequence of entries.                                                    *)
(*                                                                         *)
(* SHA-256 over the canonical JSON of an entry is modelled by an injective *)
(* hash: the digest of an entry is its predecessor's digest with the       *)
(* entry's own body appended, so two entries have one digest exactly when  *)
(* they have the same body and the same predecessor digest.                *)
(***************************************************************************)
EXTENDS Naturals, Sequences

CONSTANTS
  Probe,     \* probe identifiers
  Outcome    \* the outcomes an entry may carry (AuditOutcome)

Body == [sequence : Nat, probe : Probe, outcome : Outcome]
Digest == Seq(Body)

AuditEntry ==
  [sequence : Nat, probe : Probe, outcome : Outcome,
   previous_hash : Digest, event_hash : Digest]

GenesisHash == <<>>

BodyOf(e) == [sequence |-> e.sequence, probe |-> e.probe, outcome |-> e.outcome]

HashEntry(e) == Append(e.previous_hash, BodyOf(e))

HeadHash(entries) ==
  IF entries = <<>> THEN GenesisHash ELSE entries[Len(entries)].event_hash

\* Mutant: every entry links to the genesis digest.
NextEntryUnlinked(entries, probe, outcome) ==
  LET candidate == [sequence |-> Len(entries) + 1,
                    probe |-> probe,
                    outcome |-> outcome,
                    previous_hash |-> GenesisHash,
                    event_hash |-> GenesisHash]
  IN  [candidate EXCEPT !.event_hash = HashEntry(candidate)]

\* The entry append() builds after the entries it already holds.
NextEntry(entries, probe, outcome) ==
  LET candidate == [sequence |-> Len(entries) + 1,
                    probe |-> probe,
                    outcome |-> outcome,
                    previous_hash |-> HeadHash(entries),
                    event_hash |-> GenesisHash]
  IN  [candidate EXCEPT !.event_hash = HashEntry(candidate)]

Checkpoint(entries) ==
  [entry_count |-> Len(entries), head_hash |-> HeadHash(entries)]

\* The digest entry i of the sequence must name as its predecessor.
ExpectedPrevious(entries, i) ==
  IF i = 1 THEN GenesisHash ELSE entries[i - 1].event_hash

Linked(entries) ==
  \A i \in 1..Len(entries) :
    /\ entries[i].sequence = i
    /\ entries[i].previous_hash = ExpectedPrevious(entries, i)
    /\ entries[i].event_hash = HashEntry(entries[i])

Verify(entries, checkpoint) ==
  /\ Len(entries) = checkpoint.entry_count
  /\ Linked(entries)
  /\ HeadHash(entries) = checkpoint.head_hash

=============================================================================
