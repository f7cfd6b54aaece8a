---------------------------- MODULE EnvelopeQueue ----------------------------
(***************************************************************************)
(* collection/queue.py with the priorities of collection/envelope.py: a    *)
(* queue of fixed size in front of the evidence of a case.  A full queue   *)
(* drops its worst envelope, or the one offered if that is no better, and  *)
(* answers with a coverage envelope that says so; the caller has to offer  *)
(* that one itself.                                                        *)
(*                                                                         *)
(* An envelope is its source and what it states: fingerprint, payload,     *)
(* category and dates are carried along and decide nothing.                *)
(***************************************************************************)
EXTENDS Naturals, Sequences, FiniteSets

CONSTANTS
  Source,     \* source_id of an envelope
  Offered,    \* the envelopes that may be offered
  MaxSize,    \* max_size
  MaxOffers,  \* bound on the calls of offer()
  NoReport    \* overflow of an OfferResult that dropped nothing

StatementKind == {"observed_fact", "change", "correlation", "contradiction",
                  "missing", "unavailable"}

\* statement_kind of an EvidenceEnvelope, "coverage" for a CoverageEnvelope.
Envelope == [source : Source, states : StatementKind \cup {"coverage"}]

ASSUME EnvelopeQueueAssumption ==
  /\ Offered \subseteq Envelope
  /\ MaxSize \in Nat \ {0}
  /\ MaxOffers \in Nat
  /\ NoReport \notin Envelope

VARIABLES
  items,          \* _items; what orders them is their sequence
  next_sequence,  \* _next_sequence
  left            \* history: what left the queue, in the order it left

envelopeQueueVars == <<items, next_sequence, left>>

Queued == [sequence : Nat, envelope : Envelope]

\* EnvelopePriority: nothing is created LOW.
Priority(e) ==
  CASE e.states \in {"coverage", "missing", "unavailable"} -> 0
    [] e.states \in {"change", "contradiction"}            -> 1
    [] OTHER                                               -> 2

\* The sort key (priority, sequence) of min() and max().
Before(a, b) ==
  \/ Priority(a.envelope) < Priority(b.envelope)
  \/ /\ Priority(a.envelope) = Priority(b.envelope)
     /\ a.sequence < b.sequence

\* Mutant: max() by the priority alone, which finds the oldest of the worst.
WorstByPriority(w) ==
  /\ w \in items
  /\ \A x \in items : \/ Priority(x.envelope) < Priority(w.envelope)
                      \/ Priority(x.envelope) = Priority(w.envelope) /\ x.sequence >= w.sequence

IsWorst(w) == w \in items /\ \A x \in items \ {w} : Before(x, w)
IsBest(b) == b \in items /\ \A x \in items \ {b} : Before(b, x)

OverflowFor(e) == [source |-> e.source, states |-> "coverage"]

\* How an item left, the overflow its dropping was answered with, and how many
\* envelopes had been offered by then.
Leaving(x, how, overflow) ==
  [item |-> x, how |-> how, overflow |-> overflow, offers |-> next_sequence']

EnvelopeQueueInit ==
  /\ items = {}
  /\ next_sequence = 0
  /\ left = <<>>

Accept(x) ==
  /\ Cardinality(items) < MaxSize
  /\ items' = items \cup {x}
  /\ UNCHANGED left

\* Mutant: the overflow is reported of the envelope that came in.
DisplaceMisreported(x) ==
  /\ Cardinality(items) >= MaxSize
  /\ \E worst \in items :
       /\ IsWorst(worst)
       /\ Priority(x.envelope) < Priority(worst.envelope)
       /\ items' = (items \ {worst}) \cup {x}
       /\ left' = Append(left, Leaving(worst, "dropped", OverflowFor(x.envelope)))

Displace(x) ==
  /\ Cardinality(items) >= MaxSize
  /\ \E worst \in items :
       /\ IsWorst(worst)
       /\ Priority(x.envelope) < Priority(worst.envelope)
       /\ items' = (items \ {worst}) \cup {x}
       /\ left' = Append(left, Leaving(worst, "dropped", OverflowFor(worst.envelope)))

Refuse(x) ==
  /\ Cardinality(items) >= MaxSize
  /\ \E worst \in items :
       /\ IsWorst(worst)
       /\ Priority(x.envelope) >= Priority(worst.envelope)
  /\ UNCHANGED items
  /\ left' = Append(left, Leaving(x, "dropped", OverflowFor(x.envelope)))

Offer(e) ==
  LET x == [sequence |-> next_sequence, envelope |-> e]
  IN  /\ next_sequence < MaxOffers
      /\ next_sequence' = next_sequence + 1
      /\ Accept(x) \/ Displace(x) \/ Refuse(x)

\* pop() of an empty queue raises and changes nothing.
Pop ==
  /\ UNCHANGED next_sequence
  /\ \E best \in items :
       /\ IsBest(best)
       /\ items' = items \ {best}
       /\ left' = Append(left, Leaving(best, "popped", NoReport))

EnvelopeQueueNext == Pop \/ \E e \in Offered : Offer(e)

EnvelopeQueueSpec == EnvelopeQueueInit /\ [][EnvelopeQueueNext]_envelopeQueueVars

-----------------------------------------------------------------------------
\* Nothing offered to the queue is lost or doubled without a word: every
\* sequence number given out is of one envelope, which is in the queue or left
\* it once, popped or with an overflow that names its source; and the queue
\* keeps its bound.  (Overflow coverage, BoundedEnvelopeQueue.offer.)
QueueAccounts ==
  /\ Cardinality(items) <= MaxSize
  /\ \A n \in 0..(next_sequence - 1) :
       (\E x \in items : x.sequence = n) # (\E i \in DOMAIN left : left[i].item.sequence = n)
  /\ \A x, y \in items : x.sequence = y.sequence => x = y
  /\ \A i, j \in DOMAIN left : left[i].item.sequence = left[j].item.sequence => i = j
  /\ \A i \in DOMAIN left :
       left[i].overflow = IF left[i].how = "popped" THEN NoReport
                          ELSE [source |-> left[i].item.envelope.source, states |-> "coverage"]

\* What was in the queue when the i-th envelope left it and is or went later.
Outlasted(i) ==
  {x \in items \cup {left[j].item : j \in {k \in DOMAIN left : i < k}} :
     x.sequence < left[i].offers}

\* Whatever comes and goes, nothing is popped while something more urgent, or
\* as urgent and longer there, waits; and nothing is dropped in favour of
\* something less urgent, or as urgent and newer.
UrgentFirst ==
  \A i \in DOMAIN left : \A x \in Outlasted(i) :
    IF left[i].how = "popped" THEN Before(left[i].item, x) ELSE Before(x, left[i].item)
=============================================================================
