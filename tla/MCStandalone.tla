---------------------------- MODULE MCStandalone ----------------------------
(***************************************************************************)
(* The single writer, and the parts of the program that share nothing with *)
(* it or with each other: a behaviour is one of one part, and the others   *)
(* stay as they are initially.                                             *)
(***************************************************************************)
EXTENDS SingleWriter, EnvelopeQueue, EnvelopeCoalescer, Snapshots, LogIncrements, Capabilities

CONSTANTS s1, s2, k1, k2, k3

VARIABLE part

MCSource == {s1, s2}
MCOffered ==
  {[source |-> s1, states |-> "observed_fact"], [source |-> s2, states |-> "change"],
   [source |-> s1, states |-> "missing"], [source |-> s2, states |-> "coverage"]}
MCKey == {k1, k2, k3}
MCLimit == [s \in Bounded |-> IF s \in {"connections", "packages"} THEN 1 ELSE 2]
MCRawLimit == [s \in Bounded |-> 2]

\* Bound: no line of the servicing log has both the word and a "!!!".
OneMark == \A i \in DOMAIN log : log[i].word = {} \/ log[i].bang = {}

Part == {"writer", "queue", "coalescer", "snapshot", "log", "capabilities"}

MCInit ==
  /\ part \in Part
  /\ Init
  /\ EnvelopeQueueInit
  /\ EnvelopeCoalescerInit
  /\ SnapshotInit /\ (part # "snapshot" => probe = "application")
  /\ LogInit /\ OneMark /\ (part # "log" => log = <<>> /\ format = "setupapi")
  /\ CapabilitiesInit /\ (part # "capabilities" => clock = 0)

MCNext ==
  /\ UNCHANGED part
  /\ \/ part = "writer" /\ Next
     \/ part # "writer" /\ UNCHANGED vars
  /\ \/ part = "queue" /\ EnvelopeQueueNext
     \/ part # "queue" /\ UNCHANGED envelopeQueueVars
  /\ \/ part = "coalescer" /\ EnvelopeCoalescerNext
     \/ part # "coalescer" /\ UNCHANGED envelopeCoalescerVars
  /\ \/ part = "snapshot" /\ SnapshotNext
     \/ part # "snapshot" /\ UNCHANGED snapshotVars
  /\ \/ part = "log" /\ LogNext
     \/ part # "log" /\ UNCHANGED logVars
  /\ \/ part = "capabilities" /\ CapabilitiesNext
     \/ part # "capabilities" /\ UNCHANGED capabilityVars

allVars == <<vars, envelopeQueueVars, envelopeCoalescerVars, snapshotVars, logVars,
             capabilityVars, part>>

\* The fairness of SingleWriter, in the behaviours of the writer.
MCFairness ==
  /\ WF_vars(part = "writer" /\ Worker)
  /\ \A c \in Caller : WF_vars(part = "writer" /\ Advance(c))

MCSpec == MCInit /\ [][MCNext]_allVars /\ MCFairness
=============================================================================
