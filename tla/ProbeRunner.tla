---------------------------- MODULE ProbeRunner -----------------------------
(***************************************************************************)
(* ProbeRunner.run and the per-probe CircuitBreaker it consults: one       *)
(* process, one run at a time, two clocks.  The wall clock may be set      *)
(* forward or back between any two steps (it is what the circuits compare  *)
(* with); the time an execution has taken is monotonic.                    *)
(***************************************************************************)
EXTENDS Naturals

CONSTANTS
  Probe,             \* registered probes
  Isolated,          \* those run in a one-shot worker process
  Registered,        \* REGISTERED_PROBE_IDS: the isolated probes a worker knows
  FailureThreshold,  \* circuit_failure_threshold
  Cooldown,          \* circuit_cooldown, in ticks
  Timeout,           \* manifest.limits.timeout_ms, in ticks
  Grace,             \* what the executor leaves a worker it has terminated
  MaxTime,           \* bound on the wall clock
  MaxElapsed,        \* bound on the time one execution takes
  MaxFailures,       \* bound: no execution after that many failures in a row
  None

\* A finished execution has a status; "raised" is an exception that leaves
\* run() without passing through _finished_result: the worker process could
\* not be spawned, its output was not text or not JSON objects, the
\* observation could not be serialised, or the call was interrupted.
ExecutionEnd == {"ok", "denied", "failed", "timed_out", "truncated", "raised"}
Failure == {"failed", "timed_out", "truncated"}

\* When a worker is gone, whatever it was doing.
Deadline == Timeout + Grace

ASSUME ProbeRunnerAssumption ==
  /\ Isolated \subseteq Probe
  /\ Registered \subseteq Isolated
  /\ FailureThreshold \in Nat \ {0}
  /\ Cooldown \in Nat \ {0}
  /\ Timeout \in Nat \ {0}
  /\ Grace \in Nat
  /\ MaxTime \in Nat
  /\ MaxElapsed \in Nat
  /\ MaxFailures \in Nat
  /\ None \notin Probe

VARIABLES
  now,            \* wall clock
  elapsed,        \* how long the current execution has been running
  running,        \* the probe being executed, or None
  state,          \* CircuitBreaker._state
  failure_count,  \* CircuitBreaker._failure_count
  opened_until,   \* CircuitBreaker._opened_until; 0 stands for None
  answer,         \* what the last call of run() gave its caller; none during a call
  streak,         \* history: failures recorded since the last success
  last_failure,   \* history: the wall clock when the last one was recorded
  unrecorded      \* history: probes a trial of which ended in an exception

circuits == <<state, failure_count, opened_until>>
history == <<streak, last_failure, unrecorded>>
vars == <<now, elapsed, running, circuits, answer, history>>

CircuitState == {"closed", "open", "half_open"}
Answer == ExecutionEnd \cup {"unavailable", "none"}

TypeOK ==
  /\ now \in 0..MaxTime
  /\ elapsed \in 0..MaxElapsed
  /\ running \in Probe \cup {None}
  /\ state \in [Probe -> CircuitState]
  /\ failure_count \in [Probe -> Nat]
  /\ opened_until \in [Probe -> Nat]
  /\ answer \in [probe : Probe \cup {None}, status : Answer]
  /\ streak \in [Probe -> Nat]
  /\ last_failure \in [Probe -> Nat]
  /\ unrecorded \subseteq Probe

Init ==
  /\ now \in 0..MaxTime
  /\ elapsed = 0
  /\ running = None
  /\ state = [b \in Probe |-> "closed"]
  /\ failure_count = [b \in Probe |-> 0]
  /\ opened_until = [b \in Probe |-> 0]
  /\ answer = [probe |-> None, status |-> "none"]
  /\ streak = [b \in Probe |-> 0]
  /\ last_failure = [b \in Probe |-> 0]
  /\ unrecorded = {}

Reply(b, status) == answer' = [probe |-> b, status |-> status]

-----------------------------------------------------------------------------
\* CircuitBreaker.allow: whether it answers yes, and what it turns into.
Allows(b) ==
  \/ state[b] = "closed"
  \/ state[b] = "open" /\ now >= opened_until[b]

Allow(b) ==
  state' = [state EXCEPT ![b] = IF @ = "open" THEN "half_open" ELSE @]

\* Mutant: a failed trial only counts towards the threshold again.
RecordFailureNoReopen(b) ==
  /\ failure_count' = [failure_count EXCEPT ![b] = IF state[b] = "half_open" THEN 1 ELSE @ + 1]
  /\ IF state[b] # "half_open" /\ failure_count[b] + 1 >= FailureThreshold
     THEN /\ state' = [state EXCEPT ![b] = "open"]
          /\ opened_until' = [opened_until EXCEPT ![b] = now + Cooldown]
     ELSE /\ state' = [state EXCEPT ![b] = "closed"]
          /\ UNCHANGED opened_until

RecordFailure(b) ==
  /\ failure_count' = [failure_count EXCEPT ![b] = @ + 1]
  /\ IF state[b] = "half_open" \/ failure_count[b] + 1 >= FailureThreshold
     THEN /\ state' = [state EXCEPT ![b] = "open"]
          /\ opened_until' = [opened_until EXCEPT ![b] = now + Cooldown]
     ELSE UNCHANGED <<state, opened_until>>

\* Mutant: the count survives a success.
RecordSuccessKeepsCount(b) ==
  /\ state' = [state EXCEPT ![b] = "closed"]
  /\ opened_until' = [opened_until EXCEPT ![b] = 0]
  /\ UNCHANGED failure_count

RecordSuccess(b) ==
  /\ failure_count' = [failure_count EXCEPT ![b] = 0]
  /\ state' = [state EXCEPT ![b] = "closed"]
  /\ opened_until' = [opened_until EXCEPT ![b] = 0]

-----------------------------------------------------------------------------
\* The policy refuses the probe or its parameters before the circuit is asked.
PolicyDenies(b) ==
  /\ running = None
  /\ Reply(b, "denied")
  /\ UNCHANGED <<now, elapsed, running, circuits, history>>

CircuitRefuses(b) ==
  /\ running = None
  /\ ~ Allows(b)
  /\ Reply(b, "unavailable")
  /\ UNCHANGED <<now, elapsed, running, circuits, history>>

Execute(b) ==
  /\ running = None
  /\ streak[b] < MaxFailures
  /\ Allows(b)
  /\ Allow(b)
  /\ running' = b
  /\ elapsed' = 0
  /\ Reply(None, "none")
  /\ UNCHANGED <<now, failure_count, opened_until, history>>

\* The executor terminates a worker at its deadline; nothing interrupts a
\* handler that runs in this process.
Continue ==
  /\ running # None
  /\ running \in Isolated => elapsed < Deadline
  /\ elapsed < MaxElapsed
  /\ elapsed' = elapsed + 1
  /\ UNCHANGED <<now, running, circuits, answer, history>>

\* The executor denies by a constant set: an isolated probe that is not in it
\* is denied every time, any other probe never.  Only a worker can time out;
\* both kinds can fail, exceed their output limits, succeed and raise.
CanEnd(b, e) ==
  /\ b \in Isolated \ Registered => e \in {"denied", "raised"}
  /\ e = "denied" => b \in Isolated \ Registered
  /\ e = "timed_out" => b \in Isolated /\ elapsed >= Timeout

\* _finished_result: success and failure reach the circuit, a denial and an
\* exception do not.  A failure whose error text ProbeRun rejects for its
\* length is recorded first and raised then.
FinishAs(b, e) ==
  /\ running = b
  /\ CanEnd(b, e)
  /\ \/ /\ e = "ok"
        /\ RecordSuccess(b)
        /\ streak' = [streak EXCEPT ![b] = 0]
        /\ Reply(b, e)
        /\ UNCHANGED <<last_failure, unrecorded>>
     \/ /\ e \in Failure
        /\ RecordFailure(b)
        /\ streak' = [streak EXCEPT ![b] = @ + 1]
        /\ last_failure' = [last_failure EXCEPT ![b] = now]
        /\ \/ Reply(b, e)
           \/ e = "failed" /\ Reply(b, "raised")
        /\ UNCHANGED unrecorded
     \/ /\ e = "denied"
        /\ Reply(b, e)
        /\ UNCHANGED <<circuits, history>>
     \/ /\ e = "raised"
        /\ Reply(b, e)
        /\ unrecorded' = IF state[b] = "half_open" THEN unrecorded \cup {b} ELSE unrecorded
        /\ UNCHANGED <<circuits, streak, last_failure>>
  /\ running' = None
  /\ elapsed' = 0
  /\ UNCHANGED now

Finish(b) == \E e \in ExecutionEnd : FinishAs(b, e)

ClockSet ==
  /\ now' \in 0..MaxTime
  /\ UNCHANGED <<elapsed, running, circuits, answer, history>>

Next ==
  \/ \E b \in Probe : PolicyDenies(b) \/ CircuitRefuses(b) \/ Execute(b) \/ Finish(b)
  \/ Continue
  \/ ClockSet

Spec == Init /\ [][Next]_vars

-----------------------------------------------------------------------------
(***************************************************************************)
(* Properties                                                              *)
(***************************************************************************)

\* A probe whose last FailureThreshold recorded executions failed, with no
\* success since, is not executed again before Cooldown has passed on the
\* wall clock since the last of them, trial executions included
\* (circuit_breaker.py:31-48, probes.py:133-140).
CooldownHonoured ==
  [][\A b \in Probe :
       Execute(b) /\ streak[b] >= FailureThreshold => now >= last_failure[b] + Cooldown]_vars

\* docs/packs.md says that one half-open attempt determines whether the
\* source has recovered: a half-open circuit is one whose trial is being
\* executed right now.
TrialResolved ==
  \A b \in Probe : state[b] = "half_open" => running = b

\* What the code does keep of it: a circuit stays half open, and refuses its
\* probe for ever, only after a trial that an exception carried past
\* record_success and record_failure (probes.py:145-248); no other sequence of
\* calls, denials, clock settings and ends leaves a trial behind.
OnlyUnrecordedTrialsStick ==
  \A b \in Probe : state[b] = "half_open" => running = b \/ b \in unrecorded

\* A probe is reported unavailable only for such a trial, or while it is
\* cooling down after FailureThreshold failures in a row, never because of an
\* earlier series that a success has ended (probes.py:133-140).
RefusalJustified ==
  [][\A b \in Probe : CircuitRefuses(b) =>
       \/ b \in unrecorded
       \/ streak[b] >= FailureThreshold /\ now < last_failure[b] + Cooldown]_vars

=============================================================================
