------------------------- MODULE ProbeRunnerProofs --------------------------
(***************************************************************************)
(* What holds of ProbeRunner for every set of probes, threshold, cooldown  *)
(* and deadline.  The circuit breaker keeps a count, a state and a time;   *)
(* CircuitInv says how they relate to what really happened (streak and     *)
(* last_failure), and the properties of ProbeRunner follow from it.  They  *)
(* carry over to WorkerProtocol, whose steps are steps of ProbeRunner.     *)
(***************************************************************************)
EXTENDS WorkerProtocol, SequenceTheorems, InductionLemmas, TLAPS

USE DEF CircuitState

Circuit(b) ==
  /\ failure_count[b] = streak[b]
  /\ state[b] = "closed" <=> streak[b] < FailureThreshold
  /\ state[b] = "open" => opened_until[b] = last_failure[b] + Cooldown
  /\ running = b => state[b] # "open"
  /\ b \in Isolated \ Registered => streak[b] = 0

CircuitInv == TypeOK /\ \A b \in Probe : Circuit(b)

-----------------------------------------------------------------------------
\* Every value the runner and its circuits hold has its type.
THEOREM TypeCorrect == Spec => []TypeOK
<1>1. Init => TypeOK
  BY ProbeRunnerAssumption DEF Init, TypeOK, Answer
<1>2. TypeOK /\ [Next]_vars => TypeOK'
  <2> SUFFICES ASSUME TypeOK, [Next]_vars PROVE TypeOK'
    OBVIOUS
  <2> USE ProbeRunnerAssumption
  <2>1. ASSUME NEW b \in Probe, PolicyDenies(b) \/ CircuitRefuses(b) PROVE TypeOK'
    BY <2>1 DEF TypeOK, PolicyDenies, CircuitRefuses, Reply, Answer, ExecutionEnd, circuits, history
  <2>2. ASSUME NEW b \in Probe, Execute(b) PROVE TypeOK'
    BY <2>2 DEF TypeOK, Execute, Allow, Reply, Answer, history
  <2>3. ASSUME NEW b \in Probe, Finish(b) PROVE TypeOK'
    <3>1. PICK e \in ExecutionEnd :
            \/ /\ RecordSuccess(b)
               /\ streak' = [streak EXCEPT ![b] = 0]
               /\ Reply(b, e)
               /\ UNCHANGED <<last_failure, unrecorded>>
            \/ /\ RecordFailure(b)
               /\ streak' = [streak EXCEPT ![b] = @ + 1]
               /\ last_failure' = [last_failure EXCEPT ![b] = now]
               /\ Reply(b, e) \/ Reply(b, "raised")
               /\ UNCHANGED unrecorded
            \/ /\ Reply(b, e)
               /\ unrecorded' \in {unrecorded, unrecorded \cup {b}}
               /\ UNCHANGED <<circuits, streak, last_failure>>
      BY <2>3 DEF Finish, FinishAs, history
    <3>2. running' = None /\ elapsed' = 0 /\ now' = now
      BY <2>3 DEF Finish, FinishAs
    <3>3. answer' \in [probe : Probe \cup {None}, status : Answer]
      BY <3>1 DEF TypeOK, Reply, Answer, ExecutionEnd
    <3>4. /\ state' \in [Probe -> CircuitState]
          /\ failure_count' \in [Probe -> Nat]
          /\ opened_until' \in [Probe -> Nat]
      BY <3>1 DEF TypeOK, RecordSuccess, RecordFailure, circuits
    <3>5. /\ streak' \in [Probe -> Nat] /\ last_failure' \in [Probe -> Nat]
          /\ unrecorded' \subseteq Probe
      BY <3>1 DEF TypeOK
    <3>6. QED
      BY <3>2, <3>3, <3>4, <3>5 DEF TypeOK
  <2>4. CASE Continue
    BY <2>4 DEF TypeOK, Continue, circuits, history
  <2>5. CASE ClockSet
    BY <2>5 DEF TypeOK, ClockSet, circuits, history
  <2>6. CASE UNCHANGED vars
    BY <2>6 DEF TypeOK, vars, circuits, history
  <2>7. QED
    BY <2>1, <2>2, <2>3, <2>4, <2>5, <2>6 DEF Next
<1>3. QED
  BY <1>1, <1>2, PTL DEF Spec

-----------------------------------------------------------------------------
\* A finished execution leaves the circuit of its probe consistent, and
\* those of the other probes alone.
LEMMA FinishKeepsCircuits ==
  ASSUME CircuitInv, NEW d \in Probe, Finish(d), NEW b \in Probe
  PROVE  Circuit(b)'
<1> USE ProbeRunnerAssumption
<1>1. running = d /\ running' = None /\ None \notin Probe
  BY DEF Finish, FinishAs
<1>2. TypeOK /\ Circuit(b) /\ state[d] # "open"
  BY <1>1 DEF CircuitInv, Circuit
<1>3. PICK e \in ExecutionEnd :
        \/ /\ RecordSuccess(d)
           /\ streak' = [streak EXCEPT ![d] = 0]
           /\ UNCHANGED last_failure
        \/ /\ RecordFailure(d)
           /\ streak' = [streak EXCEPT ![d] = @ + 1]
           /\ last_failure' = [last_failure EXCEPT ![d] = now]
        \/ UNCHANGED <<circuits, streak, last_failure>>
  BY DEF Finish, FinishAs, history
<1>7. d \in Isolated \ Registered => streak' = streak
  BY DEF Finish, FinishAs, CanEnd, Failure, history
<1>4. CASE b # d
  BY <1>1, <1>2, <1>3, <1>4 DEF Circuit, RecordSuccess, RecordFailure, TypeOK, circuits
<1>5. CASE b = d
  <2>1. CASE RecordSuccess(d) /\ streak' = [streak EXCEPT ![d] = 0] /\ UNCHANGED last_failure
    BY <1>1, <1>2, <1>5, <2>1 DEF Circuit, RecordSuccess, TypeOK
  <2>2. CASE /\ RecordFailure(d)
             /\ streak' = [streak EXCEPT ![d] = @ + 1]
             /\ last_failure' = [last_failure EXCEPT ![d] = now]
    <3>1. failure_count'[b] = streak'[b] /\ streak'[b] = streak[b] + 1 /\ last_failure'[b] = now
      BY <1>2, <1>5, <2>2 DEF Circuit, RecordFailure, TypeOK
    <3>5. b \notin Isolated \ Registered
      BY <1>2, <1>5, <1>7, <3>1 DEF TypeOK
    <3>2. CASE state[b] = "half_open" \/ failure_count[b] + 1 >= FailureThreshold
      <4>1. state'[b] = "open" /\ opened_until'[b] = now + Cooldown
        BY <1>5, <2>2, <3>2, <1>2 DEF RecordFailure, TypeOK
      <4>2. streak'[b] >= FailureThreshold
        BY <1>2, <3>1, <3>2 DEF Circuit, TypeOK
      <4>3. QED
        BY <1>1, <3>1, <3>5, <4>1, <4>2, <1>2 DEF Circuit, TypeOK
    <3>3. CASE ~ (state[b] = "half_open" \/ failure_count[b] + 1 >= FailureThreshold)
      BY <1>1, <1>2, <1>5, <2>2, <3>1, <3>3, <3>5 DEF Circuit, RecordFailure, TypeOK
    <3>4. QED
      BY <3>2, <3>3
  <2>3. CASE UNCHANGED <<circuits, streak, last_failure>>
    BY <1>1, <1>2, <2>3 DEF Circuit, circuits
  <2>4. QED
    BY <1>3, <2>1, <2>2, <2>3
<1>6. QED
  BY <1>4, <1>5

\* The circuits always tell how many failures in a row there were and, while
\* open, when the last of them was.
THEOREM CircuitsAreConsistent == Spec => []CircuitInv
<1>1. Init => \A b \in Probe : Circuit(b)
  <2> SUFFICES ASSUME Init, NEW b \in Probe PROVE Circuit(b)
    OBVIOUS
  <2>1. 0 < FailureThreshold
    BY ProbeRunnerAssumption
  <2>2. state[b] = "closed" /\ failure_count[b] = 0 /\ streak[b] = 0
    BY DEF Init
  <2>3. QED
    BY <2>1, <2>2 DEF Circuit
<1>2. CircuitInv /\ [Next]_vars => (\A b \in Probe : Circuit(b))'
  <2> SUFFICES ASSUME CircuitInv, [Next]_vars, NEW b \in Probe PROVE Circuit(b)'
    OBVIOUS
  <2> USE ProbeRunnerAssumption
  <2>1. TypeOK /\ Circuit(b)
    BY DEF CircuitInv
  <2>2. ASSUME NEW d \in Probe, PolicyDenies(d) \/ CircuitRefuses(d) PROVE Circuit(b)'
    BY <2>1, <2>2 DEF PolicyDenies, CircuitRefuses, Circuit, circuits, history
  <2>3. ASSUME NEW d \in Probe, Execute(d) PROVE Circuit(b)'
    BY <2>1, <2>3 DEF Execute, Allow, Allows, Circuit, TypeOK, history
  <2>4. ASSUME NEW d \in Probe, Finish(d) PROVE Circuit(b)'
    BY <2>4, FinishKeepsCircuits
  <2>5. CASE Continue \/ ClockSet \/ UNCHANGED vars
    BY <2>1, <2>5 DEF Continue, ClockSet, vars, Circuit, circuits, history
  <2>6. QED
    BY <2>2, <2>3, <2>4, <2>5 DEF Next
<1>3. QED
  BY <1>1, <1>2, TypeCorrect, PTL DEF Spec, CircuitInv

\* After FailureThreshold failures in a row a probe is not executed again
\* before the cooldown has passed since the last of them, however the wall
\* clock is set and whatever becomes of the trial executions.
THEOREM CooldownIsHonoured == Spec => CooldownHonoured
<1>1. CircuitInv /\ [Next]_vars =>
        [\A b \in Probe :
           Execute(b) /\ streak[b] >= FailureThreshold => now >= last_failure[b] + Cooldown]_vars
  <2> SUFFICES ASSUME CircuitInv, NEW b \in Probe, Execute(b), streak[b] >= FailureThreshold
               PROVE  now >= last_failure[b] + Cooldown
    OBVIOUS
  <2>1. TypeOK /\ Circuit(b)
    BY DEF CircuitInv
  <2>2. state[b] # "closed"
    BY <2>1, ProbeRunnerAssumption DEF Circuit, TypeOK
  <2>3. state[b] = "open" /\ now >= opened_until[b]
    BY <2>2 DEF Execute, Allows
  <2>4. QED
    BY <2>1, <2>3 DEF Circuit
<1>2. QED
  BY <1>1, CircuitsAreConsistent, PTL DEF Spec, CooldownHonoured

-----------------------------------------------------------------------------
\* A circuit stays half open after its trial only if the trial ended without
\* reaching the circuit breaker.
THEOREM TrialsAreResolved == Spec => []OnlyUnrecordedTrialsStick
<1>1. Init => OnlyUnrecordedTrialsStick
  BY DEF Init, OnlyUnrecordedTrialsStick
<1>2. CircuitInv /\ OnlyUnrecordedTrialsStick /\ [Next]_vars => OnlyUnrecordedTrialsStick'
  <2> SUFFICES ASSUME CircuitInv, OnlyUnrecordedTrialsStick, [Next]_vars,
                      NEW b \in Probe, state'[b] = "half_open"
               PROVE  running' = b \/ b \in unrecorded'
    BY DEF OnlyUnrecordedTrialsStick
  <2> USE ProbeRunnerAssumption
  <2>1. TypeOK /\ (state[b] = "half_open" => running = b \/ b \in unrecorded)
    BY DEF CircuitInv, OnlyUnrecordedTrialsStick
  <2>2. ASSUME NEW d \in Probe, PolicyDenies(d) \/ CircuitRefuses(d)
        PROVE  running' = b \/ b \in unrecorded'
    BY <2>1, <2>2 DEF PolicyDenies, CircuitRefuses, circuits, history
  <2>3. ASSUME NEW d \in Probe, Execute(d) PROVE running' = b \/ b \in unrecorded'
    BY <2>1, <2>3 DEF Execute, Allow, TypeOK, history
  <2>4. ASSUME NEW d \in Probe, Finish(d) PROVE running' = b \/ b \in unrecorded'
    <3>1. running = d /\ running' = None
      BY <2>4 DEF Finish, FinishAs
    <3>2. \/ (RecordSuccess(d) \/ RecordFailure(d)) /\ UNCHANGED unrecorded
          \/ /\ unrecorded' = IF state[d] = "half_open" THEN unrecorded \cup {d} ELSE unrecorded
             /\ UNCHANGED circuits
          \/ UNCHANGED <<circuits, unrecorded>> /\ d \in Isolated \ Registered
      BY <2>4 DEF Finish, FinishAs, CanEnd, history
    <3>3. CASE (RecordSuccess(d) \/ RecordFailure(d)) /\ UNCHANGED unrecorded
      <4>1. state[d] = "half_open" => state'[d] # "half_open"
        BY <2>1, <3>3 DEF RecordSuccess, RecordFailure, TypeOK
      <4>2. state'[b] = "half_open" => state[b] = "half_open"
        BY <2>1, <3>3 DEF RecordSuccess, RecordFailure, TypeOK
      <4>3. QED
        BY <2>1, <3>1, <3>3, <4>1, <4>2
    <3>4. CASE /\ unrecorded' = IF state[d] = "half_open" THEN unrecorded \cup {d} ELSE unrecorded
               /\ UNCHANGED circuits
      BY <2>1, <3>1, <3>4 DEF circuits
    <3>5. CASE UNCHANGED <<circuits, unrecorded>> /\ d \in Isolated \ Registered
      <4>1. state[d] = "closed"
        BY <3>5, <3>1 DEF CircuitInv, Circuit
      <4>. QED
        BY <2>1, <3>1, <3>5, <4>1 DEF circuits
    <3>6. QED
      BY <3>2, <3>3, <3>4, <3>5
  <2>5. CASE Continue \/ ClockSet \/ UNCHANGED vars
    BY <2>1, <2>5 DEF Continue, ClockSet, vars, circuits, history
  <2>6. QED
    BY <2>2, <2>3, <2>4, <2>5 DEF Next
<1>3. QED
  BY <1>1, <1>2, CircuitsAreConsistent, PTL DEF Spec

\* A refusal has one of two reasons: such a trial, or FailureThreshold
\* failures in a row and a cooldown that is not over.
THEOREM RefusalIsJustified == Spec => RefusalJustified
<1>1. CircuitInv /\ OnlyUnrecordedTrialsStick /\ [Next]_vars =>
        [\A b \in Probe : CircuitRefuses(b) =>
           \/ b \in unrecorded
           \/ streak[b] >= FailureThreshold /\ now < last_failure[b] + Cooldown]_vars
  <2> SUFFICES ASSUME CircuitInv, OnlyUnrecordedTrialsStick, NEW b \in Probe, CircuitRefuses(b),
                      b \notin unrecorded
               PROVE  streak[b] >= FailureThreshold /\ now < last_failure[b] + Cooldown
    OBVIOUS
  <2>1. TypeOK /\ Circuit(b)
    BY DEF CircuitInv
  <2>2. running = None /\ state[b] # "closed" /\ ~ (state[b] = "open" /\ now >= opened_until[b])
    BY DEF CircuitRefuses, Allows
  <2>3. state[b] = "open"
    BY <2>1, <2>2, ProbeRunnerAssumption DEF OnlyUnrecordedTrialsStick, TypeOK
  <2>4. QED
    BY <2>1, <2>2, <2>3, ProbeRunnerAssumption DEF Circuit, TypeOK
<1>2. QED
  BY <1>1, CircuitsAreConsistent, TrialsAreResolved, PTL DEF Spec, RefusalJustified

-----------------------------------------------------------------------------
\* A step of the protocol is a step of the runner or changes nothing of it.
LEMMA StepImplements ==
  ASSUME [ProtocolNext]_protocolVars
  PROVE  [Next]_vars
<1>1. CASE Runner
  BY <1>1 DEF Runner, Next
<1>2. ASSUME NEW b \in Isolated, Start(b) PROVE Next
  BY <1>2, ProbeRunnerAssumption DEF Start, Next
<1>3. CASE TimePasses
  BY <1>3 DEF TimePasses, Next
<1>4. CASE Worker
  BY <1>4 DEF Worker, WorkerStep, ReadRequest, PrintStray, BeginEmit, EndEmit, HandlerRaises,
              WriteResult, WorkerEnds
<1>5. CASE \/ DenyUnregistered \/ SpawnFails \/ Spawn \/ Terminate \/ Kill \/ Collect
         \/ Interrupted
  BY <1>5 DEF DenyUnregistered, SpawnFails, Spawn, Terminate, Kill, Collect, Returns, Interrupted
<1>6. ASSUME NEW b \in Isolated, RunFinishes(b) PROVE Next
  <2>1. FinishAs(b, Verdict)
    BY <1>6 DEF RunFinishes
  <2>2. Verdict \in ExecutionEnd
    BY <2>1 DEF FinishAs, ExecutionEnd, Failure
  <2>3. Finish(b)
    BY <2>1, <2>2 DEF Finish
  <2>4. QED
    BY <2>3, ProbeRunnerAssumption DEF Next
<1>7. CASE UNCHANGED protocolVars
  BY <1>7 DEF protocolVars
<1>8. QED
  BY <1>1, <1>2, <1>3, <1>4, <1>5, <1>6, <1>7 DEF ProtocolNext, Executor

\* What is proved of every behaviour of ProbeRunner is proved of every
\* behaviour of WorkerProtocol.
LEMMA ProtocolRuns == ProtocolSpec => Spec
<1>1. ProtocolInit => Init
  BY DEF ProtocolInit
<1>2. [ProtocolNext]_protocolVars => [Next]_vars
  BY StepImplements
<1>3. QED
  BY <1>1, <1>2, PTL DEF ProtocolSpec, Spec

-----------------------------------------------------------------------------
\* The executor is busy exactly while an isolated probe is being run, and a
\* worker lives only while it waits for one.
Attended ==
  /\ executor = "idle" <=> running \notin Isolated
  /\ executor \in {"idle", "spawning", "communicating", "terminated", "killed", "returned"}
  /\ NoWorkerLeft

LEMMA WorkerStepAttended ==
  ASSUME Attended, Worker
  PROVE  Attended'
<1>1. UNCHANGED <<running, executor>> /\ worker \in Alive
  BY DEF Worker, WorkerStep, ReadRequest, PrintStray, BeginEmit, EndEmit, HandlerRaises,
         WriteResult, WorkerEnds, Alive, vars
<1>2. executor \notin {"idle", "spawning", "returned"}
  BY <1>1 DEF Attended, NoWorkerLeft, Alive
<1>3. QED
  BY <1>1, <1>2 DEF Attended, NoWorkerLeft

LEMMA WorkersAreAttended == ProtocolSpec => []Attended
<1>1. ProtocolInit => Attended
  BY ProbeRunnerAssumption DEF ProtocolInit, Init, Attended, NoWorkerLeft, Alive
<1>2. Attended /\ [ProtocolNext]_protocolVars => Attended'
  <2> SUFFICES ASSUME Attended, [ProtocolNext]_protocolVars PROVE Attended'
    OBVIOUS
  <2> USE ProbeRunnerAssumption
  <2>1. CASE Runner
    <3>1. UNCHANGED <<executor, worker>>
      BY <2>1 DEF Runner, protocol
    <3>2. running' \in Isolated <=> running \in Isolated
      BY <2>1 DEF Runner, PolicyDenies, CircuitRefuses, Execute, Finish, FinishAs, ClockSet
    <3>3. QED
      BY <3>1, <3>2 DEF Attended, NoWorkerLeft
  <2>2. ASSUME NEW b \in Isolated, Start(b) PROVE Attended'
    BY <2>2 DEF Start, Execute, Attended, NoWorkerLeft
  <2>3. CASE TimePasses
    BY <2>3 DEF TimePasses, Continue, protocol, Attended, NoWorkerLeft
  <2>4. CASE Worker
    BY <2>4, WorkerStepAttended
  <2>5. CASE DenyUnregistered \/ SpawnFails \/ Collect
    BY <2>5 DEF DenyUnregistered, SpawnFails, Collect, Returns, vars, Attended, NoWorkerLeft, Alive
  <2>6. CASE Spawn \/ Terminate \/ Kill \/ Interrupted
    BY <2>6 DEF Spawn, Terminate, Kill, Interrupted, vars, Attended, NoWorkerLeft
  <2>7. ASSUME NEW b \in Isolated, RunFinishes(b) PROVE Attended'
    BY <2>7 DEF RunFinishes, FinishAs, Attended, NoWorkerLeft
  <2>8. CASE UNCHANGED protocolVars
    BY <2>8 DEF protocolVars, protocol, vars, Attended, NoWorkerLeft
  <2>9. QED
    BY <2>1, <2>2, <2>3, <2>4, <2>5, <2>6, <2>7, <2>8 DEF ProtocolNext, Executor
<1>3. QED
  BY <1>1, <1>2, PTL DEF ProtocolSpec

\* No worker process outlives the call that started it, unless that call was
\* interrupted while it waited (executor.py:72-90).
THEOREM NoWorkerIsLeft == ProtocolSpec => []NoWorkerLeft
<1>1. Attended => NoWorkerLeft
  BY DEF Attended
<1>2. QED
  BY <1>1, WorkersAreAttended, PTL

-----------------------------------------------------------------------------
(***************************************************************************)
(* What the executor finds in the output                                   *)
(***************************************************************************)

\* The loop of Payloads, as a function of the number of lines read.
Collecting(found, output) ==
  found = [i \in 0..Len(output) |->
             IF i = 0 THEN <<>>
             ELSE IF output[i] \in Payload THEN Append(found[i - 1], output[i])
             ELSE found[i - 1]]

LEMMA PayloadsByCollecting ==
  ASSUME NEW output \in Seq(Line)
  PROVE  \E found \in [0..Len(output) -> Seq(Payload)] :
           Collecting(found, output) /\ Payloads(output) = found[Len(output)]
<1>1. PICK n \in Nat : n = Len(output)
  OBVIOUS
<1> DEFINE step == [p \in Seq(Payload) \X (1..n) |->
                      IF output[p[2]] \in Payload THEN Append(p[1], output[p[2]]) ELSE p[1]]
<1>2. step \in [Seq(Payload) \X (1..n) -> Seq(Payload)]
  OBVIOUS
<1>3. PICK f : Turns(f, Seq(Payload), <<>>, step, n)
  <2>1. <<>> \in Seq(Payload)
    OBVIOUS
  <2> HIDE DEF step
  <2>. QED
    BY <1>1, <1>2, <2>1, Recursion
<1>4. Collecting(f, output)
  <2>1. f \in [0..n -> Seq(Payload)] /\ f[0] = <<>>
    BY <1>3 DEF Turns
  <2>2. ASSUME NEW k \in 1..n
        PROVE  f[k] = IF output[k] \in Payload THEN Append(f[k - 1], output[k]) ELSE f[k - 1]
    <3>1. f[k - 1] \in Seq(Payload)
      BY <1>1, <2>1
    <3>2. f[k] = step[<<f[k - 1], k>>]
      BY <1>3 DEF Turns
    <3>. QED
      BY <3>1, <3>2
  <2> HIDE DEF step
  <2>3. f = [k \in 0..n |-> f[k]]
    BY <2>1
  <2>4. \A k \in 0..n : k # 0 => k \in 1..n
    BY <1>1
  <2>5. \A k \in 0..n : f[k] = IF k = 0 THEN <<>>
                               ELSE IF output[k] \in Payload THEN Append(f[k - 1], output[k])
                               ELSE f[k - 1]
    BY <2>1, <2>2, <2>4
  <2>. QED
    BY <1>1, <2>3, <2>5, Zenon DEF Collecting
<1>5. PICK found : found = CHOOSE g : Collecting(g, output)
  OBVIOUS
<1>6. Collecting(found, output)
  BY <1>4, <1>5
<1>7. Payloads(output) = found[n]
  BY <1>1, <1>5 DEF Payloads, Collecting
<1>8. found \in [0..n -> Seq(Payload)]
  <2> DEFINE T == {k \in 0..n : found[k] \in Seq(Payload)}
  <2>1. 0 \in T
    BY <1>1, <1>6 DEF Collecting
  <2>2. ASSUME NEW k \in 0..(n - 1), k \in T PROVE k + 1 \in T
    <3>1. k + 1 \in 0..n /\ k + 1 \in 1..n /\ k + 1 # 0 /\ (k + 1) - 1 = k
      BY <1>1
    <3>2. found[k + 1] = IF output[k + 1] \in Payload THEN Append(found[k], output[k + 1])
                         ELSE found[k]
      BY <1>1, <1>6, <3>1 DEF Collecting
    <3>3. PICK s : s = found[k] /\ s \in Seq(Payload)
      BY <2>2
    <3>4. output[k + 1] \in Payload => Append(s, output[k + 1]) \in Seq(Payload)
      BY <3>3
    <3>. QED
      BY <3>1, <3>2, <3>3, <3>4
  <2>3. 0..n \subseteq T
    <3> HIDE DEF T
    <3>. QED
      BY <1>1, <2>1, <2>2, LoopInduction
  <2>4. DOMAIN found = 0..n /\ found = [k \in 0..n |-> found[k]]
    BY <1>1, <1>6 DEF Collecting
  <2>. QED
    BY <2>3, <2>4
<1>. QED
  BY <1>1, <1>6, <1>7, <1>8

LEMMA PayloadsOfNothing == Payloads(<<>>) = <<>>
<1>0. PICK output : output = <<>>
  OBVIOUS
<1>1. Len(output) = 0 /\ output \in Seq(Line)
  BY <1>0
<1>2. PICK found \in [0..Len(output) -> Seq(Payload)] : Collecting(found, output) /\ Payloads(output) = found[Len(output)]
  BY <1>1, PayloadsByCollecting
<1>3. found[0] = <<>>
  BY <1>1, <1>2 DEF Collecting
<1>. QED
  BY <1>0, <1>1, <1>2, <1>3

LEMMA PayloadsOfMore ==
  ASSUME NEW output \in Seq(Line), NEW l \in Line
  PROVE  Payloads(Append(output, l)) =
           IF l \in Payload THEN Append(Payloads(output), l) ELSE Payloads(output)
<1>1. PICK n \in Nat : n = Len(output)
  OBVIOUS
<1>2. PICK more : more = Append(output, l)
  OBVIOUS
<1>3. /\ more \in Seq(Line) /\ Len(more) = n + 1 /\ more[n + 1] = l
      /\ \A i \in 1..n : more[i] = output[i]
  BY <1>1, <1>2
<1>4. PICK f \in [0..n -> Seq(Payload)] : Collecting(f, output) /\ Payloads(output) = f[n]
  BY <1>1, PayloadsByCollecting
<1>5. PICK g \in [0..(n + 1) -> Seq(Payload)] :
        Collecting(g, more) /\ Payloads(more) = g[n + 1]
  BY <1>3, PayloadsByCollecting
<1> DEFINE T == {k \in 0..n : f[k] = g[k]}
<1>6. 0 \in T
  BY <1>1, <1>3, <1>4, <1>5 DEF Collecting
<1>7. ASSUME NEW k \in 0..(n - 1), k \in T PROVE k + 1 \in T
  <2>1. k + 1 \in 0..n /\ k + 1 \in 1..n /\ k + 1 # 0 /\ (k + 1) - 1 = k /\ k + 1 \in 0..(n + 1)
    BY <1>1
  <2>2. f[k + 1] = IF output[k + 1] \in Payload THEN Append(f[k], output[k + 1]) ELSE f[k]
    BY <1>1, <1>4, <2>1 DEF Collecting
  <2>3. g[k + 1] = IF more[k + 1] \in Payload THEN Append(g[k], more[k + 1]) ELSE g[k]
    <3>1. k + 1 \in 0..Len(more)
      BY <1>3, <2>1
    <3>. QED
      BY <1>5, <2>1, <3>1 DEF Collecting
  <2>. QED
    BY <1>3, <1>7, <2>1, <2>2, <2>3
<1>8. 0..n \subseteq T
  <2> HIDE DEF T
  <2>. QED
    BY <1>6, <1>7, LoopInduction
<1>9. f[n] = g[n]
  BY <1>8
<1>10. g[n + 1] = IF l \in Payload THEN Append(g[n], l) ELSE g[n]
  <2>1. n + 1 \in 0..(n + 1) /\ n + 1 # 0 /\ (n + 1) - 1 = n
    OBVIOUS
  <2>2. g[n + 1] = IF more[n + 1] \in Payload THEN Append(g[n], more[n + 1]) ELSE g[n]
    BY <1>3, <1>5, <2>1 DEF Collecting
  <2>. QED
    BY <1>3, <2>2
<1>. QED
  BY <1>2, <1>4, <1>5, <1>9, <1>10

\* The lines written, against the payloads written whole.
Holds(output, l) == \E i \in 1..Len(output) : output[i] = l
Readable(output) == ~ Holds(output, "scalar") /\ ~ Holds(output, "garbled")

LEMMA HoldsMore ==
  ASSUME NEW output \in Seq(Line), NEW k \in Line
  PROVE  \A l : Holds(Append(output, k), l) <=> Holds(output, l) \/ l = k
<1>1. PICK n \in Nat : n = Len(output)
  OBVIOUS
<1>2. PICK more : more = Append(output, k)
  OBVIOUS
<1>3. Len(more) = n + 1 /\ more[n + 1] = k /\ \A i \in 1..n : more[i] = output[i]
  BY <1>1, <1>2
<1>4. 1..(n + 1) = (1..n) \cup {n + 1}
  OBVIOUS
<1>5. \A l : Holds(more, l) <=> Holds(output, l) \/ l = k
  BY <1>1, <1>3, <1>4 DEF Holds
<1>. QED
  BY <1>2, <1>5

LEMMA LastReplaced ==
  ASSUME NEW front \in Seq(Line), NEW k \in Line, NEW l \in Line, NEW output,
         output = Append(front, k)
  PROVE  [output EXCEPT ![Len(output)] = l] = Append(front, l)
<1>1. PICK n \in Nat : n = Len(front)
  OBVIOUS
<1>2. Len(output) = n + 1 /\ output \in Seq(Line)
  BY <1>1
<1>3. PICK s : s = Append(front, l)
  OBVIOUS
<1>4. /\ s \in Seq(Line) /\ Len(s) = n + 1 /\ s[n + 1] = l
      /\ \A i \in 1..n : s[i] = output[i]
  BY <1>1, <1>3
<1>5. output \in [1..(n + 1) -> Line] /\ s \in [1..(n + 1) -> Line]
  BY <1>2, <1>4, LenProperties
<1>6. \A i \in 1..(n + 1) : i \in 1..n \/ i = n + 1
  OBVIOUS
<1>7. [output EXCEPT ![n + 1] = l] = s
  BY <1>4, <1>5, <1>6
<1>. QED
  BY <1>2, <1>3, <1>5, <1>7

\* The worker writes at most one payload, and what the executor finds in the
\* lines is what was written whole, wherever the worker has stopped.
Written ==
  /\ lines \in Seq(Line)
  /\ emitted = <<>> \/ \E p \in Payload : emitted = <<p>>
  /\ Payloads(lines) = emitted
  /\ \A p \in Payload : Holds(lines, p) <=> emitted = <<p>>
  /\ worker \in {"started", "handling", "writing"} => emitted = <<>>
  /\ worker = "writing" => \E front \in Seq(Line) : lines = Append(front, "cut")
  /\ executor \in {"idle", "spawning"} => lines = <<>> /\ emitted = <<>>

\* What execute() returned, about lines that no longer change.
Returned ==
  executor = "returned" =>
    \/ /\ execution.status \in {"denied", "raised"}
       /\ lines = <<>> /\ emitted = <<>>
    \/ execution.status = "raised" /\ worker = "orphan"
    \/ /\ worker = "gone"
       /\ execution.status = ExecutionStatus
       /\ Readable(lines) => execution.evidence = emitted

Unreturned == executor # "returned" => execution = NoExecution

OutputInv == Written /\ Returned /\ Unreturned

LEMMA NothingHeld == <<>> \in Seq(Line) /\ \A p : ~ Holds(<<>>, p) /\ <<p>> # <<>>
BY DEF Holds

\* A line that is no payload changes nothing of that.
LEMMA LineWritten ==
  ASSUME Written, NEW l \in Line \ Payload, lines' = Append(lines, l), emitted' = emitted,
         executor' = executor, executor \notin {"idle", "spawning"}, worker' # "writing",
         worker' \in {"started", "handling"} => worker \in {"started", "handling"}
  PROVE  Written'
<1>1. lines' \in Seq(Line)
  BY DEF Written
<1>2. Payloads(Append(lines, l)) = Payloads(lines)
  BY PayloadsOfMore DEF Written
<1>3. \A p \in Payload : Holds(Append(lines, l), p) <=> Holds(lines, p)
  BY HoldsMore DEF Written
<1>4. PICK more : more = Append(lines, l)
  OBVIOUS
<1>5. Payloads(lines)' = Payloads(more) /\ \A p \in Payload : Holds(lines, p)' <=> Holds(more, p)
  BY <1>4 DEF Payloads, Holds
<1>. QED
  BY <1>1, <1>2, <1>3, <1>4, <1>5 DEF Written

LEMMA EmitBegins ==
  ASSUME Written, BeginEmit, executor \notin {"idle", "spawning"}
  PROVE  Written'
<1>1. /\ lines' = Append(lines, "cut") /\ emitted' = emitted /\ executor' = executor
      /\ worker = "handling" /\ worker' = "writing"
  BY DEF BeginEmit, WorkerStep
<1>2. "cut" \in Line \ Payload
  BY DEF Line, Payload, Report
<1>3. lines \in Seq(Line) /\ emitted = <<>>
  BY <1>1 DEF Written
<1>4. PICK more : more = Append(lines, "cut")
  OBVIOUS
<1>5. more \in Seq(Line)
  BY <1>2, <1>3, <1>4
<1>6. Payloads(more) = emitted
  BY <1>2, <1>3, <1>4, PayloadsOfMore DEF Written
<1>7. \A p \in Payload : Holds(more, p) <=> emitted = <<p>>
  BY <1>2, <1>3, <1>4, HoldsMore DEF Written
<1>8. lines' = more
  BY <1>1, <1>4
<1>9. Payloads(lines)' = Payloads(more) /\ \A p \in Payload : Holds(lines, p)' <=> Holds(more, p)
  BY <1>8 DEF Payloads, Holds
<1>10. \E front \in Seq(Line) : lines' = Append(front, "cut")
  BY <1>1, <1>3
<1>. QED
  BY <1>1, <1>3, <1>5, <1>6, <1>7, <1>8, <1>9, <1>10 DEF Written

LEMMA EmitEnds ==
  ASSUME Written, EndEmit, executor \notin {"idle", "spawning"}
  PROVE  Written'
<1>1. PICK l \in Payload : /\ lines' = [lines EXCEPT ![Len(lines)] = l]
                           /\ emitted' = Append(emitted, l)
  BY DEF EndEmit
<1>2. executor' = executor /\ worker = "writing" /\ worker' = "written"
  BY DEF EndEmit, WorkerStep
<1>3. "cut" \in Line \ Payload /\ l \in Line
  BY DEF Line, Payload, Report
<1>4. PICK front \in Seq(Line) : lines = Append(front, "cut")
  BY <1>2 DEF Written
<1>5. emitted = <<>>
  BY <1>2 DEF Written
<1>6. Payloads(front) = <<>> /\ \A p \in Payload : ~ Holds(front, p)
  <2>1. Payloads(front) = Payloads(lines)
    BY <1>3, <1>4, PayloadsOfMore
  <2>2. \A p \in Payload : Holds(lines, p) <=> Holds(front, p)
    BY <1>3, <1>4, HoldsMore
  <2>3. \A p : emitted # <<p>>
    BY <1>5
  <2>. QED
    BY <1>5, <2>1, <2>2, <2>3 DEF Written
<1>7. PICK more : more = Append(front, l)
  OBVIOUS
<1>8. lines' = more
  BY <1>1, <1>3, <1>4, <1>7, LastReplaced
<1>9. emitted' = <<l>>
  BY <1>1, <1>5
<1>10. more \in Seq(Line)
  BY <1>3, <1>7
<1>11. Payloads(more) = <<l>>
  <2>1. Payloads(more) = Append(Payloads(front), l)
    BY <1>3, <1>7, PayloadsOfMore
  <2>. QED
    BY <1>6, <2>1
<1>12. \A p \in Payload : Holds(more, p) <=> p = l
  BY <1>3, <1>6, <1>7, HoldsMore
<1>13. \A p \in Payload : <<l>> = <<p>> <=> p = l
  OBVIOUS
<1>14. Payloads(lines)' = Payloads(more) /\ \A p \in Payload : Holds(lines, p)' <=> Holds(more, p)
  BY <1>8 DEF Payloads, Holds
<1>. QED
  BY <1>2, <1>8, <1>9, <1>10, <1>11, <1>12, <1>13, <1>14 DEF Written

LEMMA StillWritten ==
  ASSUME Written, UNCHANGED <<lines, emitted>>,
         worker' \in {"started", "handling"} => worker \in {"none", "started", "handling"},
         worker' \in {"started", "handling"} => emitted = <<>>,
         worker' = "writing" => worker = "writing",
         executor' \in {"idle", "spawning"} => lines = <<>> /\ emitted = <<>>
  PROVE  Written'
<1>1. Payloads(lines)' = Payloads(lines) /\ \A p \in Payload : Holds(lines, p)' <=> Holds(lines, p)
  BY DEF Payloads, Holds
<1>. QED
  BY <1>1 DEF Written

LEMMA WorkerWrites ==
  ASSUME Written, Attended, Worker
  PROVE  Written'
<1>1. executor \notin {"idle", "spawning"} /\ executor' = executor
  BY DEF Worker, WorkerStep, ReadRequest, PrintStray, BeginEmit, EndEmit, HandlerRaises,
         WriteResult, WorkerEnds, Alive, Attended, NoWorkerLeft
<1>2. CASE ReadRequest \/ HandlerRaises \/ WorkerEnds
  <2>1. /\ UNCHANGED <<lines, emitted>>
        /\ worker' \in {"handling", "raised", "gone"}
        /\ worker' = "handling" => worker = "started"
    BY <1>2 DEF ReadRequest, HandlerRaises, WorkerEnds, WorkerStep
  <2>. QED
    BY <1>1, <2>1, StillWritten DEF Written
<1>3. CASE PrintStray
  <2>1. PICK l \in Stray : lines' = Append(lines, l)
    BY <1>3 DEF PrintStray
  <2>2. l \in Line \ Payload
    BY WorkerProtocolAssumption DEF Line, Payload, Report
  <2>3. emitted' = emitted /\ worker = "handling" /\ worker' = "handling"
    BY <1>3 DEF PrintStray, WorkerStep
  <2>. QED
    BY <1>1, <2>1, <2>2, <2>3, LineWritten
<1>4. CASE WriteResult
  <2>1. PICK l \in Report : lines' = Append(lines, l)
    BY <1>4 DEF WriteResult, Report
  <2>2. l \in Line \ Payload
    BY DEF Line, Payload, Report
  <2>3. emitted' = emitted /\ worker' = "reported"
    BY <1>4 DEF WriteResult, WorkerStep
  <2>. QED
    BY <1>1, <2>1, <2>2, <2>3, LineWritten
<1>. QED
  BY <1>1, <1>2, <1>3, <1>4, EmitBegins, EmitEnds DEF Worker

\* The runner, the clock and the executor leave the lines alone, until the
\* next call starts with none.
LEMMA OutputStep ==
  ASSUME OutputInv, Attended, Attended', [ProtocolNext]_protocolVars
  PROVE  OutputInv'
<1>1. CASE UNCHANGED protocol
  <2>1. UNCHANGED <<lines, emitted, worker, executor, execution, timed_out>>
    BY <1>1 DEF protocol
  <2>2. Written'
    BY <2>1, StillWritten DEF OutputInv, Written
  <2>3. Returned' /\ Unreturned'
    BY <2>1 DEF OutputInv, Returned, Unreturned, ExecutionStatus, Reported, Breaks, Has, Readable,
                 Holds, Stdout
  <2>. QED
    BY <2>2, <2>3 DEF OutputInv
<1>2. CASE Worker
  <2>1. executor \notin {"idle", "spawning", "returned"}
        /\ UNCHANGED <<executor, execution>>
    BY <1>2 DEF Worker, WorkerStep, ReadRequest, PrintStray, BeginEmit, EndEmit, HandlerRaises,
         WriteResult, WorkerEnds, Alive, Attended, NoWorkerLeft
  <2>2. Written'
    BY <1>2, WorkerWrites DEF OutputInv
  <2>. QED
    BY <2>1, <2>2 DEF OutputInv, Returned, Unreturned
<1>3. CASE (\E b \in Isolated : Start(b)) \/ Spawn \/ Terminate \/ Kill
  <2>1. /\ UNCHANGED <<lines, emitted, execution>>
        /\ executor # "returned" /\ executor' # "returned"
        /\ worker' # worker => executor = "spawning" /\ worker' = "started"
        /\ executor' = "spawning" => executor = "idle"
        /\ executor' # "idle"
    <3>1. ASSUME NEW b \in Isolated, Start(b)
          PROVE  /\ UNCHANGED <<lines, emitted, execution, worker>>
                 /\ executor = "idle" /\ executor' = "spawning"
      <4>1. running = None /\ None \notin Isolated
        BY <3>1, ProbeRunnerAssumption DEF Start, Execute
      <4>. QED
        BY <3>1, <4>1 DEF Start, Attended
    <3>2. CASE Spawn
      BY <3>2 DEF Spawn
    <3>3. CASE Terminate \/ Kill
      BY <3>3 DEF Terminate, Kill
    <3>4. CASE \E b \in Isolated : Start(b)
      BY <3>1, <3>4
    <3>. QED
      BY <1>3, <3>2, <3>3, <3>4
  <2>2. Written'
    BY <2>1, StillWritten DEF OutputInv, Written
  <2>. QED
    BY <2>1, <2>2 DEF OutputInv, Returned, Unreturned
<1>4. CASE DenyUnregistered \/ SpawnFails
  <2>1. /\ UNCHANGED <<lines, emitted, worker>>
        /\ executor = "spawning" /\ executor' = "returned"
        /\ execution' \in [status : {"denied", "raised"}, evidence : {<<>>}]
    BY <1>4 DEF DenyUnregistered, SpawnFails, Returns
  <2>2. Written'
    BY <2>1, StillWritten DEF OutputInv, Written
  <2>3. Returned' /\ Unreturned'
    BY <2>1 DEF OutputInv, Written, Returned, Unreturned
  <2>. QED
    BY <2>2, <2>3 DEF OutputInv
<1>5. CASE Collect
  <2>1. /\ UNCHANGED <<lines, emitted, worker, timed_out>>
        /\ executor' = "returned" /\ worker = "gone"
        /\ execution' = [status |-> ExecutionStatus,
                         evidence |-> IF Breaks THEN <<>> ELSE Evidence]
    BY <1>5 DEF Collect, Returns
  <2>2. Written'
    BY <2>1, StillWritten DEF OutputInv
  <2>3. Evidence = emitted /\ (Breaks <=> ~ Readable(lines))
    BY DEF OutputInv, Written, Evidence, Stdout, Breaks, Has, Readable, Holds
  <2>4. ExecutionStatus' = ExecutionStatus /\ (Readable(lines)' <=> Readable(lines))
    BY <2>1 DEF ExecutionStatus, Reported, Breaks, Has, Readable, Holds, Stdout
  <2>5. Returned' /\ Unreturned'
    BY <2>1, <2>3, <2>4 DEF Returned, Unreturned
  <2>. QED
    BY <2>2, <2>5 DEF OutputInv
<1>6. ASSUME NEW b \in Isolated, RunFinishes(b) PROVE OutputInv'
  <2>1. /\ lines' = <<>> /\ emitted' = <<>> /\ worker' = worker
        /\ executor' = "idle" /\ execution' = NoExecution
    BY <1>6 DEF RunFinishes
  <2>2. worker' # "writing"
    BY <2>1 DEF Attended, NoWorkerLeft, Alive
  <2>3. Written'
    <3>1. Payloads(lines)' = Payloads(<<>>) /\ \A p : Holds(lines, p)' <=> Holds(<<>>, p)
      BY <2>1 DEF Payloads, Holds
    <3>. QED
      BY <2>1, <2>2, <3>1, NothingHeld, PayloadsOfNothing DEF Written
  <2>. QED
    BY <2>1, <2>3 DEF OutputInv, Returned, Unreturned
<1>7. CASE Interrupted
  <2>1. /\ UNCHANGED <<lines, emitted>>
        /\ executor' = "returned" /\ worker' = "orphan"
        /\ execution' = [status |-> "raised", evidence |-> <<>>]
    BY <1>7 DEF Interrupted
  <2>2. Written'
    BY <2>1, StillWritten DEF OutputInv
  <2>. QED
    BY <2>1, <2>2 DEF OutputInv, Returned, Unreturned
<1>8. CASE UNCHANGED protocolVars
  BY <1>1, <1>8 DEF protocolVars
<1>. QED
  BY <1>1, <1>2, <1>3, <1>4, <1>5, <1>6, <1>7, <1>8 DEF ProtocolNext, Runner, TimePasses, Executor

LEMMA OutputHolds == ProtocolSpec => [](OutputInv /\ Attended)
<1>1. ProtocolInit => OutputInv
  <2> SUFFICES ASSUME ProtocolInit PROVE OutputInv
    OBVIOUS
  <2>1. /\ lines = <<>> /\ emitted = <<>> /\ worker = "none" /\ executor = "idle"
        /\ execution = NoExecution
    BY DEF ProtocolInit
  <2>2. Written
    BY <2>1, NothingHeld, PayloadsOfNothing DEF Written
  <2>. QED
    BY <2>1, <2>2 DEF OutputInv, Returned, Unreturned
<1>2. OutputInv /\ Attended /\ Attended' /\ [ProtocolNext]_protocolVars => OutputInv'
  BY OutputStep
<1>. QED
  BY <1>1, <1>2, WorkersAreAttended, PTL DEF ProtocolSpec

\* Whatever a worker prints and wherever it dies or is killed, what it wrote
\* whole before is what run() is given, once (executor.py:77-90).
THEOREM PartialEvidenceIsKept == ProtocolSpec => []PartialEvidenceKept
<1>1. OutputInv => PartialEvidenceKept
  <2> SUFFICES ASSUME OutputInv, execution.status \in {"ok", "failed", "timed_out"}
               PROVE  execution.evidence = emitted
    BY DEF PartialEvidenceKept
  <2>1. executor = "returned"
    BY DEF OutputInv, Unreturned, NoExecution
  <2>2. execution.status \notin {"denied", "raised"} /\ execution.status = ExecutionStatus
    BY <2>1 DEF OutputInv, Returned
  <2>3. Readable(lines)
    BY <2>2 DEF ExecutionStatus, Breaks, Has, Readable, Holds, Stdout
  <2>. QED
    BY <2>1, <2>3 DEF OutputInv, Returned
<1>. QED
  BY <1>1, OutputHolds, PTL

\* An execution is ok exactly if what was written holds one fitting
\* observation and a result that says so, in time, without a line that breaks
\* the decoder or the parser, and without an interruption.
LEMMA VerdictIsOk ==
  ASSUME OutputInv, executor = "returned"
  PROVE  Verdict = "ok" <=> /\ ~ timed_out
                            /\ worker # "orphan"
                            /\ emitted = <<"observation">>
                            /\ Holds(lines, "ok")
                            /\ Readable(lines)
<1>1. CASE execution.status \in {"denied", "raised"} /\ lines = <<>> /\ emitted = <<>>
  BY <1>1 DEF Verdict
<1>3. CASE execution.status = "raised" /\ worker = "orphan"
  BY <1>3 DEF Verdict
<1>2. CASE /\ worker = "gone"
           /\ execution.status = ExecutionStatus
           /\ Readable(lines) => execution.evidence = emitted
  <2>1. ExecutionStatus = "ok" <=> /\ Readable(lines) /\ ~ timed_out
                                   /\ ~ Holds(lines, "flood") /\ Holds(lines, "ok")
    BY DEF ExecutionStatus, Reported, Breaks, Has, Readable, Holds, Stdout
  <2>2. CASE execution.status = "ok"
    <3>1. /\ Readable(lines) /\ ~ timed_out
          /\ ~ Holds(lines, "flood") /\ Holds(lines, "ok")
      BY <1>2, <2>1, <2>2
    <3>2. execution.evidence = emitted
      BY <1>2, <3>1
    <3>3. CASE emitted = <<>>
      <4>1. emitted # <<"observation">>
        BY <3>3
      <4>. QED
        BY <2>2, <3>2, <3>3, <4>1 DEF Verdict
    <3>4. ASSUME NEW p \in Payload, emitted = <<p>>
          PROVE  Verdict = "ok" <=> emitted = <<"observation">>
      <4>1. p # "flood"
        BY <3>1, <3>4 DEF OutputInv, Written
      <4>2. emitted # <<>> /\ emitted[1] = p /\ (emitted = <<"observation">> <=> p = "observation")
        BY <3>4
      <4>3. Verdict = IF p = "invalid" THEN "failed"
                      ELSE IF p = "oversize" THEN "truncated" ELSE "ok"
        BY <2>2, <3>2, <4>2 DEF Verdict
      <4>. QED
        BY <4>1, <4>2, <4>3 DEF Payload
    <3>. QED
      BY <1>2, <3>1, <3>3, <3>4 DEF OutputInv, Written
  <2>3. CASE execution.status # "ok"
    <3>1. Verdict # "ok"
      BY <2>3 DEF Verdict
    <3>2. ASSUME emitted = <<"observation">> PROVE ~ Holds(lines, "flood")
      <4>1. "flood" \in Payload /\ <<"flood">> # <<"observation">>
        BY DEF Payload
      <4>. QED
        BY <3>2, <4>1 DEF OutputInv, Written
    <3>. QED
      BY <1>2, <2>1, <2>3, <3>1, <3>2
  <2>. QED
    BY <2>2, <2>3
<1>. QED
  BY <1>1, <1>2, <1>3 DEF OutputInv, Returned

\* No timeout, crash, stray line, interruption or partial write makes an answer
\* "ok" that is not one whole observation, and without one of the things named
\* there a whole observation is answered with "ok" (executor.py:72-144,
\* probes.py:145-201).
THEOREM AnswersAreWhole == ProtocolSpec => OkIffWhole
<1> DEFINE Whole == \A b \in Isolated : RunFinishes(b) =>
                      (answer'.status = "ok" <=>
                         /\ ~ timed_out
                         /\ worker # "orphan"
                         /\ emitted = <<"observation">>
                         /\ \E i \in 1..Len(lines) : lines[i] = "ok"
                         /\ \A i \in 1..Len(lines) : lines[i] \notin {"scalar", "garbled"})
<1>1. OutputInv => Whole
  <2> SUFFICES ASSUME OutputInv, NEW b \in Isolated, RunFinishes(b)
               PROVE  answer'.status = "ok" <=>
                         /\ ~ timed_out
                         /\ worker # "orphan"
                         /\ emitted = <<"observation">>
                         /\ \E i \in 1..Len(lines) : lines[i] = "ok"
                         /\ \A i \in 1..Len(lines) : lines[i] \notin {"scalar", "garbled"}
    OBVIOUS
  <2>1. executor = "returned" /\ FinishAs(b, Verdict)
    BY DEF RunFinishes
  <2>2. answer'.status = "ok" <=> Verdict = "ok"
    BY <2>1 DEF FinishAs, Reply, Failure
  <2>. QED
    BY <2>1, <2>2, VerdictIsOk DEF Readable, Holds
<1>. QED
  BY <1>1, OutputHolds, PTL DEF OkIffWhole

-----------------------------------------------------------------------------
\* What holds of the runner however executions end holds with workers that
\* hang, die and print: the circuits honour their cooldown, and nothing is
\* refused without cause (circuit_breaker.py:24-51, probes.py:113-248).
THEOREM ProtocolKeepsCircuits ==
  ProtocolSpec => CooldownHonoured /\ RefusalJustified
BY ProtocolRuns, CooldownIsHonoured, RefusalIsJustified, PTL

=============================================================================
