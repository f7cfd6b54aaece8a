--------------------------- MODULE WorkerProtocol ---------------------------
(***************************************************************************)
(* ProbeRunner with its isolated executions opened up: ProbeExecutor waits *)
(* for a one-shot worker process that writes JSON lines into a pipe, takes *)
(* its time, may hang or die between any two of its steps, and is          *)
(* terminated, then killed, when its time is over.  The pipe loses and     *)
(* reorders nothing; a worker that dies leaves a line cut short in it.     *)
(***************************************************************************)
EXTENDS ProbeRunner, Sequences

CONSTANT
  Stray        \* lines a library may print on the worker's standard output

\* What a line holds: the payload of an evidence message by what becomes of
\* it, the status of a result message, or something else.  A "flood" does
\* not fit in _MAX_OUTPUT_BYTES, an "oversize" payload not in the manifest's
\* limits, an "invalid" one is no observation; a line "cut" short and "noise"
\* are not JSON, a "scalar" is JSON and no object, a "garbled" line is not
\* UTF-8.  The worker's own lines are ASCII, so cutting one garbles nothing.
Payload == {"observation", "oversize", "invalid", "flood"}
Report == {"ok", "failed"}
Line == Payload \cup Report \cup {"cut", "noise", "scalar", "garbled"}

ASSUME WorkerProtocolAssumption == Stray \subseteq {"noise", "scalar", "garbled"}

VARIABLES
  executor,   \* where execute() is
  timed_out,  \* its local flag
  execution,  \* the WorkerExecution it returned to run()
  worker,     \* where the worker process is
  lines,      \* what the worker has written
  emitted     \* history: the payloads it has written whole

protocol == <<executor, timed_out, execution, worker, lines, emitted>>
protocolVars == <<vars, protocol>>

\* An interrupted call leaves its worker an "orphan": nobody waits for it or
\* reads from it any more, and it may or may not live on.
Alive == {"started", "handling", "writing", "written", "raised", "reported"}
NoExecution == [status |-> "none", evidence |-> <<>>]

ProtocolInit ==
  /\ Init
  /\ executor = "idle"
  /\ timed_out = FALSE
  /\ execution = NoExecution
  /\ worker = "none"
  /\ lines = <<>>
  /\ emitted = <<>>

-----------------------------------------------------------------------------
(***************************************************************************)
(* The worker: one request, at most one evidence line, one result.         *)
(***************************************************************************)

WorkerStep(from, to) ==
  /\ worker = from
  /\ worker' = to
  /\ UNCHANGED <<vars, executor, timed_out, execution>>

ReadRequest ==
  /\ WorkerStep("started", "handling")
  /\ UNCHANGED <<lines, emitted>>

\* The handler imports its sources when it is called; one may print.
PrintStray ==
  /\ lines = <<>>
  /\ \E s \in Stray : lines' = Append(lines, s)
  /\ WorkerStep("handling", "handling")
  /\ UNCHANGED emitted

\* A payload is larger than what the pipe takes at once.
BeginEmit ==
  /\ WorkerStep("handling", "writing")
  /\ lines' = Append(lines, "cut")
  /\ UNCHANGED emitted

EndEmit ==
  /\ WorkerStep("writing", "written")
  /\ \E p \in Payload :
       /\ lines' = [lines EXCEPT ![Len(lines)] = p]
       /\ emitted' = Append(emitted, p)

\* The parameters are rejected or the source fails: before anything is emitted.
HandlerRaises ==
  /\ WorkerStep("handling", "raised")
  /\ UNCHANGED <<lines, emitted>>

WriteResult ==
  /\ \/ WorkerStep("written", "reported") /\ lines' = Append(lines, "ok")
     \/ WorkerStep("raised", "reported") /\ lines' = Append(lines, "failed")
  /\ UNCHANGED emitted

\* It ends, or dies: an interpreter that crashes, terminate() and kill()
\* leave the same behind.  Until then it may take any time.
WorkerEnds ==
  /\ worker \in Alive
  /\ WorkerStep(worker, "gone")
  /\ UNCHANGED <<lines, emitted>>

-----------------------------------------------------------------------------
(***************************************************************************)
(* What execute() makes of the lines, and run() of that.                   *)
(***************************************************************************)

\* Mutant: what was read before the deadline is put in front without asking
\* whether the output holds it already.
StdoutTwice == IF timed_out THEN lines \o lines ELSE lines

\* The second communicate() returns all of the output, the part the exception
\* carried included, so nothing is put in front of it.
Stdout == lines

\* The payloads of the evidence messages, line by line.
Payloads(output) ==
  LET found[i \in 0..Len(output)] ==
        IF i = 0 THEN <<>>
        ELSE IF output[i] \in Payload THEN Append(found[i - 1], output[i])
        ELSE found[i - 1]
  IN found[Len(output)]

Evidence == Payloads(Stdout)
Has(l) == \E i \in 1..Len(Stdout) : Stdout[i] = l

\* Mutant: output without a result line counts as success.
ReportedOptimistic == IF Has("failed") THEN "failed" ELSE "ok"

\* At most one result line is ever written; without one it is "failed".
Reported == IF Has("ok") THEN "ok" ELSE "failed"

\* communicate() cannot decode a garbled line; the parser asks a scalar for
\* its "type".
Breaks == Has("garbled") \/ Has("scalar")

ExecutionStatus ==
  CASE Breaks -> "raised"
    [] ~ Breaks /\ timed_out -> "timed_out"
    [] ~ Breaks /\ ~ timed_out /\ Has("flood") -> "failed"
    [] OTHER -> Reported

Returns(status, evidence) ==
  /\ executor' = "returned"
  /\ execution' = [status |-> status, evidence |-> evidence]
  /\ UNCHANGED <<vars, timed_out, worker, lines, emitted>>

\* How run() ends: only the first evidence line of a worker that answered is
\* looked at.
Verdict ==
  IF execution.status # "ok" THEN execution.status
  ELSE IF execution.evidence = <<>> \/ execution.evidence[1] = "invalid" THEN "failed"
  ELSE IF execution.evidence[1] = "oversize" THEN "truncated"
  ELSE "ok"

-----------------------------------------------------------------------------
(***************************************************************************)
(* The executor.                                                           *)
(***************************************************************************)

Start(b) ==
  /\ Execute(b)
  /\ executor' = "spawning"
  /\ timed_out' = FALSE
  /\ UNCHANGED <<execution, worker, lines, emitted>>

DenyUnregistered ==
  /\ executor = "spawning"
  /\ running \notin Registered
  /\ Returns("denied", <<>>)

SpawnFails ==
  /\ executor = "spawning"
  /\ running \in Registered
  /\ Returns("raised", <<>>)

Spawn ==
  /\ executor = "spawning"
  /\ running \in Registered
  /\ executor' = "communicating"
  /\ worker' = "started"
  /\ UNCHANGED <<vars, timed_out, execution, lines, emitted>>

\* communicate() raises TimeoutExpired, even if the worker has just ended.
Terminate ==
  /\ executor = "communicating"
  /\ elapsed >= Timeout
  /\ executor' = "terminated"
  /\ timed_out' = TRUE
  /\ UNCHANGED <<vars, execution, worker, lines, emitted>>

\* Mutant: the grace over, the executor gives the worker up.
KillGivesUp ==
  /\ executor = "terminated"
  /\ elapsed >= Deadline
  /\ Returns("timed_out", Evidence)

\* Mutant: the executor waits on for a worker that ignores terminate().
KillNever == FALSE /\ Returns("timed_out", Evidence)

Kill ==
  /\ executor = "terminated"
  /\ elapsed >= Deadline
  /\ executor' = "killed"
  /\ UNCHANGED <<vars, timed_out, execution, worker, lines, emitted>>

\* communicate() returns, or cannot decode what it read, when the worker has
\* closed its pipes and is gone.
Collect ==
  /\ executor \in {"communicating", "terminated", "killed"}
  /\ worker = "gone"
  /\ Returns(ExecutionStatus, IF Breaks THEN <<>> ELSE Evidence)

\* An exception other than TimeoutExpired leaves communicate() while it waits
\* (KeyboardInterrupt): nothing terminates or reaps the worker.
Interrupted ==
  /\ executor \in {"communicating", "terminated", "killed"}
  /\ executor' = "returned"
  /\ execution' = [status |-> "raised", evidence |-> <<>>]
  /\ worker' = "orphan"
  /\ UNCHANGED <<vars, timed_out, lines, emitted>>

RunFinishes(b) ==
  /\ executor = "returned"
  /\ FinishAs(b, Verdict)
  /\ executor' = "idle"
  /\ execution' = NoExecution
  /\ lines' = <<>>
  /\ emitted' = <<>>
  /\ UNCHANGED <<timed_out, worker>>

-----------------------------------------------------------------------------
\* communicate() looks at its clock in time; spawning takes none.
TimePasses ==
  /\ executor # "spawning"
  /\ executor = "communicating" => elapsed < Timeout
  /\ Continue
  /\ UNCHANGED protocol

Runner ==
  /\ \/ \E b \in Probe : PolicyDenies(b) \/ CircuitRefuses(b)
     \/ \E b \in Probe \ Isolated : Execute(b) \/ Finish(b)
     \/ ClockSet
  /\ UNCHANGED protocol

Worker ==
  \/ ReadRequest \/ PrintStray \/ BeginEmit \/ EndEmit \/ HandlerRaises
  \/ WriteResult \/ WorkerEnds

Executor ==
  \/ DenyUnregistered \/ SpawnFails \/ Spawn \/ Terminate \/ Kill \/ Collect
  \/ \E b \in Isolated : RunFinishes(b)

ProtocolNext ==
  \/ Runner
  \/ \E b \in Isolated : Start(b)
  \/ TimePasses
  \/ Worker
  \/ Executor
  \/ Interrupted

\* The executor's thread runs, time passes, and the system delivers kill();
\* nothing is asked of a worker that has not been killed, and no interruption
\* has to come.
ProtocolSpec ==
  /\ ProtocolInit /\ [][ProtocolNext]_protocolVars
  /\ WF_protocolVars(Executor)
  /\ WF_protocolVars(TimePasses)
  /\ WF_protocolVars(executor = "killed" /\ WorkerEnds)

-----------------------------------------------------------------------------
(***************************************************************************)
(* Properties                                                              *)
(***************************************************************************)

\* An isolated probe is answered with "ok" exactly when the worker wrote one
\* whole, fitting observation and reported success, nothing it printed broke
\* the decoder or the parser, and the executor was neither out of patience nor
\* interrupted before that (executor.py:72-144, probes.py:145-201).
OkIffWhole ==
  [][\A b \in Isolated : RunFinishes(b) =>
       (answer'.status = "ok" <=>
          /\ ~ timed_out
          /\ worker # "orphan"
          /\ emitted = <<"observation">>
          /\ \E i \in 1..Len(lines) : lines[i] = "ok"
          /\ \A i \in 1..Len(lines) : lines[i] \notin {"scalar", "garbled"})]_protocolVars

\* Evidence written whole before the worker was terminated is in the
\* execution, in order, none of it twice, and nothing else is
\* (test_worker_timeout.py:6, executor.py:77-90).
PartialEvidenceKept ==
  execution.status \in {"ok", "failed", "timed_out"} => execution.evidence = emitted

\* Whatever a worker does, and however termination races its last lines, it is
\* gone when the call that started it returns or raises, unless the call was
\* interrupted (executor.py:72-90): only that leaves a worker behind, for no
\* "finally" stands around communicate().
NoWorkerLeft ==
  executor \in {"idle", "spawning", "returned"} => worker \in {"none", "gone", "orphan"}

\* Every execution of an isolated probe ends, though its worker hangs and
\* ignores terminate() (docs/threat-model.md:39, executor.py:73-86).
IsolatedRunsEnd ==
  \A b \in Isolated : running = b ~> running # b

=============================================================================
