# SystemSense: specifications and proofs

SystemSense diagnoses a Windows machine: it opens *cases*, runs passive
*probes* for them, keeps what the probes observe (and what they could not
observe) in a SQLite database, and shows bounded views of it to an MCP client.
This directory holds TLA+ models of the parts in which order, interruption and
sharing matter, the TLC configurations that check them on small instances, and
proofs, checked by TLAPS, that the main properties hold for every instance.

Source paths below are relative to `src/systemsense/`.

## 1. Inventory

### Components

| component | state it keeps | operations | hard behaviour | what makes it correct |
|---|---|---|---|---|
| **Case runtime** `application/runtime.py` | the audit chain of the running `open_case` | `open_case`: plan, create the case, run each probe, commit row + fact + event | exceptions and deaths between any two steps; two processes on one database | a probe has its row exactly when it has its event; a case its caller was told is ready is complete; the stored log verifies |
| **Case service** `application/case_service.py` | none | `open_case`: new id, plan, insert the case | inventory read before the case exists | an opened case is settled; a plan repeats no probe |
| **Audit chain** `audit.py` | list of hash-linked entries | `append`, `checkpoint`, `verify` | the in-memory chain runs ahead of the stored one | what is stored is a verifiable prefix |
| **Probe runner** `orchestration/probes.py` | manifests, handlers, a circuit per probe | `run` | two clocks, two kinds of execution, exceptions that skip the circuit | cooldown honoured, trials resolved, refusals justified |
| **Circuit breaker** `orchestration/circuit_breaker.py` | state, failure count, time it opens until | `allow`, `record_failure`, `record_success` | a half-open circuit waits for an outcome | as above |
| **Executor and worker** `orchestration/executor.py`, `worker.py` | pipes, a deadline, a process | `execute`; request and reply lines | a late answer races the deadline and the termination; a worker dies or hangs anywhere | ok only for a whole answer, partial evidence kept, no process left behind but by an interruption, an end in any case |
| **Sentinel** `sentinel.py`, `platform/windows/eventlog.py` | bookmark per channel, evidence rows | `poll`, the runner's loop | a log that overwrites its records, two pollers, a poll cut short | nothing skipped, bookmark = a captured record, everything captured or overwritten in the end, no stop in silence |
| **SQLite store** `storage/sqlite_store.py` + migrations | the tables | `transaction`, inserts, pages, retention statements | one write lock, busy timeout, rollback | atomic transactions, unique keys |
| **Artifact store** `storage/artifact_store.py` | objects by digest, rows, links | `put`, `get_text_excerpt` | file system and database share no transaction | no torn object; a linked artifact has its object |
| **Retention** `storage/retention.py` | none | `prune` | decides on what it read earlier; batch limits | deletes no referenced data; collects what crashes left |
| **Single writer** `storage/writer.py` | FIFO queue, closed flag, a thread | `execute`, `close` | check-then-act without a lock | once and in order; close returns; nobody waits for ever |
| **Inventory** `inventory/`, `domain/inventory.py` | current facts, history of changes | refresh, get, invalidate, `is_stale` | observation and invalidation in either order | no fact goes back in time; fresh means observed after the last signal |
| **Planner** `orchestration/planner.py` | candidates | `plan` | two budgets at their limits; what is skipped makes room for what follows | one pass in order of priority; every candidate accounted for; the common bundle independent of the rest |
| **MCP workspace** `mcp_server.py` | cursor secret, the brief last given per case, planned probes | case, brief, listing and page tools | offset cursors and deltas over changing tables, restarts | a listing skips and repeats nothing without a cause; deltas add up to the brief; citations expand |
| **Ranking, brief, graph** `evidence/` | none | rank, pack under a character budget | competing sections | within budget, nothing left out that fitted when its turn came, no category shut out by another, citations of evidence expand |
| **Queue and coalescer** `collection/` | bounded queue with priorities; groups by fingerprint, bounded, least recently used first | `offer`, `pop`; `add`, `flush` | overflow; envelopes that arrive in another order than they were observed | every dropped envelope accounted for, no urgent one dropped for a lesser; a group tells of all its envelopes |
| **Evidence packs** `packs/` | none | a handler asks for its tables one after the other; a log is parsed in increments | rows that cannot be read, refusals, limits before and after sorting, cuts anywhere | the best rows are kept; a short list is a complete one; an error goes to the device whose header came last |
| **Windows capabilities** `platform/windows/capabilities.py` | the last snapshot | `detect` | a wall clock that may be set back, a detection that takes time | what the cache answers is recent |
| CLI, domain records, benchmarks | - | printing, record types, A/B harness | I/O | - |

### How they interact

The command line and the MCP server are separate processes over one database
file. Within one, the calls are synchronous: `DiagnosticRuntime.open_case`
calls the case service (which reads the inventory, plans and inserts the case),
then for each planned probe `ProbeRunner.run` (policy, circuit, then a handler
in the process or a one-shot worker process), then opens one `BEGIN IMMEDIATE`
transaction for the row, the inventory fact and the audit event. The sentinel
writes to the same `evidence` table through the same transactions and keeps its
place in `bookmarks`. The handlers of the packs run inside a probe's execution
and hand back records; the queue, the coalescer and the incremental log parsers are
complete but no part of the program calls them yet, so nothing composes them. The
capability detector has one caller, the command `doctor` (`cli.py:189`), which makes
a detector for one call: its cache is a property of the class. Artifacts lie in a directory tree next to the database
and are only related to it by their digest. Shared between processes, then, are
the tables, SQLite's single write lock, and the artifact tree.

### What can go wrong

Concurrency (two processes, the writer thread), death or an exception between
any two steps, the busy timeout of the lock, clocks that are set, executions
that hang or answer late, a log that loses records, limits (error texts,
batches, thresholds). `PROJECT.json` lists these hazards line by line with the
property that covers each.

## 2. Modules

| module | models | checked by | proved in |
|---|---|---|---|
| `AuditChain` | `audit.py` as operators on sequences of entries; the hash is injective | through `CaseRuntime` | `CaseRuntimeProofs` |
| `CaseLedger` | no code: the promise of the stored tables to whoever reads them | as property of `CaseRuntime` | `CaseRuntimeProofs` |
| `CaseRuntime` | `open_case` in several processes with the store's transactions, and the retention and refreshes that write the same tables | `MCCaseRuntime` (2 configurations) | `CaseRuntimeProofs` |
| `ProbeRunner` | `ProbeRunner.run` with its circuits | itself (1), and opened up in `WorkerProtocol` | `ProbeRunnerProofs` |
| `WorkerProtocol` | its isolated executions opened up: executor, pipe, worker process | itself (1) | `ProbeRunnerProofs` |
| `Sentinel` | `Sentinel.poll` over one Event Log channel | itself (2) | `SentinelProofs` |
| `ArtifactRetention` | `put` and the artifact half of `prune` | itself (2) | `ArtifactRetentionProofs` |
| `SingleWriter` | the queue, the writer thread, `execute` and `close` | `MCStandalone` (1) | `StandaloneProofs` |
| `Inventory` | current facts and their history, invalidation, freshness in case planning | through `Planning` | `InventoryProofs` |
| `Planning` | the same with the planner's choice of a plan | `MCPlanning` (1) | `InventoryProofs` |
| `EvidenceTable` | the rows of `evidence` as readers see them, and the evidence half of `prune` | through `Workspace` | `WorkspaceProofs` |
| `Paging` | listings with offset cursors, read page by page | through `Workspace` | `WorkspaceProofs` |
| `Brief` | `get_case_brief`: reads, ranking, packing, delta | through `Workspace` | `WorkspaceProofs` |
| `Workspace` | the three composed: one MCP server process over a changing table | `MCWorkspace` (2) | `WorkspaceProofs` |
| `EnvelopeQueue` | `BoundedEnvelopeQueue` | through `MCStandalone` | `StandaloneProofs` |
| `EnvelopeCoalescer` | `EnvelopeCoalescer` | through `MCStandalone` | `StandaloneProofs` |
| `Snapshots` | the five snapshot handlers and the tables they read | through `MCStandalone` | `StandaloneProofs` |
| `LogIncrements` | the parsers of the setup and servicing logs, read in increments | through `MCStandalone` | `StandaloneProofs` |
| `Capabilities` | `CapabilityDetector.detect` and its cache | through `MCStandalone` | `StandaloneProofs` |
| `InductionLemmas` | no code: induction, loops and sums over any finite set | - | itself |

Operators whose comment begins "Mutant:" are deliberately wrong variants of the
definition that follows them; each property a passing run checks is known to fail for at least one.

### CaseRuntime

State: the committed tables (`cases`, `evidence`, `inventory`, `audit`), the
one write transaction SQLite admits (`writer`, `txn`), and each process's place
in `open_case` (`pc`) with its locals. One action per step that another process
or a crash can fall between: `PlanCase`, `CreateCase` (autocommit), `RunProbe`
(a run is handed back and appended to the in-memory chain), `Begin`,
`PersistObservation` / `PersistCoverage`, `AppendAudit`, `Commit`,
`ReturnReady`. The ways out are actions too: `RunRaises`, `BusyTimeout`,
`ReasonRejected` (a `CoverageRecord` whose reason is too long), `StatementFails`
and `Crash`. Two actions belong to nobody's `open_case`: `Prune` is retention's
deletion of observed rows, which leaves the facts made from them and is remembered
in the history `pruned`, and `Refresh` is `InventoryService.refresh`, whose fact
comes from no case (`Service`). What a probe answers is any member of `ProbeRun`, which keeps of
its error text only whether a coverage reason can hold it. The chosen plan is
any sequence of distinct probes; freshness and budgets only narrow that choice.
Probe executions themselves are `ProbeRunner`'s subject.

`CaseLedger` is the specification a reader of the database relies on. The
mapping looks at the tables only: cases, `evidence`, and the events in `audit`. A
transaction maps to one `Record`, the creation of a case to `Open`, a prune to
`Retire`, every other step to a stutter. Whether a case is complete is no part of it,
since the tables do not say: `_load_case` (`mcp_server.py:415`) calls every stored
case READY, cut short or not. `ReadyIsComplete` is about what `open_case` itself
tells its caller, the history `reported`.

### ProbeRunner

State: wall clock (`now`, set to anything at any time by `ClockSet`), monotonic
`elapsed`, the probe being executed, and per probe the three fields of its
circuit. `PolicyDenies`, `CircuitRefuses` and `Execute` are the ways `run`
begins, `Finish` its ways to end: success and failure reach the circuit, a
denial and an exception do not. A failure whose text is too long for `ProbeRun`
is recorded and then raised. Workers are terminated at their deadline
(`Continue` stops there), in-process handlers are not. `run` is called by one
thread, so one probe runs at a time. The history `unrecorded` holds the probes
a trial of which ended by an exception: they alone may stay half open, which is
`OnlyUnrecordedTrialsStick`. A denial leaves no trial behind: the executor denies by
the constant set `REGISTERED_PROBE_IDS`, so a probe it denies has never failed
there. `ProbeRunner` leaves open how an execution
comes by its end.

### WorkerProtocol

`ProbeRunner` with its isolated executions opened up; it shares the variables of
`ProbeRunner`, and the properties of the circuits are checked over it. State: where
`execute` is (`executor`, `timed_out`, the `execution` it returns), where the worker
process is, and the lines it has written. `Start` is `run` calling `execute`;
`DenyUnregistered`, `SpawnFails` and `Spawn` follow; `Terminate`, `Kill` and
`Collect` are the three `communicate()` calls as they raise or return; `RunFinishes`
is what `run` makes of the result. The worker reads its request, emits (`BeginEmit`,
`EndEmit`: a termination in between leaves a line cut short), raises, reports, ends,
or dies at any point (`WorkerEnds`). A payload is known by what becomes of it. A line
that is not UTF-8 (`garbled`) or JSON but no object (`scalar`) makes `execute` raise
(`Breaks`), but only when the pipes are closed and the worker is gone. `Interrupted`
is an exception that leaves a waiting `communicate()` (Control-C): no `finally` stands
around it, so the worker becomes an `orphan`, which `NoWorkerLeft` excepts and the
model follows no further. Time passes for anything but the executor's own instructions, so a
worker may end at the very deadline and still be reported as timed out. An error text
written to stderr decides no status and is left out.

### Sentinel

State: the channel (`first`, `next`), the tables (`bookmark`, `evidence`,
`coverage`), the write transaction, and each poller's locals. `ReadBookmark`,
`QueryBatch` / `QueryEmpty` / `QueryRefused`, `Begin`, `InsertEvents`,
`AdvanceBookmark`, `Commit`, `PersistCoverage`, `Interrupt`; `LogEvent` and
`Overwrite` belong to Windows and are modelled from what the adapter asks of
it. A coverage row is written once for each case and status of a channel, so a denied
row must not stand in for a failed one. Channels share no state, so one is modelled. `SentinelRunner.run` stops
after a number of polls; here polling goes on.

### ArtifactRetention

State: the three tables, the objects and temporary files with their condition
(absent, partial, complete), and each process's place in `put` or `prune`.
Every query, commit and file operation is a step: `StartPut` (does the object
exist?), `CreateTemporary`, `WriteTemporary`, `Replace`, `Link`; `StartPrune`
(lists unreferenced rows), `DeleteRow` (asks again), `UnlinkObject`,
`StartScan`, `ScanFile` (asks whether a file has a row), `RemoveOrphan`,
`EndScan`; `Interrupt` (an operation raises, or the process dies) anywhere.
The temporary file of a put that died stays in its directory, which no code
scans; nothing depends on it, so the model drops it with the call. The history
`mixed` becomes true when a prune runs at the same time as any other call. `DeleteCase` stands for a case that is
deleted from the database, as the repository's tests do it. Ages and sizes only
decide which rows qualify, so that is a choice.

### SingleWriter

State: the queue, `_closed`, where the thread is, which futures are done, and
each caller's place in `execute` or `close`. Looking at `_closed` and acting on
it are different steps, because the code holds no lock. `Interrupt` is Control-C
in a waiting caller. Two histories (`arrived`, `executed`) exist for properties.

### Inventory

State: a clock, `inventory_current` and `inventory_history` with one fact per
probe, and each process's case: when it was created, which probes are still to
run, the observation in hand. `StartCase` takes the time, `PlanCase` reads the
inventory and leaves out fresh optional probes, `Collect` reads a value at some
later moment, `Store` upserts it, dated with the case's creation, and
`InvalidateFor` marks the facts of a signal's categories. `StartRefresh` is
`InventoryService.refresh`, `Leave` any end of a call. What a probe finds is any
value, since the machine may change at any time. The histories say when a value
was really read and whether a signal came between its reading and its storing.
Relevance and budgets of the plan stay a choice, as in `CaseRuntime`; the limit
of 500 facts per read lies above the number of registered probes.

### Planning

`Inventory` with `PlanCase` replaced by `PlanFor`, which plans as
`DeterministicPlanner.plan` does: `Before` is the order of the two sorted lists,
`Consider` one turn of the loop, `Plan` the loop as a recursive function. Which
candidates a symptom's words and a target's traits match is a choice (`Relevant`),
as are the budgets a case comes with. The plan is kept for one step, for the
properties to look at. `PlanIsGreedy` is a definition without a loop: it says of
each candidate, from the finished plan alone, whether it had to be in it, and
`PlanInBudget` what the plan may cost.

### EvidenceTable, Paging, Brief and Workspace

`EvidenceTable` keeps the rows, their `captured_at`, and what `prune` may still
delete: `Collect` commits a row of any age, `DeleteExpired` and `DeleteOldest`
are the two statements of `prune`, which share one batch. Sizes are counted in
records. One prune runs at a time.

`Paging` is one client that reads one listing: evidence under a filter, coverage
rows, or the facts of a record (`GetEvidence`, then `inspect_more`). A cursor is
an offset, signed for one listing with the process's secret; the page size may
change from page to page, and each page is read with one row to look ahead.
What was there at the first page and what came and went since is history that
only properties read.

`Brief` reads evidence and coverage in two statements, between which rows may
come and go, ranks evidence by rounds of categories, packs candidates greedily
under the budget, and takes the delta against the brief the process gave
before. Scores and the lengths of lines are constants; a text is as long as its
lines. A section of which nothing is in shows one line in place of its rows,
`OmittedLine`. A line about a row cites its identifier and is never shorter than
that one, which `BriefAssumption` states; a line about a probe may be. So the
first probe to get in can shorten the text, and a row left out earlier would
then fit but is not tried again: `BriefFillsBudget` measures a row against the
brief without its probes. An identifier that fell out of a brief and comes back is announced once
more. `TooSmall` is the `ValueError` of a budget that cannot hold the envelope.
`pending` holds the plans of cases that were opened without a runtime; with one
it is always empty.

`Workspace` composes them. Tool calls of a process do not overlap, so a page is
one action and a brief is interleaved only with other processes. `Restart`
loses briefs and plans and invalidates cursors.

`SkippedOnlyInATie` is worth a word. New rows come first in a listing and
retention deletes the oldest, which come last, so a deletion moves nothing in
front of the offset, except among rows with one `captured_at`: there both
orders go by `evidence_id`, and the rows of one `open_case` all bear the time
the case was created. A prune between two pages of such a case can therefore
make a client miss rows that are still there. The property says that this is
the only way.

### EnvelopeQueue and EnvelopeCoalescer

The queue is a set of envelopes numbered as they were offered; `Accept`,
`Displace` and `Refuse` are the three ends of `offer`, `Pop` takes the most urgent.
An envelope is its source and what it states, which decides its priority. The
history `left` says what left the queue, how, and with which overflow.

The coalescer is a function from keys to groups; the order of its `OrderedDict`
is in `touched`, the call that last moved a group to the end. `AddToGroup`,
`AddGroup` and `AddInPlaceOf` are the ends of `add`, `Flush` hands everything out.
The history `added` says of each envelope what became of it. An evicted group is
only counted, and its envelopes with it are lost: that is what the code promises,
and the model shows that nothing else is.

### Snapshots and LogIncrements

`Snapshots` runs one handler: for each of its sections `Ask` reads a table of any
rows (external) and keeps of them what the section keeps. A row is known by whether
it can be read, is in scope, and how it ranks. The ends of a section are actions:
`Collect`, `DeniedConnections` (a refusal that reads as an empty list),
`UnavailableServices` (the only failure a handler goes on from), `Fail`. Two
properties of the code show in the exceptions of the properties: the updates are
cut to their limit *before* they are sorted, by dates compared as text, so what
Windows lists late is lost however recent it is; and refused endpoints leave no
trace in the snapshot.

`LogIncrements` reads a log that is being written, in increments of any size up
to a bound. A line is two cells, so that a cut may fall before, inside or behind
what marks a header or an error. `SetupApiIncrement` and `ServicingLogIncrement`
are the two parsers; both take a line that starts with "!!!" for an error, the second
one also a line with "error" in it. A header opens the section of a device, or of one
whose text `SetupApiEntry` rejects (`unnamed`): that exception takes the increment
with it (`Raises`), and a caller that gets no offset stays where it is. A line that
opens a section of `other` kinds is text to the parser, so the errors of that section
go to the device before it. A cut in front of a "!!!" makes an error of a line that is
none (`CutBeforeBang`). The properties state these as they are.

### Capabilities

`AnswerFromCache` and `Detect` are the two ways `detect` begins, `Probe` one
capability's probe, `ProbeNothing` what is done off Windows, `Store` the end. The
histories `uptime` and `set_back` are the time that really passed and how far the
clock went back. A `system_info()` that raises makes the platform "unknown", which
is compared with "Windows" first: the branch that reports the failure as an error
is never reached, and the model has no action for it.

### MCStandalone

The single writer and the five modules above share nothing. Each behaviour of
`MCStandalone` is one of the part that the variable `part` names while the others
stay at their initial states: the state space is the sum of theirs, not the
product, and every property is checked on the part it is about.

## 3. Runs

| run | instance | shows |
|---|---|---|
| `case_runtime` | 2 processes, 2 cases, 2 probes (one isolated, one in-process), 4 kinds of run; faults, prunes and refreshes anywhere | the stored log verifies; a case its caller was told is ready is complete; the facts cases stored have their evidence until retention deletes it; refinement of `CaseLedger` (row and event together, telling one story); every call ends, and with it its lock, but in a handler that never does |
| `case_reason` | the same without prunes and refreshes, no faults but the probes' | violation: an over-long failure text leaves neither row nor event and ends the case |
| `probe_runner` | `WorkerProtocol` with 3 probes (isolated, isolated but unknown to the worker, in-process), threshold 2, cooldown 1, timeout and grace 1, clock 0..2, up to 4 failures in a row | ok exactly for a whole answer in time; partial evidence kept once; no worker left but by an interruption; every isolated run ends; cooldown honoured, refusals justified |
| `probe_trial` | `ProbeRunner` alone, 2 probes, cooldown 2, clock 0..3 | violation: a trial that raises leaves the circuit half open |
| `sentinel` | 2 pollers, batches of 2, 4 records, the last unparsable; interruptions and refusals anywhere | bookmark never passes an uncaptured record; once interruptions cease, every record out of reach of the unparsable one is captured or overwritten, and that one is overwritten or has put a failed row on record |
| `sentinel_gap` | 1 poller, 4 records | violation: overwritten records leave a silent hole |
| `artifacts` | 2 processes, 3 contents, 2 cases, batches of 2; faults anywhere | links only go with their case; until a prune runs into another call, linked artifacts keep their objects and a finished prune leaves no orphan |
| `artifacts_race` | 2 processes, 2 contents, batches of 1 | violation: prune unlinks what another process has just linked |
| `single_writer` | `MCStandalone`. Writer: 2 callers, 2 calls each, any number of interrupts. Queue: size 2, 5 offers of 4 envelopes of all three priorities. Coalescer: 2 groups, 3 keys, 5 envelopes, 2 instants. Snapshots: up to 3 rows, limits 1 and 2, 2 ranks. Logs: up to 3 lines, increments up to 5 cells, 1 error kept, no line with both "error" and "!!!" (`OneMark`). Capabilities: 2 kinds, time to live 2, time 0..4, clock set back by 1 | writer: once and in order, only the race with close leaves a caller waiting, close returns. Queue: every envelope accounted for, the urgent first. Coalescer: groups tell of all their envelopes, a burst evicts nothing. Snapshots: a row gives way to a lesser one only behind the raw limit, a short list is complete. Logs: errors under the device whose header came last, lost for one of three reasons only (a cut, the limit, a rejected device). Capabilities: answers are recent |
| `inventory` | 2 processes, 2 probes with times to live 2 and 1, 2 values, 2 signals, clock 0..2, 2 cases or refreshes; 3 more candidates that observe nothing, budgets 1, 4, 6, at most 2 or 4 probes; symmetry in processes and values | history is the sequence of changes; fresh facts were read recently; only an observation under way at a signal survives it; a plan accounts for every candidate, is greedy by priority, and plans the common bundle whatever else there is |
| `workspace` | 3 evidence rows of 2 categories and a coverage row of one case, page sizes 1 and 2, batches of 2, 3 budgets, 3 revisions, restarts anywhere | listings skip only in a tie and repeat only behind an insertion; deltas add up; a brief leaves out no row that fits beside its rows, no probe that still fits, and no category for another's second record |
| `workspace_citation` | the same | violation: a citation of a coverage record cannot be expanded |

The violations are the findings of `PROJECT.json`, each against a sentence of
the repository's documents or docstrings.

**Bounds.** Two processes are enough to have a holder and a contender of the
write lock, and two probes to have a committed and an interrupted one in the
same case, one of each kind of execution; four kinds of run cover the branches of persistence: an observation,
a failure, one with a text too long for a coverage reason, and truncated output.
Threshold 2 with up to four failures reaches
closed, open, a failed trial, a reopened circuit and its next trial; the clock is
longer than the cooldown in both directions. One worker is enough, since `run` is
called by one thread and, by `NoWorkerLeft`, the next one meets nothing but an orphan,
which shares no pipe with it; timeout and grace of
one tick put every step of the worker before, at or after either. Four or five records with batches
of two give a full batch, a partial one, one that does not parse and one
overtaken by overwriting. Three contents and batches of two make the batch limit
bite. Two calls each let one caller be ahead of a `close` and another behind it.
A queue of two and five offers let an envelope be displaced, one be refused and one
popped in any order; two groups and three keys evict, and five envelopes fill a
group again behind an eviction. Three rows exceed both limits; three lines are a
header, an error and the next header or error, and five cells are two lines and half of
a third. Either mark of an error is found by a disjunct of its own, so a line with both is
found where one with either of them alone would be; the proofs have such lines. Time to live 2 in a time of 4 lets an answer be fresh, expire and,
with the clock set back once, outlive its time.
Two cases are one to store a fact and one to find it fresh, or two that store
the same fact in either order; the clock outlives the time to live of the
optional probe and not that of the common one. Five candidates of cost 1 and 2 are
two common ones, an expensive and a cheap relevant one in this order, and one worth
too little; the budgets hold one of them, some, and nearly all.
Three evidence rows are two of one category and one of another, and two to be
deleted while a third is still to be shown; budgets of 29, 44 and 57 leave room
for none of them, for one or two, and for two or three, depending on the coverage
row and on how many were announced before. Listings and briefs share only the
table, and a brief's rows do not depend on times below its row limits, so the
constraint `OneAtATime` explores them apart, briefs with the clock at rest; the
proofs need neither. Counters are capped in guards by `MaxTime`, `MaxElapsed`,
`MaxFailures`, `MaxRecord`, `MaxCalls`, `MaxCases`, `MaxRevision`, `MaxOffers`,
`MaxAdds`, `MaxRows`, `MaxLines`, `MaxCells`, `MaxNow`, `MaxSetBack`.

**Deadlock** is checked except in two runs that really come to rest:
`case_reason`, when all case identifiers are used up and every process is idle,
and `single_writer`, when the writer is closed or all calls are made, a handler has
emitted, a log is read to its end, or a bound on offers, envelopes or time is met.
`CaseRuntime`, `ArtifactRetention`, `Inventory` and `Workspace` never rest: a refresh,
a put or a prune can always begin, a signal always come, the server always be restarted.

**Fairness.** `CaseRuntime`: a process inside `open_case` and in no in-process handler
keeps running; no single outcome is forced. Statements and lock waits are bounded by
the busy timeout, isolated runs by their deadline (`IsolatedRunsEnd`); nothing bounds a
handler in the process (`probes.py:189`), so nothing is asked of it (`InHandler`), and
`CallsEnd` excepts a process that stays in one. `SingleWriter`: the operating system schedules the
thread and every caller that can go on; nobody is obliged to call.
`Sentinel` (`FairSpec` only): every sentinel keeps polling, and a time comes
after which the log refuses nothing and nothing interrupts a poll; until then
both may strike anywhere. `EventuallyCaptured` is therefore conditional: it says
nothing of a sentinel that nobody starts again, nor of records whose batch may
reach one that never parses, which blocks the channel where it is; `StopIsReported`
says, under the same fairness, that it does not do so in silence. `WorkerProtocol`:
the executor's thread runs, time passes, and a killed process dies; nothing is
asked of a worker that has not been killed, and no interruption has to come, so `IsolatedRunsEnd` holds of one
that hangs and ignores `terminate()`. The other models state safety only.

## 4. Proofs

`tlapm` proves, for all values of the constants under the named assumptions:

- **CaseRuntime**: type correctness, `StoredAuditVerifies`, `ResultIffAudited`,
  `RowAgreesWithAudit`, `ReadyIsComplete`, `InventoryHasEvidence`, and
  `ImplementsLedger`: every behaviour is one of `CaseLedger`, each step one of its
  steps or a stutter. Rows are counted as those there are and those retention has
  deleted. The argument has three layers.
  `ControlInv` says where each process is and what it owns: distinct processes
  own distinct cases, and only the process inside a transaction is the writer.
  `ChainInv` adds the chain: the stored log is the in-memory one up to the
  probe in hand. `RowInv` adds the rows. None of the properties is inductive by
  itself: the stored log stays verifiable only because the in-memory chain
  extends it and an interrupted call never writes to its case again.
  `CaseLedger` states safety only, so its refinement is proved as a whole.
- **ProbeRunner**: type correctness, `CooldownHonoured`,
  `OnlyUnrecordedTrialsStick` and `RefusalJustified`. `CircuitInv` relates
  state, count and opening time to the history of recorded failures; it needs no
  assumption about the clock. It also says that an isolated probe the worker does not
  know has no failures, and so never a trial, which is why a denial leaves none behind.
- **WorkerProtocol**: that the theorems about `ProbeRunner` hold of it too
  (`ProtocolKeepsCircuits`, by the lemma `ProtocolRuns`), and `NoWorkerLeft`, from
  the invariant `Attended`: the executor is busy exactly while an isolated probe is
  run, and a worker lives only while it waits for one, or is an orphan of an
  interrupted call.
  `PartialEvidenceKept` and `OkIffWhole` follow from `OutputInv`, which says what
  the lines written so far are at each place of the worker, and what the
  execution returned has of them. That a payload is in the parsed evidence
  exactly when a whole line of the output states it is proved by induction over
  the output.
- **Sentinel**: type correctness, `NothingSkipped`, `BookmarkIsCaptured`,
  `BookmarkMovesOn`. `SentinelInv` says that whatever
  bookmark a poller read was covered when it was read, that coverage only grows,
  and that a batch starts right behind the bookmark or the oldest record; two
  pollers can then commit in any order.
- **ArtifactRetention**: type correctness, `NoTornObject`, `AuthorityKept`,
  `LinkedHasObjectUnlessMixed` and `PruneReconciles`, for any number of
  processes. `SharedInv` ties each place to its memory and file. `Apart`, which
  holds until a prune runs into another call, says that the row of an object
  comes after the object and goes before it, and what a scan has already seen.
  The run `artifacts_race` shows that the condition cannot be dropped.
- **Inventory**: type correctness, `HistoryIsTheChanges`, `FreshWasReadRecently`,
  `InvalidationHonoured`, `OnlyStoringRefreshes`. `DatesInv` bounds the date of
  each fact and of each observation in hand by the time it was read; `MarksInv`
  says that a fact read before the last signal bears that signal's mark or was
  stored after it. Both are needed because a fact is dated before it is read and
  a signal may fall in between. Every step of `Planning` is a step of `Inventory`,
  so these theorems hold of it too (`PlanningKeepsTheInventory`).
- **Planning**: `PlanIsGreedy` and `PlanInBudget`, for any candidates, costs,
  values and budgets. The planner's loop takes the candidates in the order of
  `Before`, which is shown to be a strict total order; `EveryoneHasATurn` then
  says that each has one turn, behind exactly those before it. `Passed` is the
  loop's invariant: what is planned, left out and spent after each turn, and who
  of these fits beside the planned ones before it. That rule determines what is
  planned: of two sets that obey it, the first candidate in only one of them
  would have the same before it in both. Hence the common bundle, which nothing
  else stands before, is planned as if it were alone.
- **Workspace**: type correctness, `SkippedOnlyInATie`,
  `TwiceOnlyBehindAnInsertion`, `DeltasCoverBrief`. `PagesInv` counts
  predecessors: an item still to be shown has at least as many as the offset, an
  item shown has fewer, unless a row before it was deleted or inserted since the
  first page. Lemmas on `FirstRows` say that a batch is bounded by its limit and
  takes the oldest rows, hence that what is deleted comes last up to ties.
  `BriefFillsBudget` and `DiverseBeforeDeep` say what packing made of the ranks:
  every brief tells what it was packed from (`IsPacked`), and the invariant of the
  packing loop is that what was left out did not fit beside some of those in
  before it. A text only grows with its rows (this is where `BriefAssumption` is needed),
  so what did not fit beside them does not fit beside more; and the best of each
  category come before every second, so nothing but best ones were in when a best
  one was tried. `EvidenceCitationsExpand` is what is left of the claim that
  `workspace_citation` refutes: the rows a call has read, and those a brief
  cites, are rows of its case, still there or deleted since.
- **SingleWriter**: type correctness, `InOrderOnce` and `HangsOnlyInTheRace`,
  the latter from the order of arrivals and from `Handed`: what was executed was
  answered, and who waits has handed over.
- **EnvelopeQueue**: type correctness, `QueueAccounts` and `UrgentFirst`. `UrgentInv`
  keeps for each departure that it stood in its turn to all that stayed or left
  later; a later offer does not disturb it, since its number is higher.
- **EnvelopeCoalescer**: type correctness, `GroupsTellTheStory` and
  `EvictedOnlyForLater`, which are inductive together: the group given up was
  touched before every other, and by its story each other group was touched by an
  envelope of its own key.
- **Snapshots**, **LogIncrements**, **Capabilities**: `OutrankedOnlyBehindRawLimit`
  and `ShortMeansComplete` (a section that keeps fewer rows than its limit keeps
  all it got to, by counting the rows ranked before one that is not kept);
  `AttributedToItsSection` (two headers cannot both be the last before a line, and
  what is cut from its header has no section) and `LostForAReason` (`ParsedInv` says
  that what an increment that did not raise shows stays reported, and
  `FirstOrCrowdedOut` that the first errors under one header are kept, so one that is
  missing has as many before it); and `AnswersAreRecent` (the clock
  and the time that passed differ by what the clock was set back).

`InductionLemmas` holds what several of these proofs need of loops. An induction
theorem that takes an operator cannot be instantiated by the provers, so the
lemmas there take sets and functions: `Induction` a set of numbers, `LoopInduction`
a range of turns, `Recursion` a function that makes each value from the one
before, `EveryoneHasATurn` a relation that orders a finite set, and
`TotalOfAll` and `TotalGrows` a function to be summed, as `MapThenSumSet` does.
A property is carried over the turns of a loop as the set of those turns at which
it holds.

Assumptions on constants are the `ASSUME`s of the modules: sets of model values
do not contain `None`, limits and times to live are positive, runs are
`ProbeRun`s. `Inventory` assumes a clock that is not set back.

The type invariants (`TypeOK` and its like, in `StandaloneProofs` parts of the
inductive invariants) are proved and in no run. So are these, because another property of the run
would fail with them or implies them for the most part: `NoTornObject` (`LinkedHasObjectUnlessMixed`), `ResultIffAudited` and `RowAgreesWithAudit` (contained in
`ImplementsLedger`), `BookmarkIsCaptured` and `BookmarkMovesOn` (`NothingSkipped`,
`EventuallyCaptured`), `PlanInBudget` (`PlanIsGreedy`), `EvidenceCitationsExpand`
(`CitationsExpand` with the coverage records left out), `OnlyUnrecordedTrialsStick` (`RefusalJustified`) and
`OnlyStoringRefreshes` (`InvalidationHonoured`).

Only model-checked is liveness (`CallsEnd`, `EventuallyCaptured`, `StopIsReported`,
`InTimeIsAnswered`, `CloseReturns` and `IsolatedRunsEnd`), which the proof system
does not treat. Every safety
invariant and every other action property that a run checks is a theorem. The
five runs that expect a violation show what is not one.

## 5. Plan

Done, in this order: `AuditChain`, `CaseLedger`, `CaseRuntime`, `ProbeRunner`,
`Sentinel`, `ArtifactRetention`, `SingleWriter`, `Inventory`, `EvidenceTable`,
`Paging`, `Brief`, `Workspace`, `WorkerProtocol`, `Planning`, `EnvelopeQueue`,
`EnvelopeCoalescer`, `Snapshots`, `LogIncrements`, `Capabilities`, and the proofs of
every safety property the runs check.

What would come next, most important first:

1. Loading a case whose collection was cut short (`_load_case` calls it ready):
   `CaseRuntime` composed with `Workspace`.
2. The queue, the coalescer and the log parsers composed with what will feed
   them, once the program does.
3. The benchmark agent's loop and its trace recorder.

## 6. Not modelled

- Redaction and all wording: text, and no property depends on it. Scores of the
  ranking and lengths of lines are constants.
- The packs no probe calls (ports, files, Windows Error Reporting, routes, DNS,
  audio, CUDA, update events) and the handlers of `core.system` and
  `core.resources`, which read one record each.
- Argument parsing and printing; record declarations beyond the vocabularies and
  the one length limit that matters.
- The benchmark harness, which drives the program and is no part of it.
- One hazard has no property, as the code does nothing to check: the temporary file
  of a `put` that died is never collected. An in-process handler that hangs has no
  deadline either; `CallsEnd` says that nothing else holds a call for ever.
- A worker whose call was interrupted: how long it lives is the operating system's
  affair, and no code looks at it again.

`raw_evidence_bytes` counts records in the model, not bytes. Migration of the
database schema happens once, before any process modelled here runs.
