------------------------------ MODULE Sentinel ------------------------------
(***************************************************************************)
(* Sentinel.poll: incremental capture of one Windows Event Log channel     *)
(* into the evidence of a case, resumed from a bookmark in the database.   *)
(* Pollers are processes; two command-line sentinels may poll one channel  *)
(* into the same or different cases.  Channels share no state (a bookmark  *)
(* row and source identities of their own), so one is modelled.            *)
(*                                                                         *)
(* The channel belongs to Windows: records get consecutive numbers, and a  *)
(* full log overwrites its oldest record.  The handler's "stored bookmark  *)
(* is invalid" branch is left out: no step of the program stores a         *)
(* bookmark that is not a record number.                                   *)
(***************************************************************************)
EXTENDS Naturals

CONSTANTS
  Poller,      \* processes running a sentinel
  Case,        \* cases they capture for
  Limit,       \* the largest batch a poll reads
  Unparsable,  \* record numbers whose XML parse_event_xml rejects
  MaxRecord,   \* bound on the records ever written to the channel
  None

ASSUME SentinelAssumption ==
  /\ Limit \in Nat \ {0}
  /\ MaxRecord \in Nat
  /\ Unparsable \subseteq 1..MaxRecord
  /\ None \notin Poller \cup Case

Record == 1..MaxRecord
CoverageStatus == {"denied", "stale", "failed"}

VARIABLES
  \* the channel
  first,      \* the oldest record still in the log
  next,       \* the number the next record gets
  \* committed tables
  bookmark,   \* bookmarks.position of the channel; 0 stands for no row
  evidence,   \* pairs of a case and a captured record
  coverage,   \* pairs of a case and a coverage status of the channel
  \* the write transaction
  writer,
  txn,        \* its inserted evidence, and its bookmark (0: not written yet)
  \* each poller's memory
  pc,
  case_id,    \* the case it polls for
  saved,      \* the bookmark it read
  lo, hi,     \* the batch query() gave it, records lo..hi
  status      \* the status query() gave it

channel == <<first, next>>
tables == <<bookmark, evidence, coverage>>
memory == <<case_id, saved, lo, hi, status>>
vars == <<channel, tables, writer, txn, pc, memory>>

EmptyTxn == [rows |-> {}, position |-> 0]

\* Before a poll, with the bookmark read, with a result of query(), and
\* inside the transaction before the inserts, the bookmark and the COMMIT.
Location == {"idle", "query", "result", "insert", "advance", "commit"}
InTransaction == {"insert", "advance", "commit"}

TypeOK ==
  /\ first \in 1..(MaxRecord + 1)
  /\ next \in 1..(MaxRecord + 1)
  /\ bookmark \in 0..MaxRecord
  /\ evidence \subseteq Case \X Record
  /\ coverage \subseteq Case \X CoverageStatus
  /\ writer \in Poller \cup {None}
  /\ txn \in [rows : SUBSET (Case \X Record), position : 0..MaxRecord]
  /\ pc \in [Poller -> Location]
  /\ case_id \in [Poller -> Case \cup {None}]
  /\ saved \in [Poller -> 0..MaxRecord]
  /\ lo \in [Poller -> Nat]
  /\ hi \in [Poller -> 0..MaxRecord]
  /\ status \in [Poller -> CoverageStatus \cup {"ok", "none"}]

Init ==
  /\ first = 1
  /\ next = 1
  /\ bookmark = 0
  /\ evidence = {}
  /\ coverage = {}
  /\ writer = None
  /\ txn = EmptyTxn
  /\ pc = [p \in Poller |-> "idle"]
  /\ case_id = [p \in Poller |-> None]
  /\ saved = [p \in Poller |-> 0]
  /\ lo = [p \in Poller |-> 0]
  /\ hi = [p \in Poller |-> 0]
  /\ status = [p \in Poller |-> "none"]

Goto(p, l) == pc' = [pc EXCEPT ![p] = l]

\* poll() is over for p: its locals are gone and so is what it had not
\* committed.
Forget(p) ==
  /\ Goto(p, "idle")
  /\ case_id' = [case_id EXCEPT ![p] = None]
  /\ saved' = [saved EXCEPT ![p] = 0]
  /\ lo' = [lo EXCEPT ![p] = 0]
  /\ hi' = [hi EXCEPT ![p] = 0]
  /\ status' = [status EXCEPT ![p] = "none"]

-----------------------------------------------------------------------------
\* The channel.
LogEvent ==
  /\ next <= MaxRecord
  /\ next' = next + 1
  /\ UNCHANGED <<first, tables, writer, txn, pc, memory>>

Overwrite ==
  /\ first < next
  /\ first' = first + 1
  /\ UNCHANGED <<next, tables, writer, txn, pc, memory>>

-----------------------------------------------------------------------------
ReadBookmark(p) ==
  /\ pc[p] = "idle"
  /\ \E c \in Case : case_id' = [case_id EXCEPT ![p] = c]
  /\ saved' = [saved EXCEPT ![p] = bookmark]
  /\ Goto(p, "query")
  /\ UNCHANGED <<channel, tables, writer, txn, lo, hi, status>>

Least(a, b) == IF a <= b THEN a ELSE b
Greatest(a, b) == IF a >= b THEN a ELSE b

\* "EventRecordID > bookmark", oldest first, at most Limit of them.
BatchLow(p) == Greatest(saved[p] + 1, first)

\* Mutant: the newest record is left for the next poll.
BatchHighLagging(p) == Least(BatchLow(p) + Limit - 1, next - 2)

BatchHigh(p) == Least(BatchLow(p) + Limit - 1, next - 1)

\* Nothing new: the poll is over and the bookmark stays.
QueryEmpty(p) ==
  /\ pc[p] = "query"
  /\ BatchHigh(p) < BatchLow(p)
  /\ Forget(p)
  /\ UNCHANGED <<channel, tables, writer, txn>>

\* One record that does not parse fails the whole batch.
QueryBatch(p) ==
  /\ pc[p] = "query"
  /\ BatchLow(p) <= BatchHigh(p)
  /\ lo' = [lo EXCEPT ![p] = BatchLow(p)]
  /\ hi' = [hi EXCEPT ![p] = BatchHigh(p)]
  /\ status' = [status EXCEPT ![p] =
       IF (BatchLow(p)..BatchHigh(p)) \cap Unparsable = {} THEN "ok" ELSE "failed"]
  /\ Goto(p, "result")
  /\ UNCHANGED <<channel, tables, writer, txn, case_id, saved>>

\* The Event Log API refuses access or fails.
QueryRefused(p) ==
  /\ pc[p] = "query"
  /\ \E s \in {"denied", "failed"} : status' = [status EXCEPT ![p] = s]
  /\ Goto(p, "result")
  /\ UNCHANGED <<channel, tables, writer, txn, case_id, saved, lo, hi>>

\* Mutant: the row's identity leaves the status out.
PersistCoverageByChannel(p) ==
  /\ pc[p] = "result"
  /\ status[p] # "ok"
  /\ writer = None
  /\ coverage' = IF \E s \in CoverageStatus : <<case_id[p], s>> \in coverage
                 THEN coverage
                 ELSE coverage \cup {<<case_id[p], status[p]>>}
  /\ Forget(p)
  /\ UNCHANGED <<channel, bookmark, evidence, writer, txn>>

\* A failed query becomes a coverage row, in a transaction of its own; the
\* row's identity is the channel and the status, so a case has it once.
PersistCoverage(p) ==
  /\ pc[p] = "result"
  /\ status[p] # "ok"
  /\ writer = None
  /\ coverage' = coverage \cup {<<case_id[p], status[p]>>}
  /\ Forget(p)
  /\ UNCHANGED <<channel, bookmark, evidence, writer, txn>>

Begin(p) ==
  /\ pc[p] = "result"
  /\ status[p] = "ok"
  /\ writer = None
  /\ writer' = p
  /\ Goto(p, "insert")
  /\ UNCHANGED <<channel, tables, txn, memory>>

\* (case_id, source_id) is unique: an event the case already has stays once.
InsertEvents(p) ==
  /\ pc[p] = "insert"
  /\ txn' = [txn EXCEPT !.rows = {case_id[p]} \X (lo[p]..hi[p])]
  /\ Goto(p, "advance")
  /\ UNCHANGED <<channel, tables, writer, memory>>

\* Mutant: the bookmark is committed ahead of the events.
AdvanceBookmarkAutocommit(p) ==
  /\ pc[p] = "advance"
  /\ bookmark' = hi[p]
  /\ txn' = [txn EXCEPT !.position = hi[p]]
  /\ Goto(p, "commit")
  /\ UNCHANGED <<channel, evidence, coverage, writer, memory>>

\* The bookmark becomes the last record of the batch, whatever it is now.
AdvanceBookmark(p) ==
  /\ pc[p] = "advance"
  /\ txn' = [txn EXCEPT !.position = hi[p]]
  /\ Goto(p, "commit")
  /\ UNCHANGED <<channel, tables, writer, memory>>

Commit(p) ==
  /\ pc[p] = "commit"
  /\ evidence' = evidence \cup txn.rows
  /\ bookmark' = txn.position
  /\ writer' = None
  /\ txn' = EmptyTxn
  /\ Forget(p)
  /\ UNCHANGED <<channel, coverage>>

\* The process dies, a statement fails or the busy timeout runs out: the
\* open transaction rolls back.
Interrupt(p) ==
  /\ pc[p] # "idle"
  /\ Forget(p)
  /\ IF writer = p
     THEN writer' = None /\ txn' = EmptyTxn
     ELSE UNCHANGED <<writer, txn>>
  /\ UNCHANGED <<channel, tables>>

Step(p) ==
  \/ ReadBookmark(p)
  \/ QueryEmpty(p) \/ QueryBatch(p)
  \/ PersistCoverage(p)
  \/ Begin(p) \/ InsertEvents(p) \/ AdvanceBookmark(p) \/ Commit(p)

Next ==
  \/ LogEvent
  \/ Overwrite
  \/ \E p \in Poller : Step(p) \/ QueryRefused(p) \/ Interrupt(p)

\* Sentinels that are not stopped keep polling, and a time comes when the log
\* refuses nothing and nothing interrupts them any more.
Fairness ==
  /\ \A p \in Poller : WF_vars(Step(p))
  /\ <>[][LogEvent \/ Overwrite \/ \E p \in Poller : Step(p)]_vars

Spec == Init /\ [][Next]_vars
FairSpec == Spec /\ Fairness

-----------------------------------------------------------------------------
(***************************************************************************)
(* Properties                                                              *)
(***************************************************************************)

Captured(r) == \E c \in Case : <<c, r>> \in evidence

\* Every record at or below the bookmark is in the evidence of some case,
\* unless the channel overwrote it: no crash, failed transaction or second
\* poller moves the bookmark past a record that was still there to read
\* (sentinel.py:99-163).
NothingSkipped ==
  \A r \in 1..bookmark : Captured(r) \/ r < first

\* The bookmark is itself a captured record, and one that exists: a poll
\* resumes behind something it has, never behind a number it made up
\* (sentinel.py:97, 159-163).
BookmarkIsCaptured == bookmark # 0 => Captured(bookmark) /\ bookmark < next

\* The bookmark moves back only when another poll has moved it since this one
\* read it: a poll that nothing raced always brings it forward
\* (sentinel.py:69-72, 159-163).
BookmarkMovesOn ==
  [][\A p \in Poller : Commit(p) /\ saved[p] = bookmark => bookmark' > bookmark]_vars

\* A record is eventually captured or overwritten, as long as sentinels keep
\* polling and no batch that may start at or below it holds a record that
\* does not parse: such a record stops the channel where it is
\* (sentinel.py:69-104, 244-280).
EventuallyCaptured ==
  \A r \in Record : (\A u \in Unparsable : r + Limit - 1 < u) =>
    (r < next ~> Captured(r) \/ r < first)

\* Such a record does not stop the channel in silence: it is overwritten, or a
\* case gets a "failed" row for the channel, whatever rows of other statuses
\* the channel has already, which poller runs into the record, and what
\* interrupted the polls before (sentinel.py:87-92, 166-214).
StopIsReported ==
  \A u \in Unparsable :
    u < next ~> u < first \/ \E c \in Case : <<c, "failed">> \in coverage

\* docs/packs.md: "Denied or stale channels become coverage evidence", and
\* StaleBookmarkError: "The saved record position no longer exists in the
\* channel."  A case whose captured records have a hole the channel
\* overwrote, in no case's evidence, has a stale coverage row.
GapIsReported ==
  \A c \in Case, r \in Record :
    (\E a, b \in Record : a < r /\ r < b /\ <<c, a>> \in evidence /\ <<c, b>> \in evidence)
      /\ ~ Captured(r)
    => <<c, "stale">> \in coverage

=============================================================================
