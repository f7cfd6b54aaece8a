--------------------------- MODULE SentinelProofs ---------------------------
(***************************************************************************)
(* What holds of Sentinel for every number of pollers, cases and records,  *)
(* and every batch limit.  The argument: a number is covered when every    *)
(* record up to it is captured or overwritten; coverage is stable, because *)
(* evidence and the overwritten part of the channel only grow; the stored  *)
(* bookmark, every bookmark a poller read, and the end of every batch once *)
(* its evidence is in, are covered.                                        *)
(***************************************************************************)
EXTENDS Sentinel, TLAPS

USE DEF Location, InTransaction

\* Every record below n is captured or overwritten.
CoveredBelow(n) == \A r \in Record : r < n => Captured(r) \/ r < first

\* b is a position a poll may resume from.
Resumable(b) ==
  /\ CoveredBelow(b + 1)
  /\ b # 0 => b \in Record /\ b < next /\ Captured(b)

HasBatch(p) == (pc[p] = "result" /\ status[p] = "ok") \/ pc[p] \in InTransaction

Batch(p) ==
  /\ lo[p] \in Record /\ hi[p] \in Record
  /\ saved[p] < lo[p] /\ lo[p] <= hi[p] /\ hi[p] < next
  /\ CoveredBelow(lo[p])

Polling(p) ==
  /\ pc[p] # "idle" => case_id[p] \in Case
  /\ pc[p] = "result" => status[p] # "none"
  /\ Resumable(saved[p])
  /\ HasBatch(p) => Batch(p)
  /\ writer = p <=> pc[p] \in InTransaction
  /\ pc[p] = "insert" => txn = EmptyTxn
  /\ pc[p] \in {"advance", "commit"} => txn.rows = {case_id[p]} \X (lo[p]..hi[p])
  /\ pc[p] = "commit" => txn.position = hi[p]

SentinelInv ==
  /\ TypeOK
  /\ first <= next
  /\ Resumable(bookmark)
  /\ writer = None => txn = EmptyTxn
  /\ \A p \in Poller : Polling(p)

-----------------------------------------------------------------------------
\* Once covered or resumable, always so: evidence grows, the channel only
\* loses its oldest records and gains new ones.
LEMMA CoverageIsStable ==
  ASSUME TypeOK, TypeOK', evidence \subseteq evidence', first <= first', next <= next', NEW n \in Nat
  PROVE  /\ CoveredBelow(n) => CoveredBelow(n)'
         /\ Resumable(n) => Resumable(n)'
<1>2. \A r \in Record : Captured(r) => Captured(r)'
  BY DEF Captured
<1>3. first \in Nat /\ first' \in Nat /\ next \in Nat /\ next' \in Nat
  BY SentinelAssumption DEF TypeOK
<1>4. ASSUME NEW m \in Nat, CoveredBelow(m) PROVE CoveredBelow(m)'
  BY <1>2, <1>3, <1>4, SentinelAssumption DEF CoveredBelow, Record
<1>5. ASSUME Resumable(n) PROVE Resumable(n)'
  BY <1>2, <1>3, <1>4, <1>5, SentinelAssumption DEF Resumable, Record
<1>6. QED
  BY <1>4, <1>5

\* What a poller relies on survives every step that is not its own.
LEMMA OthersKeepPolling ==
  ASSUME SentinelInv, TypeOK', NEW p \in Poller,
         evidence \subseteq evidence', first <= first', next <= next',
         pc'[p] = pc[p], case_id'[p] = case_id[p], saved'[p] = saved[p],
         lo'[p] = lo[p], hi'[p] = hi[p], status'[p] = status[p],
         writer' = p <=> writer = p,
         writer = p => txn' = txn
  PROVE  Polling(p)'
<1>1. Polling(p) /\ TypeOK
  BY DEF SentinelInv
<1>2. PICK s \in Nat, l \in Nat : s = saved[p] /\ l = lo[p]
  BY <1>1 DEF TypeOK
<1>3. saved'[p] = s /\ lo'[p] = l
  BY <1>2
<1>4. (Resumable(s) => Resumable(s)') /\ (CoveredBelow(l) => CoveredBelow(l)')
  BY <1>1, CoverageIsStable
<1>5. Resumable(saved[p])'
  <2>1. Resumable(s)
    BY <1>1, <1>2 DEF Polling
  <2>2. QED
    BY <1>3, <1>4, <2>1 DEF Resumable, CoveredBelow
<1>6. (HasBatch(p) => Batch(p))'
  <2>1. HasBatch(p)' <=> HasBatch(p)
    BY DEF HasBatch
  <2>2. ASSUME HasBatch(p) PROVE Batch(p)'
    <3>1. Batch(p) /\ CoveredBelow(l)
      BY <1>1, <1>2, <2>2 DEF Polling, Batch
    <3>2. CoveredBelow(l)'
      BY <1>4, <3>1
    <3>3. CoveredBelow(lo[p])'
      BY <1>3, <3>2 DEF CoveredBelow
    <3>4. hi[p] < next'
      BY <1>1, <3>1, SentinelAssumption DEF Batch, TypeOK, Record
    <3>5. QED
      BY <3>1, <3>3, <3>4 DEF Batch
  <2>3. QED
    BY <2>1, <2>2
<1>7. QED
  BY <1>1, <1>5, <1>6 DEF Polling, HasBatch

-----------------------------------------------------------------------------
\* Channel, tables, transaction and poller memory have their types.
LEMMA TypeStep == SentinelInv /\ [Next]_vars => TypeOK'
<1> SUFFICES ASSUME SentinelInv, [Next]_vars PROVE TypeOK'
  OBVIOUS
<1> USE SentinelAssumption
<1>1. TypeOK /\ first <= next /\ Resumable(bookmark) /\ (\A p \in Poller : Polling(p))
  BY DEF SentinelInv
<1>2. CASE LogEvent
  BY <1>1, <1>2 DEF TypeOK, LogEvent, tables, memory
<1>3. CASE Overwrite
  BY <1>1, <1>3 DEF TypeOK, Overwrite, tables, memory
<1>4. ASSUME NEW p \in Poller, Forget(p)
      PROVE  /\ pc' \in [Poller -> Location] /\ case_id' \in [Poller -> Case \cup {None}]
             /\ saved' \in [Poller -> 0..MaxRecord] /\ lo' \in [Poller -> Nat]
             /\ hi' \in [Poller -> 0..MaxRecord]
             /\ status' \in [Poller -> CoverageStatus \cup {"ok", "none"}]
  BY <1>1, <1>4 DEF TypeOK, Forget, Goto
<1>5. ASSUME NEW p \in Poller, ReadBookmark(p) PROVE TypeOK'
  BY <1>1, <1>5 DEF TypeOK, ReadBookmark, Goto, channel, tables
<1>6. ASSUME NEW p \in Poller, QueryEmpty(p) PROVE TypeOK'
  BY <1>1, <1>4, <1>6 DEF TypeOK, QueryEmpty, channel, tables
<1>7. ASSUME NEW p \in Poller, QueryBatch(p) PROVE TypeOK'
  <2>1. BatchLow(p) \in Nat /\ BatchHigh(p) \in 0..MaxRecord
    BY <1>1, <1>7 DEF TypeOK, QueryBatch, BatchLow, BatchHigh, Least, Greatest
  <2>2. QED
    BY <1>1, <1>7, <2>1 DEF TypeOK, QueryBatch, Goto, channel, tables, CoverageStatus
<1>8. ASSUME NEW p \in Poller, QueryRefused(p) PROVE TypeOK'
  BY <1>1, <1>8 DEF TypeOK, QueryRefused, Goto, channel, tables, CoverageStatus
<1>9. ASSUME NEW p \in Poller, PersistCoverage(p) PROVE TypeOK'
  <2>1. case_id[p] \in Case /\ status[p] \in CoverageStatus
    BY <1>1, <1>9 DEF TypeOK, Polling, PersistCoverage
  <2>2. coverage' \subseteq Case \X CoverageStatus
    BY <1>1, <1>9, <2>1 DEF TypeOK, PersistCoverage
  <2>3. QED
    BY <1>1, <1>4, <1>9, <2>2 DEF TypeOK, PersistCoverage, channel
<1>10. ASSUME NEW p \in Poller, Begin(p) PROVE TypeOK'
  BY <1>1, <1>10 DEF TypeOK, Begin, Goto, channel, tables, memory
<1>11. ASSUME NEW p \in Poller, InsertEvents(p) PROVE TypeOK'
  <2>1. {case_id[p]} \X (lo[p]..hi[p]) \subseteq Case \X Record
    <3>1. case_id[p] \in Case /\ lo[p] \in Record /\ hi[p] \in Record
      BY <1>1, <1>11 DEF Polling, InsertEvents, HasBatch, Batch
    <3>2. lo[p]..hi[p] \subseteq Record
      BY <3>1 DEF Record
    <3>3. QED
      BY <3>1, <3>2
  <2>2. txn' = [rows |-> {case_id[p]} \X (lo[p]..hi[p]), position |-> txn.position]
    BY <1>1, <1>11 DEF TypeOK, InsertEvents
  <2>3. txn' \in [rows : SUBSET (Case \X Record), position : 0..MaxRecord]
    BY <1>1, <2>1, <2>2 DEF TypeOK
  <2>4. QED
    BY <1>1, <1>11, <2>3 DEF TypeOK, InsertEvents, Goto, channel, tables, memory
<1>12. ASSUME NEW p \in Poller, AdvanceBookmark(p) PROVE TypeOK'
  <2>1. txn' = [rows |-> txn.rows, position |-> hi[p]]
    BY <1>1, <1>12 DEF TypeOK, AdvanceBookmark
  <2>2. txn' \in [rows : SUBSET (Case \X Record), position : 0..MaxRecord]
    BY <1>1, <2>1 DEF TypeOK
  <2>3. QED
    BY <1>1, <1>12, <2>2 DEF TypeOK, AdvanceBookmark, Goto, channel, tables, memory
<1>13. EmptyTxn \in [rows : SUBSET (Case \X Record), position : 0..MaxRecord]
  BY DEF EmptyTxn
<1>14. ASSUME NEW p \in Poller, Commit(p) PROVE TypeOK'
  <2>1. evidence' \subseteq Case \X Record /\ bookmark' \in 0..MaxRecord
    BY <1>1, <1>14 DEF TypeOK, Commit
  <2>2. QED
    BY <1>1, <1>4, <1>13, <1>14, <2>1 DEF TypeOK, Commit, channel
<1>15. ASSUME NEW p \in Poller, Interrupt(p) PROVE TypeOK'
  <2>1. txn' \in [rows : SUBSET (Case \X Record), position : 0..MaxRecord]
        /\ writer' \in Poller \cup {None}
    BY <1>1, <1>13, <1>15 DEF TypeOK, Interrupt
  <2>2. QED
    BY <1>1, <1>4, <1>15, <2>1 DEF TypeOK, Interrupt, channel, tables
<1>16. CASE UNCHANGED vars
  BY <1>1, <1>16 DEF TypeOK, vars, channel, tables, memory
<1>17. QED
  BY <1>2, <1>3, <1>5, <1>6, <1>7, <1>8, <1>9, <1>10, <1>11, <1>12, <1>14, <1>15, <1>16
  DEF Next, Step

-----------------------------------------------------------------------------
\* The batch query() returns starts right behind the bookmark that was read,
\* or behind what the channel overwrote, and ends below the next record.
LEMMA QueryBatchCovered ==
  ASSUME SentinelInv, NEW p \in Poller, pc[p] = "query", BatchLow(p) <= BatchHigh(p)
  PROVE  /\ BatchLow(p) \in Record /\ BatchHigh(p) \in Record
         /\ saved[p] < BatchLow(p) /\ BatchHigh(p) < next
         /\ \A r \in Record : r < BatchLow(p) => Captured(r) \/ r < first
<1> USE SentinelAssumption
<1>1. TypeOK /\ Resumable(saved[p])
  BY DEF SentinelInv, Polling
<1>2. saved[p] \in 0..MaxRecord /\ first \in 1..(MaxRecord + 1) /\ next \in 1..(MaxRecord + 1)
  BY <1>1 DEF TypeOK
<1>3. /\ BatchLow(p) \in Record /\ BatchHigh(p) \in Record
      /\ saved[p] < BatchLow(p) /\ BatchHigh(p) < next
  BY <1>2 DEF BatchLow, BatchHigh, Least, Greatest, Record
<1>4. ASSUME NEW r \in Record, r < BatchLow(p) PROVE Captured(r) \/ r < first
  <2>1. r < saved[p] + 1 \/ r < first
    BY <1>2, <1>4 DEF BatchLow, Greatest, Record
  <2>2. QED
    BY <1>1, <2>1 DEF Resumable, CoveredBelow
<1>5. QED
  BY <1>3, <1>4

\* Once a batch is committed its last record is a position to resume from.
LEMMA CommittedBatch ==
  ASSUME SentinelInv, TypeOK', NEW p \in Poller, Commit(p)
  PROVE  Resumable(bookmark)'
<1> USE SentinelAssumption
<1>1. TypeOK /\ Polling(p) /\ pc[p] = "commit"
  BY DEF SentinelInv, Commit
<1>2. /\ evidence' = evidence \cup ({case_id[p]} \X (lo[p]..hi[p]))
      /\ bookmark' = hi[p] /\ first' = first /\ next' = next
  BY <1>1 DEF Polling, Commit, channel
<1>3. /\ case_id[p] \in Case /\ lo[p] \in Record /\ hi[p] \in Record
      /\ lo[p] <= hi[p] /\ hi[p] < next /\ CoveredBelow(lo[p])
  BY <1>1 DEF Polling, HasBatch, Batch
<1>4. ASSUME NEW r \in Record, r < hi[p] + 1
      PROVE  (\E c \in Case : <<c, r>> \in evidence') \/ r < first
  <2>1. CASE r < lo[p]
    BY <1>2, <1>3, <2>1 DEF CoveredBelow, Captured
  <2>2. CASE r >= lo[p]
    <3>1. r \in lo[p]..hi[p]
      BY <1>3, <1>4, <2>2 DEF Record
    <3>2. QED
      BY <1>2, <1>3, <3>1
  <2>3. QED
    BY <1>3, <2>1, <2>2 DEF Record
<1>5. \E c \in Case : <<c, hi[p]>> \in evidence'
  <2>1. hi[p] \in lo[p]..hi[p]
    BY <1>3 DEF Record
  <2>2. QED
    BY <1>2, <1>3, <2>1
<1>6. QED
  BY <1>2, <1>3, <1>4, <1>5 DEF Resumable, CoveredBelow, Captured

\* A poll that is over remembers nothing a later step could rely on.
LEMMA IdleIsPolling ==
  ASSUME NEW p \in Poller, TypeOK', pc'[p] = "idle", saved'[p] = 0, writer' # p
  PROVE  Polling(p)'
<1>1. Resumable(saved[p])'
  <2>1. \A r \in Record : ~ (r < 0 + 1)
    BY SentinelAssumption DEF Record
  <2>2. QED
    BY <2>1 DEF Resumable, CoveredBelow
<1>2. QED
  BY <1>1 DEF Polling, HasBatch

LEMMA InvStep == SentinelInv /\ [Next]_vars => SentinelInv'
<1> SUFFICES ASSUME SentinelInv, [Next]_vars PROVE SentinelInv'
  OBVIOUS
<1> USE SentinelAssumption
<1>0. /\ TypeOK /\ TypeOK' /\ first <= next /\ Resumable(bookmark)
      /\ (writer = None => txn = EmptyTxn) /\ (\A q \in Poller : Polling(q))
  BY TypeStep DEF SentinelInv
\* The bookmark stays resumable in a step that does not write it.
<1>1. ASSUME bookmark' = bookmark, evidence \subseteq evidence', first <= first', next <= next'
      PROVE  Resumable(bookmark)'
  <2>1. PICK n \in Nat : n = bookmark
    BY <1>0 DEF TypeOK
  <2>2. Resumable(n)'
    BY <1>0, <1>1, <2>1, CoverageIsStable
  <2>3. QED
    BY <1>1, <2>1, <2>2 DEF Resumable, CoveredBelow
<1>2. CASE LogEvent \/ Overwrite
  <2>1. /\ first <= first' /\ next <= next' /\ first' <= next'
        /\ bookmark' = bookmark /\ evidence' = evidence
        /\ writer' = writer /\ txn' = txn /\ pc' = pc /\ case_id' = case_id
        /\ saved' = saved /\ lo' = lo /\ hi' = hi /\ status' = status
    BY <1>0, <1>2 DEF LogEvent, Overwrite, TypeOK, tables, memory
  <2>2. \A q \in Poller : Polling(q)'
    BY <1>0, <2>1, OthersKeepPolling
  <2>3. QED
    BY <1>0, <1>1, <2>1, <2>2 DEF SentinelInv
<1>3. ASSUME NEW p \in Poller, ReadBookmark(p) PROVE SentinelInv'
  <2>1. /\ pc' = [pc EXCEPT ![p] = "query"] /\ pc[p] = "idle"
        /\ saved' = [saved EXCEPT ![p] = bookmark]
        /\ first' = first /\ next' = next /\ bookmark' = bookmark /\ evidence' = evidence
        /\ writer' = writer /\ txn' = txn /\ lo' = lo /\ hi' = hi /\ status' = status
    BY <1>3 DEF ReadBookmark, Goto, channel, tables
  <2>2. PICK c \in Case : case_id' = [case_id EXCEPT ![p] = c]
    BY <1>3 DEF ReadBookmark
  <2>3. ASSUME NEW q \in Poller PROVE Polling(q)'
    <3>1. CASE q = p
      <4>1. saved'[p] = bookmark /\ pc'[p] = "query" /\ case_id'[p] \in Case
        BY <1>0, <2>1, <2>2 DEF TypeOK
      <4>2. Resumable(saved[p])'
        BY <1>0, <2>1, <4>1 DEF Resumable, CoveredBelow, Captured
      <4>3. QED
        BY <1>0, <2>1, <3>1, <4>1, <4>2 DEF Polling, HasBatch
    <3>2. CASE q # p
      BY <1>0, <2>1, <2>2, <3>2, OthersKeepPolling DEF TypeOK
    <3>3. QED
      BY <3>1, <3>2
  <2>4. QED
    BY <1>0, <1>1, <2>1, <2>3 DEF SentinelInv, TypeOK
<1>4. ASSUME NEW p \in Poller, QueryBatch(p) PROVE SentinelInv'
  <2>1. /\ pc' = [pc EXCEPT ![p] = "result"] /\ pc[p] = "query"
        /\ lo' = [lo EXCEPT ![p] = BatchLow(p)] /\ hi' = [hi EXCEPT ![p] = BatchHigh(p)]
        /\ BatchLow(p) <= BatchHigh(p)
        /\ first' = first /\ next' = next /\ bookmark' = bookmark /\ evidence' = evidence
        /\ writer' = writer /\ txn' = txn /\ case_id' = case_id /\ saved' = saved
    BY <1>4 DEF QueryBatch, Goto, channel, tables
  <2>2. PICK s \in {"ok", "failed"} : status' = [status EXCEPT ![p] = s]
    BY <1>4 DEF QueryBatch
  <2>3. ASSUME NEW q \in Poller PROVE Polling(q)'
    <3>1. CASE q = p
      <4>1. lo'[p] = BatchLow(p) /\ hi'[p] = BatchHigh(p) /\ pc'[p] = "result" /\ status'[p] = s
        BY <1>0, <2>1, <2>2 DEF TypeOK
      <4>2. Resumable(saved[p])'
        BY <1>0, <2>1 DEF Polling, Resumable, CoveredBelow, Captured
      <4>3. Batch(p)'
        BY <2>1, <4>1, QueryBatchCovered DEF Batch, CoveredBelow, Captured
      <4>4. QED
        BY <1>0, <2>1, <2>2, <3>1, <4>1, <4>2, <4>3 DEF Polling
    <3>2. CASE q # p
      BY <1>0, <2>1, <2>2, <3>2, OthersKeepPolling DEF TypeOK
    <3>3. QED
      BY <3>1, <3>2
  <2>4. QED
    BY <1>0, <1>1, <2>1, <2>3 DEF SentinelInv, TypeOK
<1>5. ASSUME NEW p \in Poller, QueryRefused(p) PROVE SentinelInv'
  <2>1. /\ pc' = [pc EXCEPT ![p] = "result"] /\ pc[p] = "query"
        /\ first' = first /\ next' = next /\ bookmark' = bookmark /\ evidence' = evidence
        /\ writer' = writer /\ txn' = txn /\ case_id' = case_id /\ saved' = saved
        /\ lo' = lo /\ hi' = hi
    BY <1>5 DEF QueryRefused, Goto, channel, tables
  <2>2. PICK s \in {"denied", "failed"} : status' = [status EXCEPT ![p] = s]
    BY <1>5 DEF QueryRefused
  <2>3. ASSUME NEW q \in Poller PROVE Polling(q)'
    <3>1. CASE q = p
      <4>1. pc'[p] = "result" /\ status'[p] = s
        BY <1>0, <2>1, <2>2 DEF TypeOK
      <4>2. Resumable(saved[p])'
        BY <1>0, <2>1 DEF Polling, Resumable, CoveredBelow, Captured
      <4>3. QED
        BY <1>0, <2>1, <2>2, <3>1, <4>1, <4>2 DEF Polling, HasBatch
    <3>2. CASE q # p
      BY <1>0, <2>1, <2>2, <3>2, OthersKeepPolling DEF TypeOK
    <3>3. QED
      BY <3>1, <3>2
  <2>4. QED
    BY <1>0, <1>1, <2>1, <2>3 DEF SentinelInv, TypeOK
\* The steps of the transaction before its COMMIT.
<1>6. ASSUME NEW p \in Poller, Begin(p) \/ InsertEvents(p) \/ AdvanceBookmark(p)
      PROVE  SentinelInv'
  <2>1. /\ first' = first /\ next' = next /\ bookmark' = bookmark /\ evidence' = evidence
        /\ case_id' = case_id /\ saved' = saved /\ lo' = lo /\ hi' = hi /\ status' = status
        /\ HasBatch(p) /\ writer' = p /\ (writer = None \/ writer = p)
    BY <1>0, <1>6 DEF Begin, InsertEvents, AdvanceBookmark, channel, tables, memory,
                      HasBatch, Polling
  <2>2. \/ /\ pc' = [pc EXCEPT ![p] = "insert"] /\ txn' = EmptyTxn
        \/ /\ pc' = [pc EXCEPT ![p] = "advance"]
           /\ txn'.rows = {case_id[p]} \X (lo[p]..hi[p])
        \/ /\ pc' = [pc EXCEPT ![p] = "commit"]
           /\ txn'.rows = {case_id[p]} \X (lo[p]..hi[p]) /\ txn'.position = hi[p]
    <3>1. CASE Begin(p)
      BY <1>0, <3>1 DEF Begin, Goto
    <3>2. CASE InsertEvents(p)
      BY <1>0, <3>2 DEF InsertEvents, Goto, Polling, TypeOK
    <3>3. CASE AdvanceBookmark(p)
      BY <1>0, <3>3 DEF AdvanceBookmark, Goto, Polling, TypeOK
    <3>4. QED
      BY <1>6, <3>1, <3>2, <3>3
  <2>3. ASSUME NEW q \in Poller PROVE Polling(q)'
    <3>1. CASE q = p
      <4>1. Batch(p)'
        BY <1>0, <2>1 DEF Polling, Batch, CoveredBelow, Captured
      <4>2. Resumable(saved[p])'
        BY <1>0, <2>1 DEF Polling, Resumable, CoveredBelow, Captured
      <4>3. case_id[p] \in Case
        BY <1>0, <2>1 DEF Polling, HasBatch
      <4>4. QED
        BY <1>0, <2>1, <2>2, <3>1, <4>1, <4>2, <4>3 DEF Polling, TypeOK
    <3>2. CASE q # p
      <4>1. writer # q
        BY <2>1, <3>2
      <4>2. pc'[q] = pc[q]
        BY <1>0, <2>2, <3>2 DEF TypeOK
      <4>3. QED
        BY <1>0, <2>1, <3>2, <4>1, <4>2, OthersKeepPolling DEF TypeOK
    <3>3. QED
      BY <3>1, <3>2
  <2>4. QED
    BY <1>0, <1>1, <2>1, <2>3 DEF SentinelInv, TypeOK
\* The steps that end a poll.
<1>7. ASSUME NEW p \in Poller,
             QueryEmpty(p) \/ PersistCoverage(p) \/ Commit(p) \/ Interrupt(p)
      PROVE  SentinelInv'
  <2>1. /\ Forget(p) /\ first' = first /\ next' = next /\ evidence \subseteq evidence'
        /\ (bookmark' = bookmark \/ Commit(p))
    BY <1>7 DEF QueryEmpty, PersistCoverage, Commit, Interrupt, channel, tables
  <2>2. /\ writer' # p /\ (writer' = None => txn' = EmptyTxn)
        /\ \A q \in Poller : q # p => (writer' = q <=> writer = q)
        /\ (writer # p => txn' = txn)
    <3>1. CASE QueryEmpty(p)
      BY <1>0, <3>1 DEF QueryEmpty, Polling
    <3>2. CASE PersistCoverage(p)
      BY <1>0, <3>2 DEF PersistCoverage, Polling
    <3>3. CASE Commit(p)
      BY <1>0, <3>3 DEF Commit, Polling
    <3>4. CASE Interrupt(p)
      BY <1>0, <3>4 DEF Interrupt, Polling
    <3>5. QED
      BY <1>7, <3>1, <3>2, <3>3, <3>4
  <2>3. ASSUME NEW q \in Poller PROVE Polling(q)'
    <3>1. CASE q = p
      BY <1>0, <2>1, <2>2, <3>1, IdleIsPolling DEF Forget, Goto, TypeOK
    <3>2. CASE q # p
      <4>1. /\ pc'[q] = pc[q] /\ case_id'[q] = case_id[q] /\ saved'[q] = saved[q]
            /\ lo'[q] = lo[q] /\ hi'[q] = hi[q] /\ status'[q] = status[q]
        BY <1>0, <2>1, <3>2 DEF Forget, Goto, TypeOK
      <4>2. (writer' = q <=> writer = q) /\ (writer = q => txn' = txn)
        BY <2>2, <3>2
      <4>3. first <= first' /\ next <= next'
        BY <1>0, <2>1 DEF TypeOK
      <4>4. QED
        BY <1>0, <2>1, <4>1, <4>2, <4>3, OthersKeepPolling
    <3>3. QED
      BY <3>1, <3>2
  <2>4. Resumable(bookmark)'
    BY <1>0, <1>1, <2>1, CommittedBatch DEF TypeOK
  <2>5. QED
    BY <1>0, <2>1, <2>2, <2>3, <2>4 DEF SentinelInv
<1>8. CASE UNCHANGED vars
  <2>1. /\ first' = first /\ next' = next /\ bookmark' = bookmark /\ evidence' = evidence
        /\ writer' = writer /\ txn' = txn /\ pc' = pc /\ case_id' = case_id
        /\ saved' = saved /\ lo' = lo /\ hi' = hi /\ status' = status
    BY <1>8 DEF vars, channel, tables, memory
  <2>2. \A q \in Poller : Polling(q)'
    BY <1>0, <2>1, OthersKeepPolling DEF TypeOK
  <2>3. QED
    BY <1>0, <1>1, <2>1, <2>2 DEF SentinelInv, TypeOK
<1>9. QED
  BY <1>2, <1>3, <1>4, <1>5, <1>6, <1>7, <1>8 DEF Next, Step

\* The invariant behind the theorems below.
LEMMA InvHolds == Spec => []SentinelInv
<1>1. Init => SentinelInv
  <2> SUFFICES ASSUME Init PROVE SentinelInv
    OBVIOUS
  <2> USE SentinelAssumption
  <2>1. TypeOK
    BY DEF Init, TypeOK, EmptyTxn
  <2>2. \A r \in Record : ~ (r < 0 + 1)
    BY DEF Record
  <2>3. Resumable(0)
    BY <2>2 DEF Resumable, CoveredBelow
  <2>4. QED
    BY <2>1, <2>3 DEF Init, SentinelInv, Polling, HasBatch
<1>2. QED
  BY <1>1, InvStep, PTL DEF Spec

\* Channel, tables, transaction and poller memory always have their types.
THEOREM TypeCorrect == Spec => []TypeOK
<1>1. SentinelInv => TypeOK
  BY DEF SentinelInv
<1>2. QED
  BY <1>1, InvHolds, PTL

\* However pollers interleave, die and fail, the bookmark never moves past a
\* record that was still there to read and is in nobody's evidence.
THEOREM NothingIsSkipped == Spec => []NothingSkipped
<1>1. SentinelInv => NothingSkipped
  BY SentinelAssumption DEF SentinelInv, TypeOK, Resumable, CoveredBelow, NothingSkipped, Record
<1>2. QED
  BY <1>1, InvHolds, PTL

\* The bookmark is always a record that exists and was captured.
THEOREM BookmarkIsACapturedRecord == Spec => []BookmarkIsCaptured
<1>1. SentinelInv => BookmarkIsCaptured
  BY DEF SentinelInv, Resumable, BookmarkIsCaptured
<1>2. QED
  BY <1>1, InvHolds, PTL

\* A poll that nothing raced brings the bookmark forward.
THEOREM BookmarkAdvances == Spec => BookmarkMovesOn
<1>1. SentinelInv /\ [Next]_vars =>
        [\A p \in Poller : Commit(p) /\ saved[p] = bookmark => bookmark' > bookmark]_vars
  <2> SUFFICES ASSUME SentinelInv, NEW p \in Poller, Commit(p), saved[p] = bookmark
               PROVE  bookmark' > bookmark
    OBVIOUS
  <2>1. Batch(p) /\ txn.position = hi[p]
    BY DEF SentinelInv, Polling, HasBatch, Commit
  <2>2. bookmark' = hi[p]
    BY <2>1 DEF Commit
  <2>3. QED
    BY <2>1, <2>2, SentinelAssumption DEF Batch, Record, SentinelInv, TypeOK
<1>2. QED
  BY <1>1, InvHolds, PTL DEF Spec, BookmarkMovesOn

=============================================================================
