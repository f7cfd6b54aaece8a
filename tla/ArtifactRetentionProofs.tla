----------------------- MODULE ArtifactRetentionProofs -----------------------
(***************************************************************************)
(* What holds of ArtifactRetention for every set of processes, contents    *)
(* and cases and every batch size; and what holds as long as no prune runs *)
(* at the same time as another call.                                       *)
(***************************************************************************)
EXTENDS ArtifactRetention, TLAPS

-----------------------------------------------------------------------------
(***************************************************************************)
(* Any number of processes.                                                *)
(***************************************************************************)

\* What the place of a process says of its memory and its file.
Control(p) ==
  /\ pc[p] \in Putting => digest[p] \in Digest /\ case_id[p] \in Case
  /\ pc[p] \in {"unlink", "remove"} => digest[p] \in Digest
  /\ pc[p] = "remove" => removed[p] < Batch
  /\ pc[p] = "replace" => temporary[p] = "complete"

SharedInv ==
  /\ TypeOK
  /\ \A p \in Proc : Control(p)
  /\ NoTornObject

LEMMA ForgetStep ==
  ASSUME TypeOK, NEW p \in Proc, Forget(p)
  PROVE  /\ pc' \in [Proc -> Location]
         /\ digest' \in [Proc -> Digest \cup {None}]
         /\ case_id' \in [Proc -> Case \cup {None}]
         /\ victims' \in [Proc -> SUBSET Digest]
         /\ scanned' \in [Proc -> SUBSET Digest]
         /\ removed' \in [Proc -> 0..Batch]
         /\ pc'[p] = "idle"
         /\ \A q \in Proc \ {p} : /\ pc'[q] = pc[q]
                                  /\ digest'[q] = digest[q]
                                  /\ case_id'[q] = case_id[q]
                                  /\ removed'[q] = removed[q]
BY RetentionAssumption DEF TypeOK, Forget, Goto, Location

LEMMA SharedStep == SharedInv /\ [Next]_vars => SharedInv'
<1> SUFFICES ASSUME SharedInv, [Next]_vars
             PROVE  SharedInv'
  OBVIOUS
<1> USE RetentionAssumption
<1>1. ASSUME NEW p \in Proc, StartPut(p) PROVE SharedInv'
  BY <1>1 DEF SharedInv, TypeOK, Control, NoTornObject, StartPut, Goto, database, files,
     Location, Putting, Pruning, Content, Present
<1>2. ASSUME NEW p \in Proc, CreateTemporary(p) PROVE SharedInv'
  BY <1>2 DEF SharedInv, TypeOK, Control, NoTornObject, CreateTemporary, Goto, database, memory,
     Location, Putting, Pruning, Content
<1>3. ASSUME NEW p \in Proc, WriteTemporary(p) PROVE SharedInv'
  BY <1>3 DEF SharedInv, TypeOK, Control, NoTornObject, WriteTemporary, Goto, database, memory,
     Location, Putting, Pruning, Content
<1>4. ASSUME NEW p \in Proc, Replace(p) PROVE SharedInv'
  BY <1>4 DEF SharedInv, TypeOK, Control, NoTornObject, Replace, Goto, database, memory,
     Location, Putting, Pruning, Content
<1>5. ASSUME NEW p \in Proc, Link(p) PROVE SharedInv'
  <2>1. digest[p] \in Digest /\ case_id[p] \in Case
    BY <1>5 DEF SharedInv, Control, Link, Putting
  <2>2. QED
    BY <1>5, <2>1, ForgetStep DEF SharedInv, TypeOK, Control, NoTornObject, Link, files, Putting
<1>6. ASSUME NEW p \in Proc, StartPrune(p) PROVE SharedInv'
  BY <1>6 DEF SharedInv, TypeOK, Control, NoTornObject, StartPrune, Goto, database, files,
     Location, Putting, Pruning, Content
<1>7. ASSUME NEW p \in Proc, DeleteRow(p) PROVE SharedInv'
  BY <1>7 DEF SharedInv, TypeOK, Control, NoTornObject, DeleteRow, Goto, files,
     Location, Putting, Pruning, Content
<1>8. ASSUME NEW p \in Proc, UnlinkObject(p) PROVE SharedInv'
  BY <1>8 DEF SharedInv, TypeOK, Control, NoTornObject, UnlinkObject, Goto, database,
     Location, Putting, Pruning, Content
<1>9. ASSUME NEW p \in Proc, StartScan(p) PROVE SharedInv'
  BY <1>9 DEF SharedInv, TypeOK, Control, NoTornObject, StartScan, Goto, database, files, memory,
     Location, Putting, Pruning, Content
<1>10. ASSUME NEW p \in Proc, ScanFile(p) PROVE SharedInv'
  BY <1>10 DEF SharedInv, TypeOK, Control, NoTornObject, ScanFile, Goto, database, files,
     Location, Putting, Pruning, Content, Present
<1>11. ASSUME NEW p \in Proc, RemoveOrphan(p) PROVE SharedInv'
  BY <1>11 DEF SharedInv, TypeOK, Control, NoTornObject, RemoveOrphan, Goto, database,
     Location, Putting, Pruning, Content, Present
<1>12. ASSUME NEW p \in Proc, EndScan(p) PROVE SharedInv'
  BY <1>12, ForgetStep DEF SharedInv, TypeOK, Control, NoTornObject, EndScan, database, files,
     Putting
<1>13. ASSUME NEW p \in Proc, Interrupt(p) PROVE SharedInv'
  BY <1>13, ForgetStep DEF SharedInv, TypeOK, Control, NoTornObject, Interrupt, database, Putting,
     Content
<1>14. ASSUME NEW c \in Case, DeleteCase(c) PROVE SharedInv'
  BY <1>14 DEF SharedInv, TypeOK, Control, NoTornObject, DeleteCase, files, memory
<1>15. CASE UNCHANGED vars
  BY <1>15 DEF SharedInv, TypeOK, Control, NoTornObject, vars, database, files, memory
<1>16. QED
  BY <1>1, <1>2, <1>3, <1>4, <1>5, <1>6, <1>7, <1>8, <1>9, <1>10, <1>11, <1>12, <1>13, <1>14,
     <1>15 DEF Next, Put, Prune

LEMMA SharedHolds == Spec => []SharedInv
<1>1. Init => SharedInv
  <2> SUFFICES ASSUME Init
               PROVE  SharedInv
    OBVIOUS
  <2>1. removed \in [Proc -> 0..Batch]
    BY RetentionAssumption DEF Init
  <2>2. TypeOK
    BY <2>1 DEF Init, TypeOK, Location, Content
  <2>3. NoTornObject /\ \A p \in Proc : Control(p)
    BY DEF Init, Control, NoTornObject, Putting
  <2>4. QED
    BY <2>2, <2>3 DEF SharedInv
<1>2. QED
  BY <1>1, SharedStep, PTL DEF Spec

\* Every reachable state is well typed; in particular a scan never deletes
\* more than Batch files (retention.py:98-113).
THEOREM TypeCorrect == Spec => []TypeOK
<1>1. SharedInv => TypeOK
  BY DEF SharedInv
<1>2. QED
  BY <1>1, SharedHolds, PTL

\* No process ever leaves a torn object (artifact_store.py:165-182).
THEOREM ObjectsAreWhole == Spec => []NoTornObject
<1>1. SharedInv => NoTornObject
  BY DEF SharedInv
<1>2. QED
  BY <1>1, SharedHolds, PTL

\* A link goes with its case and not otherwise (sqlite_store.py:692-705).
THEOREM AuthorityIsKept == Spec => AuthorityKept
<1> DEFINE Kept == \A l \in links : l \notin links' => l[2] \notin cases'
<1>1. [Next]_vars => [Kept]_vars
  <2> SUFFICES ASSUME [Next]_vars
               PROVE  Kept
    OBVIOUS
  <2>1. ASSUME NEW c \in Case, DeleteCase(c) PROVE Kept
    BY <2>1 DEF DeleteCase
  <2>2. ASSUME NEW p \in Proc, Put(p) \/ Prune(p) \/ Interrupt(p) PROVE links \subseteq links'
    BY <2>2 DEF Put, Prune, Interrupt, StartPut, CreateTemporary, WriteTemporary, Replace,
       Link, StartPrune, DeleteRow, UnlinkObject, StartScan, ScanFile, RemoveOrphan, EndScan,
       database
  <2>3. CASE UNCHANGED vars
    BY <2>3 DEF vars, database
  <2>4. QED
    BY <2>1, <2>2, <2>3 DEF Next
<1>2. QED
  BY <1>1, PTL DEF Spec, AuthorityKept

-----------------------------------------------------------------------------
(***************************************************************************)
(* As long as no prune has run at the same time as another call.           *)
(***************************************************************************)

\* A prune runs by itself, and the row of an object outlives none of the
\* object's steps: it comes after the object and goes before it.
Apart ==
  /\ \A p, q \in Proc : p # q /\ pc[p] \in Pruning => pc[q] = "idle"
  /\ \A l \in links : l[1] \in rows
  /\ \A d \in rows : objects[d] = "complete"
  /\ \A p \in Proc :
       /\ pc[p] = "link" => objects[digest[p]] = "complete"
       /\ pc[p] \in {"unlink", "remove"} => digest[p] \notin rows
       /\ pc[p] = "scan" => scanned[p] \cap Present \subseteq rows
       /\ pc[p] = "remove" => scanned[p] \cap Present \subseteq rows \cup {digest[p]}
       /\ pc[p] \notin {"scan", "remove"} => scanned[p] = {}

ApartInv == ~ mixed => Apart

LEMMA ApartStep == SharedInv /\ ApartInv /\ [Next]_vars => ApartInv'
<1> SUFFICES ASSUME SharedInv, ApartInv, [Next]_vars, ~ mixed'
             PROVE  Apart'
  BY DEF ApartInv
<1> USE RetentionAssumption
<1>0. TypeOK /\ NoTornObject /\ \A p \in Proc : Control(p)
  BY DEF SharedInv
<1>20. Apart
  <2>1. ~ mixed
    BY <1>0 DEF TypeOK, Next, Put, Prune, vars, StartPut, CreateTemporary, WriteTemporary,
       Replace, Link, StartPrune, DeleteRow, UnlinkObject, StartScan, ScanFile, RemoveOrphan,
       EndScan, Interrupt, DeleteCase
  <2>2. QED
    BY <2>1 DEF ApartInv
<1>1. ASSUME NEW p \in Proc, StartPut(p) PROVE Apart'
  <2>1. PICK d \in Digest : digest' = [digest EXCEPT ![p] = d]
                           /\ Goto(p, IF d \in Present THEN "link" ELSE "create")
    BY <1>1 DEF StartPut
  <2>2. /\ pc' = [pc EXCEPT ![p] = pc'[p]]
        /\ pc'[p] = "link" => objects[d] = "complete"
        /\ pc'[p] \in {"link", "create"}
    BY <1>0, <2>1 DEF TypeOK, Goto, Present, NoTornObject, Content
  <2>3. UNCHANGED <<cases, rows, links, objects, scanned, Present>> /\ pc[p] = "idle"
    BY <1>1 DEF StartPut, database, files, Present
  <2>4. \A q \in Proc \ {p} : pc[q] \notin Pruning
    BY <1>1 DEF StartPut
  <2>5. ASSUME NEW q \in Proc, NEW r \in Proc, q # r, pc'[q] \in Pruning PROVE pc'[r] = "idle"
    BY <1>0, <2>2, <2>4, <2>5 DEF TypeOK, Pruning
  <2>6. QED
    BY <1>0, <1>20, <2>1, <2>2, <2>3, <2>5 DEF Apart, TypeOK
<1>2. ASSUME NEW p \in Proc, CreateTemporary(p) PROVE Apart'
  BY <1>0, <1>20, <1>2 DEF Apart, TypeOK, CreateTemporary, Goto, database, memory, Present, Pruning
<1>3. ASSUME NEW p \in Proc, WriteTemporary(p) PROVE Apart'
  BY <1>0, <1>20, <1>3 DEF Apart, TypeOK, WriteTemporary, Goto, database, memory, Present, Pruning
<1>4. ASSUME NEW p \in Proc, Replace(p) PROVE Apart'
  BY <1>0, <1>20, <1>4 DEF Apart, TypeOK, Control, Replace, Goto, database, memory, Present,
     Putting, Pruning
<1>5. ASSUME NEW p \in Proc, Link(p) PROVE Apart'
  BY <1>0, <1>20, <1>5 DEF Apart, TypeOK, Control, Link, Forget, Goto, files, Present, Putting,
     Pruning
<1>6. ASSUME NEW p \in Proc, StartPrune(p) PROVE Apart'
  <2>1. \A q \in Proc \ {p} : pc[q] = "idle"
    BY <1>6 DEF StartPrune
  <2>2. /\ UNCHANGED <<rows, links, objects, digest, scanned, Present>>
        /\ pc[p] = "idle"
        /\ pc' = [pc EXCEPT ![p] = "rows"]
    BY <1>6 DEF StartPrune, Goto, database, files, Present
  <2>3. QED
    BY <1>0, <1>20, <2>1, <2>2 DEF Apart, TypeOK, Pruning
<1>7. ASSUME NEW p \in Proc, DeleteRow(p) PROVE Apart'
  <2>1. PICK d \in victims[p] :
          IF d \in rows /\ ~ Linked(d)
          THEN rows' = rows \ {d} /\ digest' = [digest EXCEPT ![p] = d] /\ Goto(p, "unlink")
          ELSE UNCHANGED <<rows, digest, pc>>
    BY <1>7 DEF DeleteRow
  <2>2. UNCHANGED <<links, objects, scanned, Present>> /\ pc[p] = "rows"
    BY <1>7 DEF DeleteRow, files, Present
  <2>3. \A q \in Proc \ {p} : pc[q] = "idle"
    BY <1>20, <2>2 DEF Apart, Pruning
  <2>4. CASE UNCHANGED <<rows, digest, pc>>
    BY <1>20, <2>2, <2>4 DEF Apart
  <2>5. CASE d \in rows /\ ~ Linked(d)
    <3>1. rows' = rows \ {d} /\ digest' = [digest EXCEPT ![p] = d] /\ pc' = [pc EXCEPT ![p] = "unlink"]
      BY <2>1, <2>5 DEF Goto
    <3>2. \A l \in links : l[1] # d
      BY <1>0, <2>5 DEF Linked, TypeOK
    <3>3. QED
      BY <1>0, <1>20, <2>2, <2>3, <3>1, <3>2 DEF Apart, TypeOK
  <2>6. QED
    BY <2>1, <2>4, <2>5
<1>8. ASSUME NEW p \in Proc, UnlinkObject(p) PROVE Apart'
  BY <1>0, <1>20, <1>8 DEF Apart, TypeOK, Control, UnlinkObject, Goto, database, Present, Pruning
<1>9. ASSUME NEW p \in Proc, StartScan(p) PROVE Apart'
  BY <1>0, <1>20, <1>9 DEF Apart, TypeOK, StartScan, Goto, database, files, memory, Present,
     Pruning
<1>10. ASSUME NEW p \in Proc, ScanFile(p) PROVE Apart'
  BY <1>0, <1>20, <1>10 DEF Apart, TypeOK, ScanFile, Goto, database, files, Present, Pruning
<1>11. ASSUME NEW p \in Proc, RemoveOrphan(p) PROVE Apart'
  BY <1>0, <1>20, <1>11 DEF Apart, TypeOK, Control, RemoveOrphan, Goto, database, Present, Pruning
<1>12. ASSUME NEW p \in Proc, EndScan(p) PROVE Apart'
  BY <1>0, <1>20, <1>12 DEF Apart, TypeOK, EndScan, Forget, Goto, database, files, Present, Pruning
<1>13. ASSUME NEW p \in Proc, Interrupt(p) PROVE Apart'
  BY <1>0, <1>20, <1>13 DEF Apart, TypeOK, Interrupt, Forget, Goto, database, Present, Pruning
<1>14. ASSUME NEW c \in Case, DeleteCase(c) PROVE Apart'
  BY <1>0, <1>20, <1>14 DEF Apart, DeleteCase, files, memory, Present
<1>15. CASE UNCHANGED vars
  BY <1>20, <1>15 DEF Apart, vars, database, files, memory, Present
<1>16. QED
  BY <1>1, <1>2, <1>3, <1>4, <1>5, <1>6, <1>7, <1>8, <1>9, <1>10, <1>11, <1>12, <1>13, <1>14,
     <1>15 DEF Next, Put, Prune

LEMMA ApartHolds == Spec => []ApartInv
<1>1. Init => ApartInv
  BY RetentionAssumption DEF Init, ApartInv, Apart, Present, Pruning
<1>2. QED
  BY <1>1, ApartStep, SharedHolds, PTL DEF Spec

\* As long as no prune ran into another call, failures and deaths at any point
\* included, a case never refers to an artifact without its object
\* (artifact_store.py:83-95, retention.py:65-113).
THEOREM LinkedArtifactsHaveObjects == Spec => []LinkedHasObjectUnlessMixed
<1>1. ApartInv => LinkedHasObjectUnlessMixed
  BY DEF ApartInv, Apart, LinkedHasObjectUnlessMixed, LinkedHasObject, Linked
<1>2. QED
  BY <1>1, ApartHolds, PTL

\* Under the same condition a prune that ran to its end below its limit
\* leaves no object without a row (retention.py:93-114).
THEOREM PruneIsComplete == Spec => PruneReconciles
<1>1. SharedInv /\ ApartInv =>
        \A p \in Proc : EndScan(p) /\ ~ mixed /\ removed[p] < Batch => Present \subseteq rows
  BY RetentionAssumption DEF ApartInv, Apart, EndScan, SharedInv, TypeOK
<1>2. QED
  BY <1>1, ApartHolds, SharedHolds, PTL DEF PruneReconciles

=============================================================================
