-------------------------- MODULE ArtifactRetention --------------------------
(***************************************************************************)
(* ArtifactStore.put and the artifact half of RetentionManager.prune over  *)
(* one database and one directory tree.  put writes a content-addressed    *)
(* object by way of a temporary file and then links its row to a case;     *)
(* prune deletes rows no case refers to, then their objects, and then      *)
(* scans the tree for objects without a row.  The database and the file    *)
(* system share no transaction: every query, commit and file operation is  *)
(* a step of its own, and a process may fail or die between any two.       *)
(*                                                                         *)
(* A digest stands for its content.  Which rows are old enough or take too *)
(* much room is a choice: the clock and the sizes are left out.            *)
(***************************************************************************)
EXTENDS Naturals, FiniteSets

CONSTANTS
  Proc,     \* processes that store artifacts or prune, one call at a time
  Digest,   \* contents that may be stored
  Case,     \* cases that exist at first
  Batch,    \* RetentionPolicy.batch_size
  None

ASSUME RetentionAssumption ==
  /\ Batch \in Nat \ {0}
  /\ None \notin Digest \cup Case

VARIABLES
  \* the database
  cases,      \* table cases
  rows,       \* table artifacts
  links,      \* table artifact_cases
  \* the artifact root
  objects,    \* what lies at each digest's path under objects/
  temporary,  \* the file of each process's call under temporary/
  \* each process's memory
  pc,
  digest,     \* the content being stored, unlinked or removed
  case_id,    \* the case it is stored for
  victims,    \* prune: unreferenced rows it has yet to look at
  scanned,    \* prune: files the scan has visited
  removed,    \* prune: files the scan has deleted
  \* history, read by properties only
  mixed       \* a prune has run at the same time as another call

database == <<cases, rows, links>>
files == <<objects, temporary>>
memory == <<digest, case_id, victims, scanned, removed>>
vars == <<database, files, pc, memory, mixed>>

Content == {"absent", "partial", "complete"}

\* put: about to create the temporary file, writing it, about to move it,
\* about to link the row.  prune: in the loop over unreferenced rows, about
\* to unlink the object of a deleted row, in the scan, about to delete an
\* object found without a row.
Putting == {"create", "write", "replace", "link"}
Pruning == {"rows", "unlink", "scan", "remove"}
Location == {"idle"} \cup Putting \cup Pruning

Present == {d \in Digest : objects[d] # "absent"}
Linked(d) == \E c \in Case : <<d, c>> \in links

TypeOK ==
  /\ cases \subseteq Case
  /\ rows \subseteq Digest
  /\ links \subseteq Digest \X Case
  /\ objects \in [Digest -> Content]
  /\ temporary \in [Proc -> Content]
  /\ pc \in [Proc -> Location]
  /\ digest \in [Proc -> Digest \cup {None}]
  /\ case_id \in [Proc -> Case \cup {None}]
  /\ victims \in [Proc -> SUBSET Digest]
  /\ scanned \in [Proc -> SUBSET Digest]
  /\ removed \in [Proc -> 0..Batch]
  /\ mixed \in BOOLEAN

Init ==
  /\ cases = Case
  /\ rows = {}
  /\ links = {}
  /\ objects = [d \in Digest |-> "absent"]
  /\ temporary = [p \in Proc |-> "absent"]
  /\ pc = [p \in Proc |-> "idle"]
  /\ digest = [p \in Proc |-> None]
  /\ case_id = [p \in Proc |-> None]
  /\ victims = [p \in Proc |-> {}]
  /\ scanned = [p \in Proc |-> {}]
  /\ removed = [p \in Proc |-> 0]
  /\ mixed = FALSE

Goto(p, l) == pc' = [pc EXCEPT ![p] = l]

\* The call of p is over and its locals are gone.
Forget(p) ==
  /\ Goto(p, "idle")
  /\ digest' = [digest EXCEPT ![p] = None]
  /\ case_id' = [case_id EXCEPT ![p] = None]
  /\ victims' = [victims EXCEPT ![p] = {}]
  /\ scanned' = [scanned EXCEPT ![p] = {}]
  /\ removed' = [removed EXCEPT ![p] = 0]

-----------------------------------------------------------------------------
\* put, up to the question whether the object exists already.
StartPut(p) ==
  /\ pc[p] = "idle"
  /\ \E d \in Digest, c \in Case :
       /\ digest' = [digest EXCEPT ![p] = d]
       /\ case_id' = [case_id EXCEPT ![p] = c]
       /\ Goto(p, IF d \in Present THEN "link" ELSE "create")
  /\ mixed' = (mixed \/ \E q \in Proc \ {p} : pc[q] \in Pruning)
  /\ UNCHANGED <<database, files, victims, scanned, removed>>

CreateTemporary(p) ==
  /\ pc[p] = "create"
  /\ temporary' = [temporary EXCEPT ![p] = "partial"]
  /\ Goto(p, "write")
  /\ UNCHANGED <<database, objects, memory, mixed>>

WriteTemporary(p) ==
  /\ pc[p] = "write"
  /\ temporary' = [temporary EXCEPT ![p] = "complete"]
  /\ Goto(p, "replace")
  /\ UNCHANGED <<database, objects, memory, mixed>>

\* os.replace moves the temporary file over whatever is there.
Replace(p) ==
  /\ pc[p] = "replace"
  /\ objects' = [objects EXCEPT ![digest[p]] = temporary[p]]
  /\ temporary' = [temporary EXCEPT ![p] = "absent"]
  /\ Goto(p, "link")
  /\ UNCHANGED <<database, memory, mixed>>

\* One transaction inserts what is missing of the row and its link; the
\* foreign key wants the case to exist.
Link(p) ==
  /\ pc[p] = "link"
  /\ case_id[p] \in cases
  /\ rows' = rows \cup {digest[p]}
  /\ links' = links \cup {<<digest[p], case_id[p]>>}
  /\ Forget(p)
  /\ UNCHANGED <<cases, files, mixed>>

-----------------------------------------------------------------------------
\* prune reads at most Batch unreferenced rows, the oldest first.  Those it
\* will pass over, being neither expired nor too much, are left out.
StartPrune(p) ==
  /\ pc[p] = "idle"
  /\ \E s \in SUBSET {d \in rows : ~ Linked(d)} :
       /\ Cardinality(s) <= Batch
       /\ victims' = [victims EXCEPT ![p] = s]
  /\ Goto(p, "rows")
  /\ mixed' = (mixed \/ \E q \in Proc \ {p} : pc[q] # "idle")
  /\ UNCHANGED <<database, files, digest, case_id, scanned, removed>>

\* Mutant: the row goes because it was unreferenced when it was listed, and
\* the links it has got since go with it (ON DELETE CASCADE).
DeleteRowUnchecked(p) ==
  /\ pc[p] = "rows"
  /\ \E d \in victims[p] :
       /\ victims' = [victims EXCEPT ![p] = @ \ {d}]
       /\ rows' = rows \ {d}
       /\ links' = {l \in links : l[1] # d}
       /\ digest' = [digest EXCEPT ![p] = d]
       /\ Goto(p, "unlink")
  /\ UNCHANGED <<cases, files, case_id, scanned, removed, mixed>>

\* DELETE ... WHERE NOT EXISTS a link: the row is asked about again.
DeleteRow(p) ==
  /\ pc[p] = "rows"
  /\ \E d \in victims[p] :
       /\ victims' = [victims EXCEPT ![p] = @ \ {d}]
       /\ IF d \in rows /\ ~ Linked(d)
          THEN /\ rows' = rows \ {d}
               /\ digest' = [digest EXCEPT ![p] = d]
               /\ Goto(p, "unlink")
          ELSE UNCHANGED <<rows, digest, pc>>
  /\ UNCHANGED <<cases, links, files, case_id, scanned, removed, mixed>>

UnlinkObject(p) ==
  /\ pc[p] = "unlink"
  /\ objects' = [objects EXCEPT ![digest[p]] = "absent"]
  /\ digest' = [digest EXCEPT ![p] = None]
  /\ Goto(p, "rows")
  /\ UNCHANGED <<database, temporary, case_id, victims, scanned, removed, mixed>>

StartScan(p) ==
  /\ pc[p] = "rows"
  /\ victims[p] = {}
  /\ Goto(p, "scan")
  /\ UNCHANGED <<database, files, memory, mixed>>

\* Mutant: the row is looked up under the wrong key and never found.
ScanFileNeverFound(p) ==
  /\ pc[p] = "scan"
  /\ removed[p] < Batch
  /\ \E d \in Present \ scanned[p] :
       /\ scanned' = [scanned EXCEPT ![p] = @ \cup {d}]
       /\ digest' = [digest EXCEPT ![p] = d]
       /\ Goto(p, "remove")
  /\ UNCHANGED <<database, files, case_id, victims, removed, mixed>>

\* The scan visits the next file and asks the database about it.
ScanFile(p) ==
  /\ pc[p] = "scan"
  /\ removed[p] < Batch
  /\ \E d \in Present \ scanned[p] :
       /\ scanned' = [scanned EXCEPT ![p] = @ \cup {d}]
       /\ IF d \in rows
          THEN UNCHANGED <<digest, pc>>
          ELSE /\ digest' = [digest EXCEPT ![p] = d]
               /\ Goto(p, "remove")
  /\ UNCHANGED <<database, files, case_id, victims, removed, mixed>>

RemoveOrphan(p) ==
  /\ pc[p] = "remove"
  /\ digest[p] \in Present
  /\ objects' = [objects EXCEPT ![digest[p]] = "absent"]
  /\ digest' = [digest EXCEPT ![p] = None]
  /\ removed' = [removed EXCEPT ![p] = @ + 1]
  /\ Goto(p, "scan")
  /\ UNCHANGED <<database, temporary, case_id, victims, scanned, mixed>>

\* Mutant: "break" at the first file that is to be kept.
EndScanAtKept(p) ==
  /\ pc[p] = "scan"
  /\ \/ Present \subseteq scanned[p]
     \/ removed[p] = Batch
     \/ scanned[p] \cap rows # {}
  /\ Forget(p)
  /\ UNCHANGED <<database, files, mixed>>

EndScan(p) ==
  /\ pc[p] = "scan"
  /\ Present \subseteq scanned[p] \/ removed[p] = Batch
  /\ Forget(p)
  /\ UNCHANGED <<database, files, mixed>>

-----------------------------------------------------------------------------
\* A database or file operation raises (lock held too long, case gone, disk
\* full, file in use or gone) or the process dies: the call is over.  Its
\* temporary file, which nobody else knows, is unlinked by "finally" or, after
\* a death, left where no later call looks.
Interrupt(p) ==
  /\ pc[p] # "idle"
  /\ temporary' = [temporary EXCEPT ![p] = "absent"]
  /\ Forget(p)
  /\ UNCHANGED <<database, objects, mixed>>

\* A case is deleted from the database, as the tests do it: no command does.
\* The schema cascades to its links.
DeleteCase(c) ==
  /\ c \in cases
  /\ cases' = cases \ {c}
  /\ links' = {l \in links : l[2] # c}
  /\ UNCHANGED <<rows, files, pc, memory, mixed>>

Put(p) ==
  \/ StartPut(p) \/ CreateTemporary(p) \/ WriteTemporary(p) \/ Replace(p) \/ Link(p)

Prune(p) ==
  \/ StartPrune(p) \/ DeleteRow(p) \/ UnlinkObject(p)
  \/ StartScan(p) \/ ScanFile(p) \/ RemoveOrphan(p) \/ EndScan(p)

Next ==
  \/ \E p \in Proc : Put(p) \/ Prune(p) \/ Interrupt(p)
  \/ \E c \in Case : DeleteCase(c)

Spec == Init /\ [][Next]_vars

-----------------------------------------------------------------------------
(***************************************************************************)
(* Properties                                                              *)
(***************************************************************************)

\* "Delete only raw or unreferenced data" (retention.py:35): every artifact a
\* case refers to has its whole object on disk.
LinkedHasObject == \A d \in Digest : Linked(d) => objects[d] = "complete"

\* It is so as long as no prune has run at the same time as another call,
\* whatever fails or dies at any point, and however many processes store
\* (artifact_store.py:83-95, retention.py:65-113).
LinkedHasObjectUnlessMixed == ~ mixed => LinkedHasObject

\* An object is whole or absent, never torn, whoever dies while writing it:
\* the next put of the content does not write it again
\* (artifact_store.py:165-182).
NoTornObject == \A d \in Digest : objects[d] # "partial"

\* A case only loses its authority over an artifact by being deleted itself,
\* although prune decides on rows it listed earlier (sqlite_store.py:692-705).
AuthorityKept ==
  [][\A l \in links : l \notin links' => l[2] \notin cases']_vars

\* A prune that ran to its end, and that no other call ran into, leaves no
\* object without a row, whatever earlier calls were cut short: it is what
\* recovers from a crash between a row and its file (retention.py:93-114).
PruneReconciles ==
  [][\A p \in Proc : EndScan(p) /\ ~ mixed /\ removed[p] < Batch => Present \subseteq rows]_vars

=============================================================================
