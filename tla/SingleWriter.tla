---------------------------- MODULE SingleWriter ----------------------------
(***************************************************************************)
(* storage/writer.py: threads hand operations to one writer thread through *)
(* an unbounded FIFO queue and wait for the future of each; close() marks  *)
(* the writer closed, queues a sentinel and joins the thread.              *)
(*                                                                         *)
(* execute() and close() take no lock: the look at _closed and what        *)
(* follows it are separate steps.  What an operation does to the database, *)
(* and whether it returns or raises, makes no difference here: either      *)
(* completes its future.                                                   *)
(***************************************************************************)
EXTENDS Naturals, Sequences

CONSTANTS
  Caller,     \* threads that share the writer
  MaxCalls,   \* bound on the calls of execute() each of them makes
  Stop,       \* the sentinel (None in the code)
  None        \* no request

Request == [caller : Caller, call : 1..MaxCalls]

ASSUME SingleWriterAssumption ==
  /\ MaxCalls \in Nat
  /\ Stop \notin Request \cup {None}
  /\ None \notin Request

VARIABLES
  queue,      \* _requests
  closed,     \* _closed
  thread,     \* where the writer thread is
  current,    \* the request it executes
  answered,   \* the requests whose future is done
  pc,         \* where each caller is in execute() or close()
  calls,      \* how many calls of execute() it has made
  \* history, read by properties only
  arrived,    \* everything ever put into the queue
  executed    \* the operations carried out

history == <<arrived, executed>>
vars == <<queue, closed, thread, current, answered, pc, calls, history>>

\* A caller is outside, past the look at _closed in execute(), waiting for
\* its future, past the look at _closed in close(), about to queue the
\* sentinel, or joining the thread.
Location == {"idle", "put", "result", "close", "sentinel", "join"}

\* The thread opens the store, takes from the queue, executes, has ended, or
\* has failed to open the store, so that the constructor raised.
ThreadLocation == {"opening", "taking", "busy", "ended", "failed"}

TypeOK ==
  /\ queue \in Seq(Request \cup {Stop})
  /\ closed \in BOOLEAN
  /\ thread \in ThreadLocation
  /\ current \in Request \cup {None}
  /\ answered \subseteq Request
  /\ pc \in [Caller -> Location]
  /\ calls \in [Caller -> 0..MaxCalls]
  /\ arrived \in Seq(Request \cup {Stop})
  /\ executed \in Seq(Request)

Init ==
  /\ queue = <<>>
  /\ closed = FALSE
  /\ thread = "opening"
  /\ current = None
  /\ answered = {}
  /\ pc = [c \in Caller |-> "idle"]
  /\ calls = [c \in Caller |-> 0]
  /\ arrived = <<>>
  /\ executed = <<>>

Goto(c, l) == pc' = [pc EXCEPT ![c] = l]

\* The request of a caller's latest call.
RequestOf(c) == [caller |-> c, call |-> calls[c]]

QueuePut(item) ==
  /\ queue' = Append(queue, item)
  /\ arrived' = Append(arrived, item)

-----------------------------------------------------------------------------
\* The constructor waits for one of these two; with the second nobody gets
\* a writer to call.
StoreOpens ==
  /\ thread = "opening"
  /\ thread' = "taking"
  /\ UNCHANGED <<queue, closed, current, answered, pc, calls, history>>

StoreFails ==
  /\ thread = "opening"
  /\ thread' = "failed"
  /\ UNCHANGED <<queue, closed, current, answered, pc, calls, history>>

Constructed == thread \in {"taking", "busy", "ended"}

-----------------------------------------------------------------------------
\* execute() on a writer that is closed raises at once and changes nothing.
StartCall(c) ==
  /\ Constructed
  /\ pc[c] = "idle"
  /\ ~ closed
  /\ calls[c] < MaxCalls
  /\ calls' = [calls EXCEPT ![c] = @ + 1]
  /\ Goto(c, "put")
  /\ UNCHANGED <<queue, closed, thread, current, answered, history>>

PutRequest(c) ==
  /\ pc[c] = "put"
  /\ QueuePut(RequestOf(c))
  /\ Goto(c, "result")
  /\ UNCHANGED <<closed, thread, current, answered, calls, executed>>

GetResult(c) ==
  /\ pc[c] = "result"
  /\ RequestOf(c) \in answered
  /\ Goto(c, "idle")
  /\ UNCHANGED <<queue, closed, thread, current, answered, calls, history>>

\* close() on a writer that is closed returns at once.
StartClose(c) ==
  /\ Constructed
  /\ pc[c] = "idle"
  /\ ~ closed
  /\ Goto(c, "close")
  /\ UNCHANGED <<queue, closed, thread, current, answered, calls, history>>

MarkClosed(c) ==
  /\ pc[c] = "close"
  /\ closed' = TRUE
  /\ Goto(c, "sentinel")
  /\ UNCHANGED <<queue, thread, current, answered, calls, history>>

PutStop(c) ==
  /\ pc[c] = "sentinel"
  /\ QueuePut(Stop)
  /\ Goto(c, "join")
  /\ UNCHANGED <<closed, thread, current, answered, calls, executed>>

Join(c) ==
  /\ pc[c] = "join"
  /\ thread = "ended"
  /\ Goto(c, "idle")
  /\ UNCHANGED <<queue, closed, thread, current, answered, calls, history>>

\* Control-C reaches a caller inside execute() or close(); what it has put
\* into the queue stays there.
Interrupt(c) ==
  /\ pc[c] # "idle"
  /\ Goto(c, "idle")
  /\ UNCHANGED <<queue, closed, thread, current, answered, calls, history>>

-----------------------------------------------------------------------------
TakeRequest ==
  /\ thread = "taking"
  /\ queue # <<>>
  /\ Head(queue) # Stop
  /\ current' = Head(queue)
  /\ queue' = Tail(queue)
  /\ thread' = "busy"
  /\ UNCHANGED <<closed, answered, pc, calls, history>>

\* Mutant: the thread ends as soon as it sees that the writer is closed.
TakeStopWhenClosed ==
  /\ thread = "taking"
  /\ closed
  /\ thread' = "ended"
  /\ UNCHANGED <<queue, closed, current, answered, pc, calls, history>>

\* Mutant: the thread goes on when requests came in behind the sentinel.
TakeStopIfLast ==
  /\ thread = "taking"
  /\ queue # <<>>
  /\ Head(queue) = Stop
  /\ queue' = Tail(queue)
  /\ thread' = IF Tail(queue) = <<>> THEN "ended" ELSE thread
  /\ UNCHANGED <<closed, current, answered, pc, calls, history>>

\* The first sentinel ends the thread, whatever is queued behind it.
TakeStop ==
  /\ thread = "taking"
  /\ queue # <<>>
  /\ Head(queue) = Stop
  /\ queue' = Tail(queue)
  /\ thread' = "ended"
  /\ UNCHANGED <<closed, current, answered, pc, calls, history>>

\* Mutant: an operation that raised is put back to be tried again.
AnswerOrRetry ==
  /\ thread = "busy"
  /\ \/ answered' = answered \cup {current} /\ UNCHANGED queue
     \/ queue' = Append(queue, current) /\ UNCHANGED answered
  /\ executed' = Append(executed, current)
  /\ current' = None
  /\ thread' = "taking"
  /\ UNCHANGED <<closed, pc, calls, arrived>>

\* Mutant: an operation that raised is reported as it leaves the loop.
AnswerOrDie ==
  /\ thread = "busy"
  /\ answered' = answered \cup {current}
  /\ executed' = Append(executed, current)
  /\ current' = None
  /\ thread' \in {"taking", "ended"}
  /\ UNCHANGED <<queue, closed, pc, calls, arrived>>

\* The operation returns or raises, and either goes into its future.
Answer ==
  /\ thread = "busy"
  /\ answered' = answered \cup {current}
  /\ executed' = Append(executed, current)
  /\ current' = None
  /\ thread' = "taking"
  /\ UNCHANGED <<queue, closed, pc, calls, arrived>>

Worker == StoreOpens \/ TakeRequest \/ TakeStop \/ Answer

Advance(c) == PutRequest(c) \/ GetResult(c) \/ MarkClosed(c) \/ PutStop(c) \/ Join(c)

Next ==
  \/ Worker
  \/ StoreFails
  \/ \E c \in Caller : StartCall(c) \/ StartClose(c) \/ Advance(c) \/ Interrupt(c)

\* The operating system schedules the writer thread and every caller that
\* can go on; nobody has to call anything.
Fairness ==
  /\ WF_vars(Worker)
  /\ \A c \in Caller : WF_vars(Advance(c))

Spec == Init /\ [][Next]_vars /\ Fairness

-----------------------------------------------------------------------------
(***************************************************************************)
(* Properties                                                              *)
(***************************************************************************)

InHand ==
  CASE thread = "busy" -> <<current>>
    [] thread = "ended" -> <<Stop>>
    [] OTHER -> <<>>

\* Operations are carried out once each and in the order in which the
\* threads handed them over, the one that closes the writer included: nothing
\* is lost, repeated or overtaken (writer.py:51-87).
InOrderOnce == arrived = executed \o InHand \o queue

\* A request that was put behind the sentinel of some close().
Late(r) ==
  \E i, j \in 1..Len(arrived) : i < j /\ arrived[i] = Stop /\ arrived[j] = r

\* A caller the writer thread has left without an answer is one whose
\* request came in behind the sentinel: it looked at _closed before close()
\* set it and put its request after (writer.py:52-55, 66-67).  Everything
\* handed over before the sentinel was answered before the thread ended.
HangsOnlyInTheRace ==
  thread = "ended" =>
    \A c \in Caller : pc[c] = "result" /\ RequestOf(c) \notin answered => Late(RequestOf(c))

\* Whatever is handed over in time is answered, also when its caller has
\* been interrupted meanwhile and when other operations raise.
InTimeIsAnswered ==
  \A r \in Request :
    (\E i \in 1..Len(arrived) : arrived[i] = r) /\ ~ Late(r) ~> r \in answered

\* A close() that has queued its sentinel returns or is interrupted: the
\* thread does end, whatever is still queued.
CloseReturns == \A c \in Caller : pc[c] = "join" ~> pc[c] # "join"

=============================================================================
