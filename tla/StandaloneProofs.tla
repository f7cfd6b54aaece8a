-------------------------- MODULE StandaloneProofs --------------------------
(***************************************************************************)
(* What holds of the single writer, of the queue and the coalescer of      *)
(* envelopes, of the capability cache, of the snapshot handlers and of the *)
(* log parsers, for any sizes and limits.                                  *)
(***************************************************************************)
EXTENDS SingleWriter, EnvelopeQueue, EnvelopeCoalescer, Snapshots, LogIncrements,
        Capabilities, InductionLemmas, FiniteSetTheorems, SequenceTheorems, TLAPS

-----------------------------------------------------------------------------
(***************************************************************************)
(* The single writer                                                       *)
(***************************************************************************)

Item == Request \cup {Stop}

-----------------------------------------------------------------------------
(***************************************************************************)
(* Types, and what the place of a thread says of its data.                 *)
(***************************************************************************)

Control ==
  /\ thread = "busy" => current \in Request
  /\ \A c \in Caller : pc[c] \in {"put", "result"} => calls[c] \in 1..MaxCalls
  /\ thread \in {"opening", "failed"} => \A c \in Caller : pc[c] = "idle"

LEMMA RequestType ==
  ASSUME NEW c \in Caller, calls[c] \in 1..MaxCalls
  PROVE  RequestOf(c) \in Request
BY DEF RequestOf, Request

LEMMA TypeStep == TypeOK /\ Control /\ [Next]_vars => TypeOK' /\ Control'
<1> SUFFICES ASSUME TypeOK, Control, [Next]_vars
             PROVE  TypeOK' /\ Control'
  OBVIOUS
<1> USE SingleWriterAssumption
<1>1. CASE StoreOpens
  BY <1>1 DEF StoreOpens, TypeOK, Control, ThreadLocation, history
<1>2. CASE StoreFails
  BY <1>2 DEF StoreFails, TypeOK, Control, ThreadLocation, history
<1>3. CASE TakeRequest
  <2>1. Head(queue) \in Item /\ Tail(queue) \in Seq(Item)
    BY <1>3, HeadTailProperties DEF TakeRequest, TypeOK, Item
  <2>2. QED
    BY <1>3, <2>1 DEF TakeRequest, TypeOK, Control, ThreadLocation, history, Item
<1>4. CASE TakeStop
  <2>1. Tail(queue) \in Seq(Item)
    BY <1>4, HeadTailProperties DEF TakeStop, TypeOK, Item
  <2>2. QED
    BY <1>4, <2>1 DEF TakeStop, TypeOK, Control, ThreadLocation, history, Item
<1>5. CASE Answer
  <2>1. current \in Request
    BY <1>5 DEF Answer, Control
  <2>2. executed' \in Seq(Request)
    BY <1>5, <2>1, AppendProperties DEF Answer, TypeOK
  <2>3. QED
    BY <1>5, <2>1, <2>2 DEF Answer, TypeOK, Control, ThreadLocation
<1>6. ASSUME NEW c \in Caller, StartCall(c) PROVE TypeOK' /\ Control'
  <2>1. calls[c] + 1 \in 1..MaxCalls
    BY <1>6 DEF StartCall, TypeOK
  <2>2. QED
    BY <1>6, <2>1 DEF StartCall, Constructed, Goto, TypeOK, Control, Location, history
<1>7. ASSUME NEW c \in Caller, StartClose(c) PROVE TypeOK' /\ Control'
  BY <1>7 DEF StartClose, Constructed, Goto, TypeOK, Control, Location, history
<1>8. ASSUME NEW c \in Caller, PutRequest(c) PROVE TypeOK' /\ Control'
  <2>1. RequestOf(c) \in Item
    BY <1>8, RequestType DEF PutRequest, Control, Item
  <2>2. queue' \in Seq(Item) /\ arrived' \in Seq(Item)
    BY <1>8, <2>1, AppendProperties DEF PutRequest, QueuePut, TypeOK, Item
  <2>3. QED
    BY <1>8, <2>2 DEF PutRequest, Goto, TypeOK, Control, Location, Item
<1>9. ASSUME NEW c \in Caller, GetResult(c) PROVE TypeOK' /\ Control'
  BY <1>9 DEF GetResult, Goto, TypeOK, Control, Location, history
<1>10. ASSUME NEW c \in Caller, MarkClosed(c) PROVE TypeOK' /\ Control'
  BY <1>10 DEF MarkClosed, Goto, TypeOK, Control, Location, history
<1>11. ASSUME NEW c \in Caller, PutStop(c) PROVE TypeOK' /\ Control'
  <2>1. queue' \in Seq(Item) /\ arrived' \in Seq(Item)
    BY <1>11, AppendProperties DEF PutStop, QueuePut, TypeOK, Item
  <2>2. QED
    BY <1>11, <2>1 DEF PutStop, Goto, TypeOK, Control, Location, Item
<1>12. ASSUME NEW c \in Caller, Join(c) PROVE TypeOK' /\ Control'
  BY <1>12 DEF Join, Goto, TypeOK, Control, Location, history
<1>13. ASSUME NEW c \in Caller, Interrupt(c) PROVE TypeOK' /\ Control'
  BY <1>13 DEF Interrupt, Goto, TypeOK, Control, Location, history
<1>14. CASE UNCHANGED vars
  BY <1>14 DEF vars, history, TypeOK, Control
<1>15. QED
  BY <1>1, <1>2, <1>3, <1>4, <1>5, <1>6, <1>7, <1>8, <1>9, <1>10, <1>11, <1>12, <1>13, <1>14
     DEF Next, Worker, Advance

LEMMA TypeHolds == Spec => [](TypeOK /\ Control)
<1>1. Init => TypeOK /\ Control
  <2> SUFFICES ASSUME Init PROVE TypeOK /\ Control
    OBVIOUS
  <2>1. 0 \in 0..MaxCalls
    BY SingleWriterAssumption
  <2>2. calls \in [Caller -> 0..MaxCalls]
    BY <2>1 DEF Init
  <2>3. pc \in [Caller -> Location] /\ thread \in ThreadLocation
    BY DEF Init, Location, ThreadLocation
  <2>4. TypeOK
    <3>1. <<>> \in Seq(Request) /\ <<>> \in Seq(Request \cup {Stop})
      BY EmptySeq
    <3>2. queue = <<>> /\ arrived = <<>> /\ executed = <<>> /\ closed = FALSE
          /\ current = None /\ answered = {}
      BY DEF Init
    <3>3. QED
      BY <2>2, <2>3, <3>1, <3>2, Zenon DEF TypeOK
  <2>5. Control
    BY DEF Init, Control
  <2>6. QED
    BY <2>4, <2>5
<1>2. QED
  BY <1>1, TypeStep, PTL DEF Spec

\* Every reachable state is well typed; in particular the sentinel is never
\* executed as an operation (writer.py:78-82).
THEOREM WriterTypeCorrect == Spec => []TypeOK
BY TypeHolds, PTL

-----------------------------------------------------------------------------
(***************************************************************************)
(* The order of operations.                                                *)
(***************************************************************************)

\* Moving the head of the queue into the hand keeps the whole sequence.
LEMMA TakeKeepsOrder ==
  ASSUME NEW S, NEW e \in Seq(S), NEW q \in Seq(S), q # <<>>
  PROVE  e \o <<>> \o q = e \o <<Head(q)>> \o Tail(q)
<1>1. q = <<Head(q)>> \o Tail(q)
  BY HeadTailProperties
<1>2. Head(q) \in S /\ Tail(q) \in Seq(S)
  BY HeadTailProperties
<1>3. <<Head(q)>> \in Seq(S)
  BY <1>2
<1>4. e \o (<<Head(q)>> \o Tail(q)) = (e \o <<Head(q)>>) \o Tail(q)
  BY <1>2, <1>3, ConcatAssociative
<1>5. QED
  BY <1>1, <1>4, ConcatEmptySeq

\* Moving what is in hand to the end of what is executed does, too.
LEMMA AnswerKeepsOrder ==
  ASSUME NEW S, NEW e \in Seq(S), NEW q \in Seq(S), NEW r \in S
  PROVE  e \o <<r>> \o q = Append(e, r) \o <<>> \o q
<1>1. Append(e, r) = e \o <<r>>
  BY AppendIsConcat
<1>2. Append(e, r) \in Seq(S)
  BY AppendProperties
<1>3. QED
  BY <1>1, <1>2, ConcatEmptySeq

LEMMA PutKeepsOrder ==
  ASSUME NEW h \in Seq(Item), NEW q \in Seq(Item), NEW x \in Item
  PROVE  Append(h \o q, x) = h \o Append(q, x)
<1>1. <<x>> \in Seq(Item)
  OBVIOUS
<1>2. Append(h \o q, x) = (h \o q) \o <<x>>
  BY AppendIsConcat, ConcatProperties
<1>3. Append(q, x) = q \o <<x>>
  BY AppendIsConcat
<1>4. QED
  BY <1>1, <1>2, <1>3, ConcatAssociative

LEMMA OrderStep ==
  TypeOK /\ Control /\ InOrderOnce /\ [Next]_vars => InOrderOnce'
<1> SUFFICES ASSUME TypeOK, Control, InOrderOnce, [Next]_vars
             PROVE  InOrderOnce'
  OBVIOUS
<1> USE SingleWriterAssumption
<1>0. /\ executed \in Seq(Item)
      /\ queue \in Seq(Item)
      /\ InHand \in Seq(Item)
      /\ executed \o InHand \in Seq(Item)
  <2>1. executed \in Seq(Item) /\ queue \in Seq(Item)
    BY DEF TypeOK, Item
  <2>2. InHand \in Seq(Item)
    <3>1. CASE thread = "busy"
      <4>1. current \in Item /\ InHand = <<current>>
        BY <3>1 DEF InHand, Control, Item
      <4>2. QED
        BY <4>1
    <3>2. CASE thread = "ended"
      <4>1. Stop \in Item /\ InHand = <<Stop>>
        BY <3>2 DEF InHand, Item
      <4>2. QED
        BY <4>1
    <3>3. CASE thread \notin {"busy", "ended"}
      <4>1. InHand = <<>>
        BY <3>3 DEF InHand
      <4>2. QED
        BY <4>1
    <3>4. QED
      BY <3>1, <3>2, <3>3
  <2>3. QED
    BY <2>1, <2>2, ConcatProperties
<1>1. CASE TakeRequest
  <2>1. InHand = <<>> /\ InHand' = <<Head(queue)>>
    BY <1>1 DEF TakeRequest, InHand
  <2>2. executed \o <<>> \o queue = executed \o <<Head(queue)>> \o Tail(queue)
    BY <1>0, <1>1, TakeKeepsOrder DEF TakeRequest
  <2>3. QED
    BY <1>1, <2>1, <2>2 DEF TakeRequest, InOrderOnce, history
<1>2. CASE TakeStop
  <2>1. InHand = <<>> /\ InHand' = <<Head(queue)>>
    BY <1>2 DEF TakeStop, InHand
  <2>2. executed \o <<>> \o queue = executed \o <<Head(queue)>> \o Tail(queue)
    BY <1>0, <1>2, TakeKeepsOrder DEF TakeStop
  <2>3. QED
    BY <1>2, <2>1, <2>2 DEF TakeStop, InOrderOnce, history
<1>3. CASE Answer
  <2>1. InHand = <<current>> /\ InHand' = <<>>
    BY <1>3 DEF Answer, InHand
  <2>2. current \in Item
    BY <1>3 DEF Answer, Control, Item
  <2>3. executed \o <<current>> \o queue = Append(executed, current) \o <<>> \o queue
    BY <1>0, <2>2, AnswerKeepsOrder
  <2>4. QED
    BY <1>3, <2>1, <2>3 DEF Answer, InOrderOnce
<1>4. ASSUME NEW c \in Caller, PutRequest(c) PROVE InOrderOnce'
  <2>1. RequestOf(c) \in Item
    BY <1>4, RequestType DEF PutRequest, Control, Item
  <2>2. InHand' = InHand
    BY <1>4 DEF PutRequest, InHand
  <2>3. /\ queue' = Append(queue, RequestOf(c))
        /\ arrived' = Append(arrived, RequestOf(c))
        /\ executed' = executed
    BY <1>4 DEF PutRequest, QueuePut
  <2>4. Append((executed \o InHand) \o queue, RequestOf(c))
          = (executed \o InHand) \o Append(queue, RequestOf(c))
    BY <1>0, <2>1, PutKeepsOrder, Zenon
  <2>5. QED
    BY <2>2, <2>3, <2>4 DEF InOrderOnce
<1>5. ASSUME NEW c \in Caller, PutStop(c) PROVE InOrderOnce'
  <2>1. Stop \in Item
    BY DEF Item
  <2>2. InHand' = InHand
    BY <1>5 DEF PutStop, InHand
  <2>3. /\ queue' = Append(queue, Stop)
        /\ arrived' = Append(arrived, Stop)
        /\ executed' = executed
    BY <1>5 DEF PutStop, QueuePut
  <2>4. Append((executed \o InHand) \o queue, Stop)
          = (executed \o InHand) \o Append(queue, Stop)
    BY <1>0, <2>1, PutKeepsOrder, Zenon
  <2>5. QED
    BY <2>2, <2>3, <2>4 DEF InOrderOnce
<1>6. ASSUME UNCHANGED <<queue, current, history>>,
             (InHand' = InHand)
      PROVE  InOrderOnce'
  BY <1>6 DEF InOrderOnce, history
<1>7. CASE StoreOpens \/ StoreFails
  <2>1. InHand' = InHand
    BY <1>7 DEF StoreOpens, StoreFails, InHand
  <2>2. QED
    BY <1>6, <1>7, <2>1 DEF StoreOpens, StoreFails
<1>8. ASSUME NEW c \in Caller,
             \/ StartCall(c) \/ StartClose(c) \/ GetResult(c) \/ MarkClosed(c)
             \/ Join(c) \/ Interrupt(c)
      PROVE  InOrderOnce'
  <2>1. UNCHANGED <<queue, thread, current, history>>
    BY <1>8 DEF StartCall, StartClose, GetResult, MarkClosed, Join, Interrupt
  <2>2. InHand' = InHand
    BY <2>1 DEF InHand
  <2>3. QED
    BY <1>6, <2>1, <2>2
<1>9. CASE UNCHANGED vars
  <2>1. InHand' = InHand
    BY <1>9 DEF vars, InHand
  <2>2. QED
    BY <1>6, <1>9, <2>1 DEF vars
<1>10. QED
  BY <1>1, <1>2, <1>3, <1>4, <1>5, <1>7, <1>8, <1>9 DEF Next, Worker, Advance

LEMMA OrderHolds == Spec => []InOrderOnce
<1>1. Init => InOrderOnce
  BY DEF Init, InOrderOnce, InHand
<1>2. QED
  BY <1>1, OrderStep, TypeHolds, PTL DEF Spec

\* Operations are carried out once each, in the order of the queue
\* (writer.py:51-87).
THEOREM OperationsAreInOrder == Spec => []InOrderOnce
BY OrderHolds, PTL

-----------------------------------------------------------------------------
(***************************************************************************)
(* Who may be left without an answer.                                      *)
(***************************************************************************)

\* What was executed was answered, and who waits has handed over.
Handed ==
  /\ \A i \in 1..Len(executed) : executed[i] \in answered
  /\ \A c \in Caller : pc[c] = "result" =>
       \E i \in 1..Len(arrived) : arrived[i] = RequestOf(c)

LEMMA HandedStep == TypeOK /\ Control /\ Handed /\ [Next]_vars => Handed'
<1> SUFFICES ASSUME TypeOK, Control, Handed, [Next]_vars
             PROVE  Handed'
  OBVIOUS
<1>0. arrived \in Seq(Item) /\ executed \in Seq(Item)
  BY DEF TypeOK, Item
<1>1. CASE Answer
  <2>1. /\ Len(executed') = Len(executed) + 1
        /\ \A i \in 1..Len(executed) : executed'[i] = executed[i]
        /\ executed'[Len(executed) + 1] = current
    BY <1>0, <1>1 DEF Answer, TypeOK
  <2>2. \A i \in 1..Len(executed') : executed'[i] \in answered'
    <3> SUFFICES ASSUME NEW i \in 1..Len(executed')
                 PROVE  executed'[i] \in answered'
      OBVIOUS
    <3>1. CASE i \in 1..Len(executed)
      BY <1>1, <2>1, <3>1 DEF Answer, Handed
    <3>2. CASE i = Len(executed) + 1
      BY <1>1, <2>1, <3>2 DEF Answer
    <3>3. QED
      BY <1>0, <2>1, <3>1, <3>2
  <2>3. QED
    BY <1>1, <2>2 DEF Answer, Handed, RequestOf
<1>2. ASSUME NEW x \in Item, QueuePut(x)
      PROVE  /\ Len(arrived') = Len(arrived) + 1
             /\ \A i \in 1..Len(arrived) : arrived'[i] = arrived[i]
             /\ arrived'[Len(arrived) + 1] = x
  BY <1>0, <1>2 DEF QueuePut
<1>3. ASSUME NEW c \in Caller, PutRequest(c) PROVE Handed'
  <2>1. RequestOf(c) \in Item
    BY <1>3, RequestType DEF PutRequest, Control, Item
  <2>2. \A d \in Caller : RequestOf(d)' = RequestOf(d)
    BY <1>3 DEF PutRequest, RequestOf
  <2>3. ASSUME NEW d \in Caller, pc'[d] = "result"
        PROVE  \E i \in 1..Len(arrived') : arrived'[i] = RequestOf(d)
    <3>1. CASE d = c
      <4>1. Len(arrived) + 1 \in 1..Len(arrived')
        BY <1>0, <1>2, <1>3, <2>1 DEF PutRequest
      <4>2. QED
        BY <1>2, <1>3, <2>1, <3>1, <4>1 DEF PutRequest
    <3>2. CASE d # c
      <4>1. PICK i \in 1..Len(arrived) : arrived[i] = RequestOf(d)
        BY <1>3, <2>3, <3>2 DEF PutRequest, Goto, Handed, TypeOK
      <4>2. i \in 1..Len(arrived')
        BY <1>0, <1>2, <1>3, <2>1 DEF PutRequest
      <4>3. QED
        BY <1>2, <1>3, <2>1, <4>1, <4>2 DEF PutRequest
    <3>3. QED
      BY <3>1, <3>2
  <2>4. QED
    BY <1>3, <2>2, <2>3 DEF PutRequest, Handed
<1>4. ASSUME NEW c \in Caller, PutStop(c) PROVE Handed'
  <2>1. Stop \in Item
    BY DEF Item
  <2>2. \A d \in Caller : RequestOf(d)' = RequestOf(d)
    BY <1>4 DEF PutStop, RequestOf
  <2>3. ASSUME NEW d \in Caller, pc'[d] = "result"
        PROVE  \E i \in 1..Len(arrived') : arrived'[i] = RequestOf(d)
    <3>1. PICK i \in 1..Len(arrived) : arrived[i] = RequestOf(d)
      BY <1>4, <2>3 DEF PutStop, Goto, Handed, TypeOK
    <3>2. i \in 1..Len(arrived')
      BY <1>0, <1>2, <1>4, <2>1 DEF PutStop
    <3>3. QED
      BY <1>2, <1>4, <2>1, <3>1, <3>2 DEF PutStop
  <2>4. QED
    BY <1>4, <2>2, <2>3 DEF PutStop, Handed
<1>5. ASSUME NEW c \in Caller, StartCall(c) PROVE Handed'
  <2>1. \A d \in Caller : pc'[d] = "result" => pc[d] = "result" /\ calls'[d] = calls[d]
    BY <1>5 DEF StartCall, Goto, TypeOK
  <2>2. QED
    BY <1>5, <2>1 DEF StartCall, Handed, RequestOf, history
<1>6. ASSUME UNCHANGED <<calls, history, answered>>,
             \A d \in Caller : pc'[d] = "result" => pc[d] = "result"
      PROVE  Handed'
  BY <1>6 DEF Handed, RequestOf, history
<1>7. CASE StoreOpens \/ StoreFails \/ TakeRequest \/ TakeStop \/ UNCHANGED vars
  BY <1>6, <1>7 DEF StoreOpens, StoreFails, TakeRequest, TakeStop, vars
<1>8. ASSUME NEW c \in Caller,
             StartClose(c) \/ GetResult(c) \/ MarkClosed(c) \/ Join(c) \/ Interrupt(c)
      PROVE  Handed'
  <2>1. /\ UNCHANGED <<calls, history, answered>>
        /\ \A d \in Caller : pc'[d] = "result" => pc[d] = "result"
    BY <1>8 DEF StartClose, GetResult, MarkClosed, Join, Interrupt, Goto, TypeOK
  <2>2. QED
    BY <1>6, <2>1
<1>9. QED
  BY <1>1, <1>3, <1>4, <1>5, <1>7, <1>8 DEF Next, Worker, Advance

LEMMA HandedHolds == Spec => []Handed
<1>1. Init => Handed
  BY DEF Init, Handed
<1>2. QED
  BY <1>1, HandedStep, TypeHolds, PTL DEF Spec

\* Once the thread has ended, what arrived and was not executed has the
\* sentinel before it.
LEMMA EndedStep ==
  ASSUME TypeOK, Control, InOrderOnce, Handed
  PROVE  HangsOnlyInTheRace
<1> SUFFICES ASSUME thread = "ended",
                    NEW c \in Caller, pc[c] = "result", RequestOf(c) \notin answered
             PROVE  Late(RequestOf(c))
  BY DEF HangsOnlyInTheRace
<1>1. executed \in Seq(Item) /\ queue \in Seq(Item) /\ <<Stop>> \in Seq(Item)
  BY DEF TypeOK, Item
<1>2. arrived = (executed \o <<Stop>>) \o queue
  BY DEF InOrderOnce, InHand
<1>3. PICK j \in 1..Len(arrived) : arrived[j] = RequestOf(c)
  BY DEF Handed
<1> DEFINE n == Len(executed) + 1
<1>4. executed \o <<Stop>> \in Seq(Item) /\ Len(executed \o <<Stop>>) = n
  BY <1>1
<1>5. /\ n \in 1..Len(arrived)
      /\ arrived[n] = Stop
      /\ \A i \in 1..Len(executed) : arrived[i] = executed[i]
  BY <1>1, <1>2, <1>4
<1>6. j \notin 1..Len(executed)
  BY <1>3, <1>5 DEF Handed
<1>7. j # n
  <2>1. RequestOf(c) # Stop
    BY SingleWriterAssumption, RequestType DEF Control
  <2>2. QED
    BY <1>3, <1>5, <2>1
<1>8. n < j
  BY <1>1, <1>6, <1>7
<1>9. QED
  BY <1>3, <1>5, <1>8 DEF Late

\* Only a request that overtook its own look at _closed is left without an
\* answer (writer.py:52-55, 66-67).
THEOREM OnlyTheRaceHangs == Spec => []HangsOnlyInTheRace
BY EndedStep, TypeHolds, OrderHolds, HandedHolds, PTL



-----------------------------------------------------------------------------
(***************************************************************************)
(* The queue                                                               *)
(***************************************************************************)

Left == [item : Queued, how : {"popped", "dropped"}, overflow : Envelope \cup {NoReport},
         offers : Nat]

QueueTypeOK ==
  /\ items \in SUBSET Queued
  /\ IsFiniteSet(items)
  /\ next_sequence \in Nat
  /\ left \in Seq(Left)

SequencesInv ==
  /\ \A x \in items : x.sequence < next_sequence
  /\ \A i \in DOMAIN left : /\ left[i].item.sequence < left[i].offers
                            /\ left[i].offers <= next_sequence

\* An item that left, and one that stayed or left later.
InItsTurn(l, x) ==
  x.sequence < l.offers => IF l.how = "popped" THEN Before(l.item, x) ELSE Before(x, l.item)

UrgentInv ==
  \A i \in DOMAIN left :
    /\ \A x \in items : InItsTurn(left[i], x)
    /\ \A j \in DOMAIN left : i < j => InItsTurn(left[i], left[j].item)

QueueInv == QueueTypeOK /\ SequencesInv /\ QueueAccounts /\ UrgentInv

LEMMA PriorityIsNatural == \A e \in Envelope : Priority(e) \in 0..2
BY DEF Priority

LEMMA OverflowIsEnvelope ==
  \A e \in Envelope : OverflowFor(e) \in Envelope /\ OverflowFor(e) # NoReport
<1>1. \A e \in Envelope : OverflowFor(e) \in Envelope
  BY DEF OverflowFor, Envelope
<1>2. QED
  BY <1>1, EnvelopeQueueAssumption

LEMMA LeftTypes ==
  ASSUME QueueTypeOK, NEW i \in DOMAIN left
  PROVE  /\ left[i] \in Left
         /\ left[i].item \in Queued
         /\ left[i].offers \in Nat
<1>1. left[i] \in Left
  BY DEF QueueTypeOK
<1>2. QED
  BY <1>1 DEF Left

\* What one more departure makes of the history.
LEMMA OneMoreLeft ==
  ASSUME QueueTypeOK, NEW l \in Left, left' = Append(left, l)
  PROVE  /\ left' \in Seq(Left)
         /\ DOMAIN left' = DOMAIN left \cup {Len(left) + 1}
         /\ left'[Len(left) + 1] = l
         /\ \A i \in DOMAIN left : left'[i] = left[i] /\ i < Len(left) + 1
BY DEF QueueTypeOK

\* An item of the queue that leaves and others that stay, ranked right.
LEMMA LeavingIsInTurn ==
  ASSUME QueueInv, NEW w \in Queued, NEW l \in Left, l.item = w, left' = Append(left, l),
         l.offers <= next_sequence', next_sequence' \in {next_sequence, next_sequence + 1},
         w.sequence < l.offers,
         NEW stay \in SUBSET items, NEW new \in SUBSET Queued,
         items' = stay \cup new, w \notin stay,
         w \in items \/ w.sequence = next_sequence,
         \A x \in new : x.sequence = next_sequence,
         \A x \in items' : InItsTurn(l, x)
  PROVE  UrgentInv'
<1>1. /\ DOMAIN left' = DOMAIN left \cup {Len(left) + 1}
      /\ left'[Len(left) + 1] = l
      /\ \A i \in DOMAIN left : left'[i] = left[i] /\ i < Len(left) + 1 /\ i \in Nat
      /\ Len(left) \in Nat
  BY OneMoreLeft DEF QueueInv, QueueTypeOK
<1>2. ASSUME NEW i \in DOMAIN left, NEW x \in Queued,
             x \in items \/ x.sequence = next_sequence
      PROVE  InItsTurn(left[i], x)
  <2>1. /\ left[i].offers <= next_sequence
        /\ left[i].offers \in Nat /\ next_sequence \in Nat
    BY LeftTypes DEF QueueInv, SequencesInv, QueueTypeOK
  <2>2. CASE x \in items
    BY <2>2 DEF QueueInv, UrgentInv
  <2>3. CASE x.sequence = next_sequence
    BY <2>1, <2>3 DEF InItsTurn
  <2>4. QED
    BY <1>2, <2>2, <2>3
<1>3. \A x \in items' : x \in Queued /\ (x \in items \/ x.sequence = next_sequence)
  BY DEF QueueInv, QueueTypeOK
<1>4. ASSUME NEW i \in DOMAIN left' PROVE \A x \in items' : InItsTurn(left'[i], x)
  BY <1>1, <1>2, <1>3
<1>5. ASSUME NEW i \in DOMAIN left', NEW j \in DOMAIN left', i < j
      PROVE  InItsTurn(left'[i], left'[j].item)
  <2>1. CASE j \in DOMAIN left
    <3>1. i \in DOMAIN left
      BY <1>1, <1>5, <2>1
    <3>2. QED
      BY <1>1, <1>5, <2>1, <3>1 DEF QueueInv, UrgentInv
  <2>2. CASE j = Len(left) + 1
    <3>1. i \in DOMAIN left
      BY <1>1, <1>5, <2>2
    <3>2. QED
      BY <1>1, <1>2, <2>2, <3>1
  <2>3. QED
    BY <1>1, <2>1, <2>2
<1>6. \A i \in DOMAIN left' :
        /\ \A x \in items' : InItsTurn(left'[i], x)
        /\ \A j \in DOMAIN left' : i < j => InItsTurn(left'[i], left'[j].item)
  BY <1>4, <1>5
<1>7. QED
  BY <1>6 DEF UrgentInv, InItsTurn, Before

LEMMA BelowBound ==
  \A m \in Nat : \A n \in 0..(m - 1) : n \in Nat /\ n < m
OBVIOUS

\* The arithmetic of the accounts when one envelope comes and perhaps one goes.
LEMMA AcceptKeepsQueueInv ==
  ASSUME QueueInv, NEW x \in Queued, x.sequence = next_sequence,
         next_sequence' = next_sequence + 1, Accept(x)
  PROVE  QueueInv'
<1>1. /\ IsFiniteSet(items') /\ Cardinality(items') <= MaxSize
      /\ items' \in SUBSET Queued
  <2>1. x \notin items
    BY DEF QueueInv, QueueTypeOK, SequencesInv
  <2>2. Cardinality(items) \in Nat /\ IsFiniteSet(items)
    BY FS_CardinalityType DEF QueueInv, QueueTypeOK
  <2>3. IsFiniteSet(items') /\ Cardinality(items') = Cardinality(items) + 1
    BY <2>1, <2>2, FS_AddElement DEF Accept
  <2>4. QED
    BY <2>2, <2>3, EnvelopeQueueAssumption DEF Accept, QueueInv, QueueTypeOK
<1>2. QueueTypeOK'
  BY <1>1 DEF QueueInv, QueueTypeOK, Accept
<1>3. SequencesInv'
  BY LeftTypes DEF QueueInv, QueueTypeOK, SequencesInv, Accept, Queued
<1>4. QueueAccounts'
  <2>1. \A n \in 0..(next_sequence' - 1) :
          (\E y \in items' : y.sequence = n) # (\E i \in DOMAIN left' : left'[i].item.sequence = n)
    <3>1. ASSUME NEW i \in DOMAIN left PROVE left[i].item.sequence # next_sequence
      BY LeftTypes DEF QueueInv, QueueTypeOK, SequencesInv, Queued
    <3>2. ASSUME NEW n \in 0..(next_sequence' - 1), n # next_sequence
          PROVE  (\E y \in items' : y.sequence = n)
                   # (\E i \in DOMAIN left' : left'[i].item.sequence = n)
      <4>1. n \in 0..(next_sequence - 1)
        BY <3>2 DEF QueueInv, QueueTypeOK
      <4>2. QED
        BY <4>1, <3>2 DEF QueueInv, QueueAccounts, Accept
    <3>3. QED
      BY <3>1, <3>2 DEF Accept
  <2>2. \A y, z \in items' : y.sequence = z.sequence => y = z
    BY DEF QueueInv, QueueTypeOK, QueueAccounts, SequencesInv, Accept
  <2>3. QED
    BY <1>1, <2>1, <2>2 DEF QueueInv, QueueAccounts, Accept
<1>5. UrgentInv'
  <2>1. ASSUME NEW i \in DOMAIN left PROVE InItsTurn(left[i], x)
    BY LeftTypes DEF InItsTurn, QueueInv, QueueTypeOK, SequencesInv
  <2>2. QED
    BY <2>1, LeftTypes DEF QueueInv, UrgentInv, InItsTurn, Accept, Before
<1>6. QED
  BY <1>2, <1>3, <1>4, <1>5 DEF QueueInv

\* One item leaves, from the queue or as it is offered.
LEMMA LeavingKeepsAccounts ==
  ASSUME QueueInv, NEW w \in Queued, NEW l \in Left, l.item = w, left' = Append(left, l),
         next_sequence' \in {next_sequence, next_sequence + 1},
         l.offers = next_sequence', w.sequence < next_sequence',
         l.overflow = IF l.how = "popped" THEN NoReport
                      ELSE [source |-> w.envelope.source, states |-> "coverage"],
         NEW new \in SUBSET Queued,
         items' = (items \ {w}) \cup (new \ {w}),
         w \in items \/ w \in new,
         IF next_sequence' = next_sequence THEN new = {} ELSE \E x \in new : new = {x},
         \A x \in new : x.sequence = next_sequence,
         IsFiniteSet(items'), Cardinality(items') <= MaxSize
  PROVE  QueueTypeOK' /\ SequencesInv' /\ QueueAccounts'
<1>1. /\ left' \in Seq(Left)
      /\ DOMAIN left' = DOMAIN left \cup {Len(left) + 1}
      /\ left'[Len(left) + 1] = l
      /\ \A i \in DOMAIN left : left'[i] = left[i] /\ i # Len(left) + 1
  BY OneMoreLeft DEF QueueInv, QueueTypeOK
<1>2. /\ next_sequence \in Nat /\ next_sequence' \in Nat
      /\ next_sequence' = next_sequence \/ next_sequence' = next_sequence + 1
  BY DEF QueueInv, QueueTypeOK
<1>3. QueueTypeOK'
  BY <1>1, <1>2 DEF QueueInv, QueueTypeOK
<1>4. \A x \in items : x.sequence \in Nat /\ x.sequence < next_sequence
  BY DEF QueueInv, QueueTypeOK, SequencesInv, Queued
<1>5. \A i \in DOMAIN left : /\ left[i].item.sequence \in Nat
                             /\ left[i].item.sequence < next_sequence
                             /\ left[i].item.sequence < left[i].offers
                             /\ left[i].offers <= next_sequence
  BY LeftTypes, <1>2 DEF QueueInv, QueueTypeOK, SequencesInv, Queued
<1>6. SequencesInv'
  <2>1. \A x \in items' : x.sequence < next_sequence'
    BY <1>2, <1>4
  <2>2. \A i \in DOMAIN left' : /\ left'[i].item.sequence < left'[i].offers
                                /\ left'[i].offers <= next_sequence'
    BY <1>1, <1>2, <1>5, LeftTypes DEF QueueInv
  <2>3. QED
    BY <2>1, <2>2 DEF SequencesInv
<1>7. \A i \in DOMAIN left : left[i].item.sequence # w.sequence
  <2>1. CASE w \in new
    BY <2>1, <1>2, <1>5
  <2>2. CASE w \in items
    <3>1. w.sequence \in 0..(next_sequence - 1)
      BY <1>2, <1>4, <2>2
    <3>2. QED
      BY <3>1, <2>2 DEF QueueInv, QueueAccounts
  <2>3. QED
    BY <2>1, <2>2
<1>8. \A y, z \in items \cup new : y.sequence = z.sequence => y = z
  BY <1>2, <1>4 DEF QueueInv, QueueAccounts
<1>9. ASSUME NEW n \in 0..(next_sequence' - 1)
      PROVE  (\E y \in items' : y.sequence = n)
               # (\E i \in DOMAIN left' : left'[i].item.sequence = n)
  <2>1. (\E i \in DOMAIN left' : left'[i].item.sequence = n)
          <=> (\E i \in DOMAIN left : left[i].item.sequence = n) \/ w.sequence = n
    BY <1>1
  <2>2. (\E y \in items' : y.sequence = n)
          <=> (\E y \in items \cup new : y.sequence = n) /\ w.sequence # n
    BY <1>8
  <2>3. CASE n \in 0..(next_sequence - 1)
    <3>1. (\E y \in items : y.sequence = n) # (\E i \in DOMAIN left : left[i].item.sequence = n)
      BY <2>3 DEF QueueInv, QueueAccounts
    <3>2. (\E y \in items \cup new : y.sequence = n) <=> (\E y \in items : y.sequence = n)
      BY <1>2, <2>3
    <3>3. QED
      BY <1>7, <2>1, <2>2, <3>1, <3>2
  <2>4. CASE n = next_sequence
    <3>1. \E y \in new : y.sequence = n
      <4>1. n \in 0..(next_sequence' - 1)
        OBVIOUS
      <4>2. n < next_sequence'
        BY <1>2, <4>1, BelowBound
      <4>3. QED
        BY <1>2, <4>2, <2>4
    <3>2. ~ \E i \in DOMAIN left : left[i].item.sequence = n
      BY <1>2, <1>5, <2>4
    <3>3. QED
      BY <2>1, <2>2, <3>1, <3>2
  <2>5. n \in 0..(next_sequence - 1) \/ n = next_sequence
    BY <1>2
  <2>6. QED
    BY <2>3, <2>4, <2>5
<1>10. \A i, j \in DOMAIN left' : left'[i].item.sequence = left'[j].item.sequence => i = j
  BY <1>1, <1>7 DEF QueueInv, QueueAccounts
<1>11. \A i \in DOMAIN left' :
         left'[i].overflow = IF left'[i].how = "popped" THEN NoReport
                             ELSE [source |-> left'[i].item.envelope.source, states |-> "coverage"]
  BY <1>1 DEF QueueInv, QueueAccounts
<1>12. \A x, y \in items' : x.sequence = y.sequence => x = y
  BY <1>8
<1>13. QED
  BY <1>3, <1>6, <1>9, <1>10, <1>11, <1>12 DEF QueueAccounts

LEMMA DisplaceKeepsQueueInv ==
  ASSUME QueueInv, NEW x \in Queued, x.sequence = next_sequence,
         next_sequence' = next_sequence + 1, Displace(x)
  PROVE  QueueInv'
<1>1. PICK w \in items :
        /\ IsWorst(w)
        /\ Priority(x.envelope) < Priority(w.envelope)
        /\ items' = (items \ {w}) \cup {x}
        /\ left' = Append(left, Leaving(w, "dropped", OverflowFor(w.envelope)))
  BY DEF Displace
<1>2. PICK l \in Left : l = Leaving(w, "dropped", OverflowFor(w.envelope))
  <2>1. w \in Queued /\ OverflowFor(w.envelope) \in Envelope
    BY OverflowIsEnvelope DEF QueueInv, QueueTypeOK, Queued
  <2>2. next_sequence' \in Nat /\ w \in Queued
    BY <2>1 DEF QueueInv, QueueTypeOK
  <2>3. Leaving(w, "dropped", OverflowFor(w.envelope)) \in Left
    BY <2>1, <2>2 DEF Leaving, Left
  <2>4. QED
    BY <2>3
<1>3. /\ l.item = w /\ l.how = "dropped" /\ l.offers = next_sequence'
      /\ l.overflow = [source |-> w.envelope.source, states |-> "coverage"]
  BY <1>2 DEF Leaving, OverflowFor
<1>4. /\ next_sequence \in Nat /\ w \in Queued /\ x \notin items /\ IsFiniteSet(items)
      /\ \A y \in items : y.sequence \in Nat /\ y.sequence < next_sequence
  BY DEF QueueInv, QueueTypeOK, SequencesInv, Queued
<1>5. IsFiniteSet(items') /\ Cardinality(items') <= MaxSize
  <2>1. IsFiniteSet(items \ {w}) /\ Cardinality(items \ {w}) = Cardinality(items) - 1
    BY <1>4, FS_RemoveElement
  <2>2. IsFiniteSet(items') /\ Cardinality(items') = Cardinality(items \ {w}) + 1
    BY <1>1, <1>4, <2>1, FS_AddElement
  <2>3. Cardinality(items) \in Nat /\ Cardinality(items) <= MaxSize
    BY <1>4, FS_CardinalityType DEF QueueInv, QueueAccounts
  <2>4. QED
    BY <2>1, <2>2, <2>3, EnvelopeQueueAssumption
<1>6. QueueTypeOK' /\ SequencesInv' /\ QueueAccounts'
  <2>1. items' = (items \ {w}) \cup ({x} \ {w})
    BY <1>1, <1>4
  <2>2. /\ {x} \in SUBSET Queued /\ \A y \in {x} : y.sequence = next_sequence
        /\ w.sequence < next_sequence' /\ next_sequence' # next_sequence
    BY <1>4
  <2>3. QED
    BY <1>1, <1>2, <1>3, <1>4, <1>5, <2>1, <2>2, LeavingKeepsAccounts
<1>7. \A y \in items' : InItsTurn(l, y)
  <2>1. ASSUME NEW y \in items \ {w} PROVE Before(y, w)
    BY <1>1 DEF IsWorst
  <2>2. Before(x, w)
    BY <1>1 DEF Before
  <2>3. QED
    BY <1>1, <1>3, <2>1, <2>2 DEF InItsTurn
<1>8. UrgentInv'
  <2>1. /\ items \ {w} \in SUBSET items /\ w \notin items \ {w}
        /\ {x} \in SUBSET Queued /\ \A y \in {x} : y.sequence = next_sequence
        /\ w.sequence < l.offers /\ l.offers <= next_sequence'
        /\ next_sequence' \in {next_sequence, next_sequence + 1}
    BY <1>3, <1>4
  <2>2. QED
    BY <1>1, <1>2, <1>3, <1>4, <1>7, <2>1, LeavingIsInTurn
<1>9. QED
  BY <1>6, <1>8 DEF QueueInv

LEMMA RefuseKeepsQueueInv ==
  ASSUME QueueInv, NEW x \in Queued, x.sequence = next_sequence,
         next_sequence' = next_sequence + 1, Refuse(x)
  PROVE  QueueInv'
<1>1. PICK w \in items : IsWorst(w) /\ Priority(x.envelope) >= Priority(w.envelope)
  BY DEF Refuse
<1>2. PICK l \in Left : l = Leaving(x, "dropped", OverflowFor(x.envelope))
  <2>1. OverflowFor(x.envelope) \in Envelope
    BY OverflowIsEnvelope DEF Queued
  <2>2. next_sequence' \in Nat /\ x \in Queued
    BY <2>1 DEF QueueInv, QueueTypeOK
  <2>3. Leaving(x, "dropped", OverflowFor(x.envelope)) \in Left
    BY <2>1, <2>2 DEF Leaving, Left
  <2>4. QED
    BY <2>3
<1>3. /\ l.item = x /\ l.how = "dropped" /\ l.offers = next_sequence'
      /\ l.overflow = [source |-> x.envelope.source, states |-> "coverage"]
  BY <1>2 DEF Leaving, OverflowFor
<1>4. /\ next_sequence \in Nat /\ x \notin items
      /\ \A y \in items : /\ y \in Queued
                          /\ y.sequence \in Nat /\ y.sequence < next_sequence
  BY DEF QueueInv, QueueTypeOK, SequencesInv, Queued
<1>5. items' = items /\ left' = Append(left, l)
  BY <1>2 DEF Refuse
<1>6. QueueTypeOK' /\ SequencesInv' /\ QueueAccounts'
  <2>1. items' = (items \ {x}) \cup ({x} \ {x})
    BY <1>4, <1>5
  <2>2. /\ {x} \in SUBSET Queued /\ \A y \in {x} : y.sequence = next_sequence
        /\ x.sequence < next_sequence' /\ next_sequence' # next_sequence
    BY <1>4
  <2>3. IsFiniteSet(items') /\ Cardinality(items') <= MaxSize
    BY <1>5 DEF QueueInv, QueueTypeOK, QueueAccounts
  <2>4. QED
    BY <1>2, <1>3, <1>4, <1>5, <2>1, <2>2, <2>3, LeavingKeepsAccounts
<1>7. \A y \in items' : InItsTurn(l, y)
  <2>1. ASSUME NEW y \in items PROVE Before(y, x)
    <3>1. /\ Priority(y.envelope) \in 0..2 /\ Priority(w.envelope) \in 0..2
          /\ Priority(x.envelope) \in 0..2
      BY <1>4, PriorityIsNatural DEF Queued
    <3>2. Priority(y.envelope) <= Priority(w.envelope)
      BY <1>1, <3>1 DEF IsWorst, Before
    <3>3. QED
      BY <1>1, <1>4, <3>1, <3>2 DEF Before
  <2>2. QED
    BY <1>3, <1>5, <2>1 DEF InItsTurn
<1>8. UrgentInv'
  <2>1. /\ items \in SUBSET items /\ {} \in SUBSET Queued /\ items' = items \cup {}
        /\ \A y \in {} : y.sequence = next_sequence
        /\ x.sequence < l.offers /\ l.offers <= next_sequence'
        /\ next_sequence' \in {next_sequence, next_sequence + 1}
    BY <1>3, <1>4, <1>5
  <2>2. QED
    BY <1>2, <1>3, <1>4, <1>5, <1>7, <2>1, LeavingIsInTurn
<1>9. QED
  BY <1>6, <1>8 DEF QueueInv

LEMMA PopKeepsQueueInv ==
  ASSUME QueueInv, Pop
  PROVE  QueueInv'
<1>1. PICK b \in items :
        /\ IsBest(b)
        /\ items' = items \ {b}
        /\ left' = Append(left, Leaving(b, "popped", NoReport))
  BY DEF Pop
<1>2. next_sequence' = next_sequence
  BY DEF Pop
<1>3. PICK l \in Left : l = Leaving(b, "popped", NoReport)
  <2>1. next_sequence' \in Nat /\ b \in Queued
    BY <1>2 DEF QueueInv, QueueTypeOK
  <2>2. Leaving(b, "popped", NoReport) \in Left
    BY <2>1 DEF Leaving, Left
  <2>3. QED
    BY <2>2
<1>4. l.item = b /\ l.how = "popped" /\ l.offers = next_sequence' /\ l.overflow = NoReport
  BY <1>3 DEF Leaving
<1>5. /\ next_sequence \in Nat /\ b \in Queued /\ IsFiniteSet(items)
      /\ b.sequence \in Nat /\ b.sequence < next_sequence
  BY DEF QueueInv, QueueTypeOK, SequencesInv, Queued
<1>6. IsFiniteSet(items') /\ Cardinality(items') <= MaxSize
  <2>1. IsFiniteSet(items') /\ Cardinality(items') = Cardinality(items) - 1
    BY <1>1, <1>5, FS_RemoveElement
  <2>2. Cardinality(items) \in Nat /\ Cardinality(items) <= MaxSize
    BY <1>5, FS_CardinalityType DEF QueueInv, QueueAccounts
  <2>3. QED
    BY <2>1, <2>2, EnvelopeQueueAssumption
<1>7. PICK new \in SUBSET Queued : new = {}
  OBVIOUS
<1>8. /\ left' = Append(left, l)
      /\ items' = (items \ {b}) \cup (new \ {b}) /\ items' = (items \ {b}) \cup new
      /\ \A y \in new : y.sequence = next_sequence
      /\ b.sequence < next_sequence' /\ b.sequence < l.offers /\ l.offers <= next_sequence'
      /\ next_sequence' \in {next_sequence, next_sequence + 1}
      /\ l.overflow = IF l.how = "popped" THEN NoReport
                      ELSE [source |-> b.envelope.source, states |-> "coverage"]
      /\ items \ {b} \in SUBSET items /\ b \notin items \ {b}
  BY <1>1, <1>2, <1>3, <1>4, <1>5, <1>7
<1>9. QueueTypeOK' /\ SequencesInv' /\ QueueAccounts'
  BY <1>2, <1>4, <1>5, <1>6, <1>7, <1>8, LeavingKeepsAccounts
<1>10. \A y \in items' : InItsTurn(l, y)
  BY <1>1, <1>4 DEF InItsTurn, IsBest
<1>11. UrgentInv'
  BY <1>4, <1>5, <1>8, <1>10, LeavingIsInTurn
<1>12. QED
  BY <1>9, <1>11 DEF QueueInv

THEOREM QueueInvariant == EnvelopeQueueSpec => []QueueInv
<1>1. EnvelopeQueueInit => QueueInv
  <2>1. SUFFICES ASSUME EnvelopeQueueInit PROVE QueueInv
    OBVIOUS
  <2>2. IsFiniteSet(items) /\ Cardinality(items) <= MaxSize
    BY <2>1, FS_EmptySet, EnvelopeQueueAssumption DEF EnvelopeQueueInit
  <2>3. QED
    BY <2>1, <2>2 DEF EnvelopeQueueInit, QueueInv, QueueTypeOK, SequencesInv, QueueAccounts,
                      UrgentInv
<1>2. ASSUME QueueInv, [EnvelopeQueueNext]_envelopeQueueVars PROVE QueueInv'
  <2>1. CASE Pop
    BY <1>2, <2>1, PopKeepsQueueInv
  <2>2. ASSUME NEW e \in Offered, Offer(e) PROVE QueueInv'
    <3>1. PICK x \in Queued : x = [sequence |-> next_sequence, envelope |-> e]
      BY <1>2, EnvelopeQueueAssumption DEF QueueInv, QueueTypeOK, Queued
    <3>2. /\ x.sequence = next_sequence /\ next_sequence' = next_sequence + 1
          /\ Accept(x) \/ Displace(x) \/ Refuse(x)
      BY <2>2, <3>1 DEF Offer
    <3>3. QED
      BY <1>2, <3>2, AcceptKeepsQueueInv, DisplaceKeepsQueueInv, RefuseKeepsQueueInv
  <2>3. CASE UNCHANGED envelopeQueueVars
    BY <1>2, <2>3 DEF envelopeQueueVars, QueueInv, QueueTypeOK, SequencesInv, QueueAccounts,
                      UrgentInv, InItsTurn, Before
  <2>4. QED
    BY <1>2, <2>1, <2>2, <2>3 DEF EnvelopeQueueNext
<1>3. QED
  BY <1>1, <1>2, PTL DEF EnvelopeQueueSpec

\* No envelope is lost or doubled without a report, in a queue of any size and
\* whatever is offered and popped in whatever order (queue.py:35-76).
THEOREM EnvelopesAccounted == EnvelopeQueueSpec => []QueueAccounts
BY QueueInvariant, PTL DEF QueueInv

\* What is popped is the most urgent there, what is dropped the least.
THEOREM UrgentEnvelopesFirst == EnvelopeQueueSpec => []UrgentFirst
<1>1. QueueInv => UrgentFirst
  BY DEF QueueInv, UrgentInv, InItsTurn, UrgentFirst, Outlasted
<1>2. QED
  BY <1>1, QueueInvariant, PTL

-----------------------------------------------------------------------------
(***************************************************************************)
(* The coalescer                                                           *)
(***************************************************************************)

CoalescerTypeOK ==
  /\ DOMAIN groups \in SUBSET Key
  /\ IsFiniteSet(DOMAIN groups)
  /\ groups \in [DOMAIN groups -> CoalescedGroup]
  /\ evicted_count \in Nat
  /\ added \in Seq(Added)

CoalescerInv == CoalescerTypeOK /\ GroupsTellTheStory /\ EvictedOnlyForLater

\* What GroupsTellTheStory says of one group, the calls in hand and when what
\* they brought was observed.
IsStory(group, held, observed_at) ==
  /\ group.count = Cardinality(held)
  /\ group.representative \in held
  /\ group.touched \in held
  /\ \A i \in held : /\ group.representative <= i /\ i <= group.touched
                     /\ group.first_observed_at <= observed_at[i]
                     /\ observed_at[i] <= group.last_observed_at
  /\ \E i, j \in held : /\ group.first_observed_at = observed_at[i]
                        /\ group.last_observed_at = observed_at[j]

\* The calls of a key in hand, when each call's envelope was observed, and what
\* GroupsTellTheStory says, of any groups, calls and count.
HeldIn(adds, k) ==
  {i \in DOMAIN adds : /\ ~ adds[i].flushed /\ adds[i].evicted = 0
                       /\ adds[i].key = k}

ObservedIn(adds) == [i \in DOMAIN adds |-> adds[i].observed_at]

Stories(of, adds, evictions) ==
  /\ \A k \in DOMAIN of : IsStory(of[k], HeldIn(adds, k), ObservedIn(adds))
  /\ \A i \in DOMAIN adds : i \in HeldIn(adds, adds[i].key) => adds[i].key \in DOMAIN of
  /\ {adds[i].evicted : i \in DOMAIN adds} \ {0} = 1..evictions

LEMMA StoriesTold == GroupsTellTheStory <=> Stories(groups, added, evicted_count)
<1>1. \A k : HeldOf(k) = HeldIn(added, k)
  BY DEF HeldOf, Held, HeldIn
<1>2. \A i \in DOMAIN added : Held(i) <=> i \in HeldIn(added, added[i].key)
  BY DEF Held, HeldIn
<1>3. ASSUME NEW k \in DOMAIN groups
      PROVE  IsStory(groups[k], HeldIn(added, k), ObservedIn(added)) <=>
               /\ groups[k].count = Cardinality(HeldOf(k))
               /\ groups[k].representative \in HeldOf(k)
               /\ groups[k].touched \in HeldOf(k)
               /\ \A i \in HeldOf(k) :
                    /\ groups[k].representative <= i /\ i <= groups[k].touched
                    /\ groups[k].first_observed_at <= added[i].observed_at
                    /\ added[i].observed_at <= groups[k].last_observed_at
               /\ \E i, j \in HeldOf(k) : /\ groups[k].first_observed_at = added[i].observed_at
                                          /\ groups[k].last_observed_at = added[j].observed_at
  <2>1. \A i \in HeldIn(added, k) : ObservedIn(added)[i] = added[i].observed_at
    BY DEF HeldIn, ObservedIn
  <2>2. QED
    BY <1>1, <2>1 DEF IsStory
<1>4. QED
  BY <1>2, <1>3 DEF GroupsTellTheStory, Stories

LEMMA StoriesToldNext == GroupsTellTheStory' <=> Stories(groups', added', evicted_count')
<1>1. (GroupsTellTheStory <=> Stories(groups, added, evicted_count))'
  BY StoriesTold, PTL
<1>2. QED
  BY <1>1

LEMMA AddedTypes ==
  ASSUME CoalescerTypeOK
  PROVE  /\ DOMAIN added = 1..Len(added) /\ Len(added) \in Nat
         /\ \A i \in DOMAIN added : /\ added[i] \in Added
                                    /\ added[i].observed_at \in Nat
                                    /\ added[i].evicted \in Nat
         /\ \A k \in DOMAIN groups : /\ groups[k] \in CoalescedGroup
                                     /\ groups[k].first_observed_at \in ObservedAt
                                     /\ groups[k].last_observed_at \in ObservedAt
                                     /\ groups[k].touched \in Nat
                                     /\ groups[k].representative \in Nat
                                     /\ groups[k].count \in Nat
<1>1. /\ DOMAIN added = 1..Len(added) /\ Len(added) \in Nat
      /\ \A i \in DOMAIN added : added[i] \in Added
  BY DEF CoalescerTypeOK
<1>2. \A k \in DOMAIN groups : groups[k] \in CoalescedGroup
  BY DEF CoalescerTypeOK
<1>3. QED
  BY <1>1, <1>2, EnvelopeCoalescerAssumption DEF Added, CoalescedGroup

LEMMA HeldFinite ==
  ASSUME CoalescerTypeOK, NEW k
  PROVE  IsFiniteSet(HeldIn(added, k)) /\ Cardinality(HeldIn(added, k)) \in Nat
<1>1. HeldIn(added, k) \in SUBSET (1..Len(added))
  BY AddedTypes DEF HeldIn
<1>2. IsFiniteSet(1..Len(added))
  BY AddedTypes, FS_Interval
<1>3. QED
  BY <1>1, <1>2, FS_Subset, FS_CardinalityType

\* The history after add(), of which an eviction may have marked some.
LEMMA AddedAfter ==
  ASSUME CoalescerTypeOK, NEW marked \in [1..Len(added) -> Added], NEW e \in Added,
         added' = Append(marked, e)
  PROVE  /\ added' \in Seq(Added)
         /\ DOMAIN added' = DOMAIN added \cup {Len(added) + 1}
         /\ Len(added) + 1 \notin DOMAIN added
         /\ added'[Len(added) + 1] = e
         /\ \A i \in DOMAIN added : added'[i] = marked[i]
<1>1. marked \in Seq(Added) /\ Len(marked) = Len(added) /\ DOMAIN added = 1..Len(added)
  BY AddedTypes
<1>2. QED
  BY <1>1, AddedTypes

LEMMA UpdatedFields ==
  ASSUME NEW group \in CoalescedGroup, NEW at \in ObservedAt, CoalescerTypeOK
  PROVE  /\ Updated(group, at) \in CoalescedGroup
         /\ Updated(group, at).count = group.count + 1
         /\ Updated(group, at).representative = group.representative
         /\ Updated(group, at).touched = Len(added) + 1
         /\ Updated(group, at).first_observed_at =
              IF at < group.first_observed_at THEN at ELSE group.first_observed_at
         /\ Updated(group, at).last_observed_at =
              IF at > group.last_observed_at THEN at ELSE group.last_observed_at
<1>1. PICK last \in ObservedAt :
        last = IF at > group.last_observed_at THEN at ELSE group.last_observed_at
  BY DEF CoalescedGroup
<1>2. PICK first \in ObservedAt :
        first = IF at < group.first_observed_at THEN at ELSE group.first_observed_at
  BY DEF CoalescedGroup
<1>3. PICK count \in Nat \ {0} : count = group.count + 1
  BY DEF CoalescedGroup
<1>4. PICK touched \in Nat \ {0} : touched = Len(added) + 1
  BY AddedTypes
<1>5. Updated(group, at) = [first_observed_at |-> first, last_observed_at |-> last,
                            count |-> count, representative |-> group.representative,
                            touched |-> touched]
  BY <1>1, <1>2, <1>3, <1>4 DEF Updated, CoalescedGroup
<1>6. QED
  BY <1>1, <1>2, <1>3, <1>4, <1>5 DEF CoalescedGroup

\* The story of a group goes on with the next call, or begins with it.
LEMMA StoryGoesOn ==
  ASSUME NEW m \in Nat, NEW held \in SUBSET (1..m), IsFiniteSet(held), NEW at \in ObservedAt,
         NEW group \in CoalescedGroup, NEW after \in CoalescedGroup,
         NEW observed_at, NEW observed_after,
         IsStory(group, held, observed_at),
         \A i \in held : observed_at[i] \in Nat /\ observed_after[i] = observed_at[i],
         observed_after[m + 1] = at,
         after.count = group.count + 1,
         after.representative = group.representative,
         after.touched = m + 1,
         after.first_observed_at =
           (IF at < group.first_observed_at THEN at ELSE group.first_observed_at),
         after.last_observed_at =
           (IF at > group.last_observed_at THEN at ELSE group.last_observed_at)
  PROVE  IsStory(after, held \cup {m + 1}, observed_after)
<1>1. /\ at \in Nat /\ group.first_observed_at \in Nat /\ group.last_observed_at \in Nat
      /\ group.representative \in Nat
  BY EnvelopeCoalescerAssumption DEF CoalescedGroup
<1>2. after.count = Cardinality(held \cup {m + 1})
  <2>1. m + 1 \notin held
    OBVIOUS
  <2>2. QED
    BY <2>1, FS_AddElement DEF IsStory
<1>3. /\ after.representative \in held \cup {m + 1}
      /\ after.touched \in held \cup {m + 1}
  BY DEF IsStory
<1>4. group.first_observed_at <= group.last_observed_at
  BY <1>1 DEF IsStory
<1>5. \A i \in held \cup {m + 1} :
        /\ after.representative <= i /\ i <= after.touched
        /\ after.first_observed_at <= observed_after[i]
        /\ observed_after[i] <= after.last_observed_at
  <2>1. ASSUME NEW i \in held
        PROVE  /\ after.representative <= i /\ i <= after.touched
               /\ after.first_observed_at <= observed_after[i]
               /\ observed_after[i] <= after.last_observed_at
    BY <1>1, <2>1 DEF IsStory
  <2>2. /\ after.representative <= m + 1 /\ m + 1 <= after.touched
        /\ after.first_observed_at <= observed_after[m + 1]
        /\ observed_after[m + 1] <= after.last_observed_at
    BY <1>1 DEF IsStory
  <2>3. QED
    BY <2>1, <2>2
<1>6. \E i, j \in held \cup {m + 1} : /\ after.first_observed_at = observed_after[i]
                                      /\ after.last_observed_at = observed_after[j]
  <2>1. PICK i, j \in held : /\ group.first_observed_at = observed_at[i]
                             /\ group.last_observed_at = observed_at[j]
    BY DEF IsStory
  <2>2. after.first_observed_at \in {observed_after[i], observed_after[m + 1]}
    BY <1>1, <2>1
  <2>3. after.last_observed_at \in {observed_after[j], observed_after[m + 1]}
    BY <1>1, <2>1
  <2>4. QED
    BY <2>2, <2>3
<1>7. QED
  BY <1>2, <1>3, <1>5, <1>6 DEF IsStory

LEMMA StoryBegins ==
  ASSUME NEW m \in Nat, NEW at \in ObservedAt, NEW observed_at, observed_at[m] = at
  PROVE  \A group : group = [first_observed_at |-> at, last_observed_at |-> at, count |-> 1,
                             representative |-> m, touched |-> m]
                      => IsStory(group, {m}, observed_at)
<1>1. SUFFICES ASSUME NEW group,
                      group = [first_observed_at |-> at, last_observed_at |-> at, count |-> 1,
                               representative |-> m, touched |-> m]
               PROVE  IsStory(group, {m}, observed_at)
  OBVIOUS
<1>2. /\ group.first_observed_at = at /\ group.last_observed_at = at /\ group.count = 1
      /\ group.representative = m /\ group.touched = m
  BY <1>1
<1>3. Cardinality({m}) = 1
  BY FS_Singleton
<1>4. at \in Nat
  BY EnvelopeCoalescerAssumption
<1>5. QED
  BY <1>2, <1>3, <1>4 DEF IsStory

\* The calls, those in hand of some keys marked as evicted.
EvictedIn(marked, gone) ==
  \A i \in DOMAIN added :
    /\ marked[i].key = added[i].key
    /\ marked[i].observed_at = added[i].observed_at
    /\ marked[i].flushed = added[i].flushed
    /\ marked[i].evicted = IF Held(i) /\ added[i].key \in gone THEN evicted_count + 1
                           ELSE added[i].evicted

\* What add() makes of the calls of each key, when an eviction may have marked
\* those of other keys.
LEMMA HeldAfter ==
  ASSUME CoalescerTypeOK, NEW k \in Key, NEW at \in ObservedAt,
         NEW gone \in SUBSET (Key \ {k}),
         NEW marked \in [1..Len(added) -> Added], added' = Append(marked, AddedNow(k, at)),
         EvictedIn(marked, gone)
  PROVE  /\ added' \in Seq(Added)
         /\ DOMAIN added' = DOMAIN added \cup {Len(added) + 1}
         /\ HeldIn(added', k) = HeldIn(added, k) \cup {Len(added) + 1}
         /\ \A g \in gone : HeldIn(added', g) = {}
         /\ \A g \in Key \ (gone \cup {k}) : HeldIn(added', g) = HeldIn(added, g)
         /\ \A i \in DOMAIN added : ObservedIn(added')[i] = ObservedIn(added)[i]
         /\ ObservedIn(added')[Len(added) + 1] = at
         /\ \A i \in DOMAIN added : added'[i] = marked[i] /\ i < Len(added) + 1
         /\ added'[Len(added) + 1] = AddedNow(k, at)
<1>1. AddedNow(k, at) \in Added
  BY DEF AddedNow, Added
<1>2. /\ added' \in Seq(Added)
      /\ DOMAIN added' = DOMAIN added \cup {Len(added) + 1}
      /\ Len(added) + 1 \notin DOMAIN added
      /\ added'[Len(added) + 1] = AddedNow(k, at)
      /\ \A i \in DOMAIN added : added'[i] = marked[i]
  BY <1>1, AddedAfter
<1>3. ASSUME NEW i \in DOMAIN added PROVE Held(i)' <=> Held(i) /\ added[i].key \notin gone
  <2>1. /\ added'[i].flushed = added[i].flushed
        /\ added'[i].evicted = IF Held(i) /\ added[i].key \in gone THEN evicted_count + 1
                               ELSE added[i].evicted
    BY <1>2 DEF EvictedIn
  <2>2. evicted_count \in Nat /\ evicted_count + 1 # 0
    BY DEF CoalescerTypeOK
  <2>3. CASE Held(i) /\ added[i].key \in gone
    BY <2>1, <2>2, <2>3 DEF Held
  <2>4. CASE ~ (Held(i) /\ added[i].key \in gone)
    <3>1. added'[i].evicted = added[i].evicted
      BY <2>1, <2>4
    <3>2. Held(i)' <=> Held(i)
      BY <2>1, <3>1, Zenon DEF Held
    <3>3. QED
      BY <2>4, <3>2, Zenon
  <2>5. QED
    BY <2>3, <2>4
<1>4. \A i \in {Len(added) + 1} : Held(i)' /\ added'[i].key = k
  BY <1>2 DEF Held, AddedNow
<1>5. \A i \in DOMAIN added : added'[i].key = added[i].key
  BY <1>2 DEF EvictedIn
<1>6. HeldIn(added', k) = HeldIn(added, k) \cup {Len(added) + 1}
  BY <1>2, <1>3, <1>4, <1>5 DEF HeldIn, Held
<1>7. /\ \A g \in gone : HeldIn(added', g) = {}
      /\ \A g \in Key \ (gone \cup {k}) : HeldIn(added', g) = HeldIn(added, g)
  BY <1>2, <1>3, <1>4, <1>5 DEF HeldIn, Held
<1>8. /\ \A i \in DOMAIN added : ObservedIn(added')[i] = ObservedIn(added)[i]
      /\ ObservedIn(added')[Len(added) + 1] = at
  BY <1>2 DEF ObservedIn, AddedNow, EvictedIn
<1>9. QED
  BY <1>2, <1>6, <1>7, <1>8, AddedTypes

LEMMA AddKeepsStory ==
  ASSUME CoalescerInv, NEW k \in Key, NEW at \in ObservedAt,
         NEW gone \in SUBSET (Key \ {k}),
         NEW marked \in [1..Len(added) -> Added], added' = Append(marked, AddedNow(k, at)),
         EvictedIn(marked, gone),
         IF gone = {} THEN evicted_count' = evicted_count
         ELSE /\ evicted_count' = evicted_count + 1
              /\ \E i \in DOMAIN added : Held(i) /\ added[i].key \in gone,
         NEW after \in CoalescedGroup,
         groups' = [g \in (DOMAIN groups \ gone) \cup {k} |-> IF g = k THEN after ELSE groups[g]],
         IsStory(after, HeldIn(added', k), ObservedIn(added'))
  PROVE  CoalescerTypeOK' /\ GroupsTellTheStory'
<1>1. CoalescerTypeOK
  BY DEF CoalescerInv
<1>2. /\ added' \in Seq(Added)
      /\ DOMAIN added' = DOMAIN added \cup {Len(added) + 1}
      /\ \A g \in gone : HeldIn(added', g) = {}
      /\ \A g \in Key \ (gone \cup {k}) : HeldIn(added', g) = HeldIn(added, g)
      /\ \A i \in DOMAIN added : ObservedIn(added')[i] = ObservedIn(added)[i]
      /\ \A i \in DOMAIN added : added'[i] = marked[i] /\ i < Len(added) + 1
      /\ added'[Len(added) + 1] = AddedNow(k, at)
  BY <1>1, HeldAfter
<1>3. DOMAIN groups' = (DOMAIN groups \ gone) \cup {k}
  OBVIOUS
<1>4. evicted_count \in Nat /\ evicted_count' \in Nat
  BY <1>1 DEF CoalescerTypeOK
<1>5. CoalescerTypeOK'
  <2>1. IsFiniteSet(DOMAIN groups')
    <3>1. IsFiniteSet(DOMAIN groups \ gone)
      BY <1>1, FS_Subset DEF CoalescerTypeOK
    <3>2. QED
      BY <1>3, <3>1, FS_AddElement
  <2>2. groups' \in [DOMAIN groups' -> CoalescedGroup]
    BY <1>1, <1>3 DEF CoalescerTypeOK
  <2>3. QED
    BY <1>1, <1>2, <1>3, <1>4, <2>1, <2>2 DEF CoalescerTypeOK
<1>6. ASSUME NEW g \in DOMAIN groups'
      PROVE  IsStory(groups'[g], HeldIn(added', g), ObservedIn(added'))
  <2>1. CASE g = k
    BY <1>3, <2>1
  <2>2. CASE g # k
    <3>1. /\ g \in DOMAIN groups /\ groups'[g] = groups[g]
          /\ HeldIn(added', g) = HeldIn(added, g)
      BY <1>1, <1>2, <1>3, <2>2 DEF CoalescerTypeOK
    <3>2. IsStory(groups[g], HeldIn(added, g), ObservedIn(added))
      BY <3>1, StoriesTold DEF CoalescerInv, Stories
    <3>3. \A i \in HeldIn(added, g) : ObservedIn(added')[i] = ObservedIn(added)[i]
      BY <1>2 DEF HeldIn
    <3>4. QED
      BY <3>1, <3>2, <3>3 DEF IsStory
  <2>3. QED
    BY <2>1, <2>2
<1>7. ASSUME NEW i \in DOMAIN added', i \in HeldIn(added', added'[i].key)
      PROVE  added'[i].key \in DOMAIN groups'
  <2>1. CASE i = Len(added) + 1
    BY <1>2, <1>3, <2>1 DEF AddedNow
  <2>2. CASE i \in DOMAIN added
    <3>1. added'[i].key = added[i].key /\ added[i].key \in Key
      BY <1>1, <1>2, <2>2, AddedTypes DEF Added, EvictedIn
    <3>2. i \in HeldIn(added', added[i].key)
      BY <1>7, <3>1
    <3>3. added[i].key \notin gone
      BY <1>2, <3>2
    <3>4. CASE added[i].key = k
      BY <1>3, <3>1, <3>4
    <3>5. CASE added[i].key # k
      <4>1. i \in HeldIn(added, added[i].key)
        BY <1>2, <3>1, <3>2, <3>3, <3>5
      <4>2. added[i].key \in DOMAIN groups
        BY <4>1 DEF HeldIn, Held, CoalescerInv, GroupsTellTheStory
      <4>3. QED
        BY <1>3, <3>1, <3>3, <4>2
    <3>6. QED
      BY <3>4, <3>5
  <2>3. QED
    BY <1>2, <2>1, <2>2
<1>8. {added'[i].evicted : i \in DOMAIN added'} \ {0} = 1..evicted_count'
  <2>1. {added[i].evicted : i \in DOMAIN added} \ {0} = 1..evicted_count
    BY DEF CoalescerInv, GroupsTellTheStory
  <2>2. added'[Len(added) + 1].evicted = 0
    BY <1>2 DEF AddedNow
  <2>3. \A i \in DOMAIN added :
          added'[i].evicted = IF Held(i) /\ added[i].key \in gone THEN evicted_count + 1
                              ELSE added[i].evicted
    BY <1>2 DEF EvictedIn
  <2>4. \A i \in DOMAIN added : Held(i) => added[i].evicted = 0
    BY DEF Held
  <2>5. CASE gone = {}
    BY <1>2, <2>1, <2>2, <2>3, <2>5
  <2>6. CASE gone # {}
    <3>1. PICK h \in DOMAIN added : Held(h) /\ added[h].key \in gone
      BY <2>6
    <3>2. evicted_count' = evicted_count + 1
      BY <2>6
    <3>3. {added'[i].evicted : i \in DOMAIN added'} \ {0}
            = ({added[i].evicted : i \in DOMAIN added} \ {0}) \cup {evicted_count + 1}
      <4>1. \A i \in DOMAIN added :
              added'[i].evicted = added[i].evicted \/ added'[i].evicted = evicted_count + 1
        BY <2>3
      <4>2. \A i \in DOMAIN added : added[i].evicted # 0 => added'[i].evicted = added[i].evicted
        BY <2>3, <2>4
      <4>3. added'[h].evicted = evicted_count + 1 /\ evicted_count + 1 # 0
        BY <1>4, <2>3, <3>1
      <4>4. ASSUME NEW n \in {added'[i].evicted : i \in DOMAIN added'} \ {0}
            PROVE  n \in ({added[i].evicted : i \in DOMAIN added} \ {0})
                          \cup {evicted_count + 1}
        <5>1. PICK i \in DOMAIN added' : n = added'[i].evicted /\ n # 0
          OBVIOUS
        <5>2. i \in DOMAIN added
          BY <1>2, <2>2, <5>1
        <5>3. QED
          BY <4>1, <5>1, <5>2
      <4>5. ASSUME NEW n
            PROVE  n \in ({added[i].evicted : i \in DOMAIN added} \ {0})
                          \cup {evicted_count + 1}
                     => n \in {added'[i].evicted : i \in DOMAIN added'} \ {0}
        BY <1>2, <4>2, <4>3
      <4>6. QED
        BY <4>4, <4>5
    <3>4. 1..(evicted_count + 1) = 1..evicted_count \cup {evicted_count + 1}
      BY <1>4
    <3>5. QED
      BY <2>1, <3>2, <3>3, <3>4
  <2>7. QED
    BY <2>5, <2>6
<1>9. QED
  BY <1>5, <1>6, <1>7, <1>8, StoriesToldNext DEF Stories

LEMMA AddToGroupKeepsInv ==
  ASSUME CoalescerInv, NEW k \in Key, NEW at \in ObservedAt, AddToGroup(k, at)
  PROVE  CoalescerInv'
<1>1. CoalescerTypeOK /\ k \in DOMAIN groups
  BY DEF CoalescerInv, AddToGroup
<1>2. PICK after \in CoalescedGroup : after = Updated(groups[k], at)
  BY <1>1, UpdatedFields DEF CoalescerTypeOK
<1>3. added \in [1..Len(added) -> Added] /\ EvictedIn(added, {})
  BY <1>1 DEF CoalescerTypeOK, EvictedIn
<1>4. /\ added' = Append(added, AddedNow(k, at))
      /\ groups' = [g \in (DOMAIN groups \ {}) \cup {k} |-> IF g = k THEN after ELSE groups[g]]
      /\ evicted_count' = evicted_count
  <2>1. groups' = [groups EXCEPT ![k] = after]
    BY <1>2 DEF AddToGroup
  <2>2. QED
    BY <1>1, <2>1 DEF AddToGroup
<1>5. {} \in SUBSET (Key \ {k})
  OBVIOUS
<1>6. IsStory(after, HeldIn(added', k), ObservedIn(added'))
  <2>1. /\ HeldIn(added', k) = HeldIn(added, k) \cup {Len(added) + 1}
        /\ \A i \in DOMAIN added : ObservedIn(added')[i] = ObservedIn(added)[i]
        /\ ObservedIn(added')[Len(added) + 1] = at
    BY <1>1, <1>3, <1>4, <1>5, HeldAfter
  <2>2. HeldIn(added, k) \in SUBSET (1..Len(added)) /\ Len(added) \in Nat
    BY <1>1, AddedTypes DEF HeldIn
  <2>3. \A i \in HeldIn(added, k) :
          /\ ObservedIn(added)[i] \in Nat
          /\ ObservedIn(added')[i] = ObservedIn(added)[i]
    BY <1>1, <2>1, AddedTypes DEF HeldIn, ObservedIn
  <2>4. groups[k] \in CoalescedGroup /\ IsStory(groups[k], HeldIn(added, k), ObservedIn(added))
    BY <1>1, AddedTypes, StoriesTold DEF CoalescerInv, Stories
  <2>5. IsFiniteSet(HeldIn(added, k))
    BY <1>1, HeldFinite
  <2>6. PICK observed_after : observed_after = ObservedIn(added')
    OBVIOUS
  <2>7. /\ after.count = groups[k].count + 1
        /\ after.representative = groups[k].representative
        /\ after.touched = Len(added) + 1
        /\ after.first_observed_at =
             IF at < groups[k].first_observed_at THEN at ELSE groups[k].first_observed_at
        /\ after.last_observed_at =
             IF at > groups[k].last_observed_at THEN at ELSE groups[k].last_observed_at
    BY <1>1, <1>2, <2>4, UpdatedFields
  <2>8. IsStory(after, HeldIn(added, k) \cup {Len(added) + 1}, observed_after)
    <3>1. PICK held, m, observed_at, group :
            held = HeldIn(added, k) /\ m = Len(added) /\ observed_at = ObservedIn(added)
            /\ group = groups[k]
      OBVIOUS
    <3>2. /\ m \in Nat /\ held \in SUBSET (1..m) /\ IsFiniteSet(held)
          /\ group \in CoalescedGroup /\ IsStory(group, held, observed_at)
          /\ \A i \in held : observed_at[i] \in Nat /\ observed_after[i] = observed_at[i]
          /\ observed_after[m + 1] = at
      BY <2>1, <2>2, <2>3, <2>4, <2>5, <2>6, <3>1
    <3>3. /\ after.count = group.count + 1
          /\ after.representative = group.representative
          /\ after.touched = m + 1
          /\ after.first_observed_at =
               (IF at < group.first_observed_at THEN at ELSE group.first_observed_at)
          /\ after.last_observed_at =
               (IF at > group.last_observed_at THEN at ELSE group.last_observed_at)
      BY <2>7, <3>1
    <3>4. IsStory(after, held \cup {m + 1}, observed_after)
      BY <3>2, <3>3, StoryGoesOn
    <3>5. QED
      BY <3>1, <3>4
  <2>9. QED
    BY <2>1, <2>6, <2>8
<1>7. CoalescerTypeOK' /\ GroupsTellTheStory'
  BY <1>3, <1>4, <1>5, <1>6, AddKeepsStory
<1>8. EvictedOnlyForLater'
  <2>1. DOMAIN groups' = DOMAIN groups
    BY <1>1, <1>4
  <2>2. /\ DOMAIN added' = DOMAIN added \cup {Len(added) + 1}
        /\ \A i \in DOMAIN added : added'[i] = added[i]
        /\ added'[Len(added) + 1].evicted = 0
    BY <1>1, <1>3, <1>4, AddedAfter DEF AddedNow, Added
  <2>3. QED
    BY <2>1, <2>2 DEF CoalescerInv, EvictedOnlyForLater
<1>9. QED
  BY <1>7, <1>8 DEF CoalescerInv

\* A new group, in the room left by the groups gone.
LEMMA NewGroupKeepsStory ==
  ASSUME CoalescerInv, NEW k \in Key \ DOMAIN groups, NEW at \in ObservedAt,
         NEW gone \in SUBSET (Key \ {k}),
         NEW marked \in [1..Len(added) -> Added], added' = Append(marked, AddedNow(k, at)),
         EvictedIn(marked, gone),
         IF gone = {} THEN evicted_count' = evicted_count
         ELSE /\ evicted_count' = evicted_count + 1
              /\ \E i \in DOMAIN added : Held(i) /\ added[i].key \in gone,
         groups' = [g \in (DOMAIN groups \ gone) \cup {k} |->
                      IF g = k THEN NewGroup(at) ELSE groups[g]]
  PROVE  CoalescerTypeOK' /\ GroupsTellTheStory'
<1>1. CoalescerTypeOK
  BY DEF CoalescerInv
<1>2. Len(added) \in Nat /\ Len(added) + 1 \in Nat \ {0}
  BY <1>1, AddedTypes
<1>3. PICK after \in CoalescedGroup : after = NewGroup(at)
  BY <1>2 DEF NewGroup, CoalescedGroup
<1>4. /\ HeldIn(added', k) = HeldIn(added, k) \cup {Len(added) + 1}
      /\ ObservedIn(added')[Len(added) + 1] = at
  BY <1>1, HeldAfter
<1>5. HeldIn(added, k) = {}
  BY DEF HeldIn, Held, CoalescerInv, GroupsTellTheStory
<1>6. PICK m \in Nat : m = Len(added) + 1
  BY <1>2
<1>7. PICK observed_after : observed_after = ObservedIn(added')
  OBVIOUS
<1>8. after = [first_observed_at |-> at, last_observed_at |-> at, count |-> 1,
               representative |-> m, touched |-> m]
  BY <1>3, <1>6 DEF NewGroup
<1>9. IsStory(after, {m}, observed_after)
  BY <1>4, <1>6, <1>7, <1>8, StoryBegins
<1>10. IsStory(after, HeldIn(added', k), ObservedIn(added'))
  BY <1>4, <1>5, <1>6, <1>7, <1>9
<1>11. QED
  BY <1>3, <1>10, AddKeepsStory

LEMMA AddGroupKeepsInv ==
  ASSUME CoalescerInv, NEW k \in Key, NEW at \in ObservedAt, AddGroup(k, at)
  PROVE  CoalescerInv'
<1>1. CoalescerTypeOK /\ k \in Key \ DOMAIN groups
  BY DEF CoalescerInv, AddGroup
<1>2. added \in [1..Len(added) -> Added] /\ EvictedIn(added, {})
  BY <1>1 DEF CoalescerTypeOK, EvictedIn
<1>3. /\ added' = Append(added, AddedNow(k, at))
      /\ groups' = [g \in (DOMAIN groups \ {}) \cup {k} |->
                      IF g = k THEN NewGroup(at) ELSE groups[g]]
      /\ evicted_count' = evicted_count
  BY DEF AddGroup
<1>4. {} \in SUBSET (Key \ {k})
  OBVIOUS
<1>5. CoalescerTypeOK' /\ GroupsTellTheStory'
  BY <1>1, <1>2, <1>3, <1>4, NewGroupKeepsStory
<1>6. EvictedOnlyForLater'
  <2>1. DOMAIN groups' = DOMAIN groups \cup {k}
    BY <1>3
  <2>2. Cardinality(DOMAIN groups') <= MaxGroups
    <3>1. IsFiniteSet(DOMAIN groups) /\ Cardinality(DOMAIN groups) \in Nat
      BY <1>1, FS_CardinalityType DEF CoalescerTypeOK
    <3>2. Cardinality(DOMAIN groups') = Cardinality(DOMAIN groups) + 1
      BY <1>1, <2>1, <3>1, FS_AddElement
    <3>3. Cardinality(DOMAIN groups) <= MaxGroups /\ Cardinality(DOMAIN groups) # MaxGroups
      BY DEF CoalescerInv, EvictedOnlyForLater, AddGroup
    <3>4. QED
      BY <3>1, <3>2, <3>3, EnvelopeCoalescerAssumption
  <2>3. /\ DOMAIN added' = DOMAIN added \cup {Len(added) + 1}
        /\ \A i \in DOMAIN added : added'[i] = added[i]
        /\ added'[Len(added) + 1].evicted = 0
    BY <1>1, <1>2, <1>3, AddedAfter DEF AddedNow, Added
  <2>4. ASSUME NEW i \in DOMAIN added', added'[i].evicted # 0
        PROVE  \E seen \in SUBSET (Key \ {added'[i].key}) :
                 /\ Cardinality(seen) = MaxGroups
                 /\ \A g \in seen : \E j \in DOMAIN added' : i < j /\ added'[j].key = g
    <3>1. i \in DOMAIN added /\ added'[i] = added[i]
      BY <2>3, <2>4
    <3>2. PICK seen \in SUBSET (Key \ {added[i].key}) :
            /\ Cardinality(seen) = MaxGroups
            /\ \A g \in seen : \E j \in DOMAIN added : i < j /\ added[j].key = g
      BY <2>4, <3>1 DEF CoalescerInv, EvictedOnlyForLater
    <3>3. QED
      BY <2>3, <3>1, <3>2
  <2>5. QED
    BY <2>2, <2>4 DEF EvictedOnlyForLater
<1>7. QED
  BY <1>5, <1>6 DEF CoalescerInv

\* The groups that stay and the new one were all seen since the one that goes
\* was last touched.
LEMMA AddInPlaceOfKeepsInv ==
  ASSUME CoalescerInv, NEW k \in Key, NEW at \in ObservedAt, AddInPlaceOf(k, at)
  PROVE  CoalescerInv'
<1>1. CoalescerTypeOK /\ k \in Key \ DOMAIN groups
  BY DEF CoalescerInv, AddInPlaceOf
<1>2. PICK old \in DOMAIN groups :
        /\ IsLeastRecent(old)
        /\ groups' = [g \in (DOMAIN groups \ {old}) \cup {k} |->
                        IF g = k THEN NewGroup(at) ELSE groups[g]]
        /\ evicted_count' = evicted_count + 1
        /\ added' = Append([i \in DOMAIN added |->
                              IF Held(i) /\ added[i].key = old
                              THEN [added[i] EXCEPT !.evicted = evicted_count']
                              ELSE added[i]],
                           AddedNow(k, at))
  BY DEF AddInPlaceOf
<1>3. PICK marked : marked = [i \in DOMAIN added |->
                               IF Held(i) /\ added[i].key = old
                               THEN [added[i] EXCEPT !.evicted = evicted_count + 1]
                               ELSE added[i]]
  OBVIOUS
<1>4. added' = Append(marked, AddedNow(k, at))
  BY <1>2, <1>3
<1>5. evicted_count \in Nat /\ old \in Key /\ old # k
  BY <1>1 DEF CoalescerTypeOK
<1>6. marked \in [1..Len(added) -> Added] /\ EvictedIn(marked, {old})
  <2>1. DOMAIN added = 1..Len(added) /\ \A i \in DOMAIN added : added[i] \in Added
    BY <1>1, AddedTypes
  <2>2. ASSUME NEW i \in DOMAIN added
        PROVE  /\ marked[i] \in Added
               /\ marked[i].key = added[i].key
               /\ marked[i].observed_at = added[i].observed_at
               /\ marked[i].flushed = added[i].flushed
               /\ marked[i].evicted = IF Held(i) /\ added[i].key = old THEN evicted_count + 1
                                      ELSE added[i].evicted
    <3>1. added[i] \in Added /\ evicted_count + 1 \in Nat
      BY <1>5, <2>1
    <3>2. CASE Held(i) /\ added[i].key = old
      <4>1. marked[i] = [added[i] EXCEPT !.evicted = evicted_count + 1]
        BY <1>3, <3>2
      <4>2. QED
        BY <3>1, <3>2, <4>1 DEF Added
    <3>3. CASE ~ (Held(i) /\ added[i].key = old)
      <4>1. marked[i] = added[i]
        BY <1>3, <3>3
      <4>2. QED
        BY <3>1, <3>3, <4>1
    <3>4. QED
      BY <3>2, <3>3
  <2>3. DOMAIN marked = DOMAIN added /\ marked = [i \in DOMAIN marked |-> marked[i]]
    BY <1>3
  <2>4. marked \in [1..Len(added) -> Added]
    BY <2>1, <2>2, <2>3
  <2>5. QED
    BY <2>2, <2>4 DEF EvictedIn
<1>7. /\ groups[old].representative \in HeldOf(old)
      /\ \A i \in HeldOf(old) : i <= groups[old].touched
      /\ \A g \in DOMAIN groups : groups[g].touched \in HeldOf(g)
  BY DEF CoalescerInv, GroupsTellTheStory
<1>8. {old} \in SUBSET (Key \ {k}) /\ {old} # {}
  BY <1>5
<1>9. \E i \in DOMAIN added : Held(i) /\ added[i].key \in {old}
  BY <1>7 DEF HeldOf
<1>10. CoalescerTypeOK' /\ GroupsTellTheStory'
  BY <1>1, <1>2, <1>4, <1>6, <1>8, <1>9, NewGroupKeepsStory
<1>11. PICK later : later = (DOMAIN groups \ {old}) \cup {k}
  OBVIOUS
<1>12. later \in SUBSET (Key \ {old}) /\ Cardinality(later) = MaxGroups
  <2>1. IsFiniteSet(DOMAIN groups) /\ Cardinality(DOMAIN groups) = MaxGroups
    BY <1>1 DEF CoalescerTypeOK, AddInPlaceOf
  <2>2. /\ IsFiniteSet(DOMAIN groups \ {old})
        /\ Cardinality(DOMAIN groups \ {old}) = MaxGroups - 1
    BY <1>2, <2>1, FS_RemoveElement
  <2>3. k \notin DOMAIN groups \ {old}
    BY <1>1
  <2>4. Cardinality(later) = (MaxGroups - 1) + 1
    BY <1>11, <2>2, <2>3, FS_AddElement
  <2>5. later \in SUBSET (Key \ {old})
    BY <1>1, <1>5, <1>11 DEF CoalescerTypeOK
  <2>6. QED
    BY <2>4, <2>5, EnvelopeCoalescerAssumption
<1>13. /\ DOMAIN added' = DOMAIN added \cup {Len(added) + 1}
       /\ \A i \in DOMAIN added : added'[i] = marked[i] /\ added'[i].key = added[i].key
       /\ added'[Len(added) + 1].evicted = 0
       /\ added'[Len(added) + 1].key = k
       /\ \A i \in DOMAIN added : i \in Nat /\ i < Len(added) + 1
  <2>1. AddedNow(k, at) \in Added
    BY DEF AddedNow, Added
  <2>2. /\ DOMAIN added' = DOMAIN added \cup {Len(added) + 1}
        /\ \A i \in DOMAIN added : added'[i] = marked[i]
        /\ added'[Len(added) + 1] = AddedNow(k, at)
    BY <1>1, <1>4, <1>6, <2>1, AddedAfter
  <2>3. QED
    BY <1>1, <1>6, <2>2, AddedTypes DEF AddedNow, EvictedIn
<1>14. EvictedOnlyForLater'
  <2>1. Cardinality(DOMAIN groups') <= MaxGroups
    <3>1. DOMAIN groups' = later
      BY <1>2, <1>11
    <3>2. QED
      BY <1>12, <3>1, EnvelopeCoalescerAssumption
  <2>2. ASSUME NEW i \in DOMAIN added', added'[i].evicted # 0
        PROVE  \E seen \in SUBSET (Key \ {added'[i].key}) :
                 /\ Cardinality(seen) = MaxGroups
                 /\ \A g \in seen : \E j \in DOMAIN added' : i < j /\ added'[j].key = g
    <3>1. i \in DOMAIN added
      BY <1>13, <2>2
    <3>2. CASE Held(i) /\ added[i].key = old
      <4>1. \A g \in later : \E j \in DOMAIN added' : i < j /\ added'[j].key = g
        <5>1. ASSUME NEW g \in DOMAIN groups \ {old}
              PROVE  \E j \in DOMAIN added' : i < j /\ added'[j].key = g
          <6>1. i <= groups[old].touched
            BY <1>7, <3>1, <3>2 DEF HeldOf
          <6>2. groups[old].touched <= groups[g].touched
            BY <1>2 DEF IsLeastRecent
          <6>3. groups[g].touched \in DOMAIN added /\ added[groups[g].touched].key = g
            BY <1>7 DEF HeldOf
          <6>4. groups[g].touched # i
            BY <3>2, <6>3
          <6>5. groups[old].touched \in Nat /\ groups[g].touched \in Nat /\ i \in Nat
            BY <1>1, <1>2, <1>13, <3>1, AddedTypes
          <6>6. i < groups[g].touched
            BY <6>1, <6>2, <6>4, <6>5
          <6>7. QED
            BY <1>13, <6>3, <6>6
        <5>2. \E j \in DOMAIN added' : i < j /\ added'[j].key = k
          BY <1>13, <3>1
        <5>3. QED
          BY <1>11, <5>1, <5>2
      <4>2. QED
        BY <1>12, <1>13, <3>1, <3>2, <4>1
    <3>3. CASE ~ (Held(i) /\ added[i].key = old)
      <4>1. added[i].evicted # 0
        BY <1>6, <1>13, <2>2, <3>1, <3>3 DEF EvictedIn
      <4>2. PICK seen \in SUBSET (Key \ {added[i].key}) :
              /\ Cardinality(seen) = MaxGroups
              /\ \A g \in seen : \E j \in DOMAIN added : i < j /\ added[j].key = g
        BY <3>1, <4>1 DEF CoalescerInv, EvictedOnlyForLater
      <4>3. QED
        BY <1>13, <3>1, <4>2
    <3>4. QED
      BY <3>2, <3>3
  <2>3. QED
    BY <2>1, <2>2 DEF EvictedOnlyForLater
<1>15. QED
  BY <1>10, <1>14 DEF CoalescerInv

LEMMA FlushKeepsInv ==
  ASSUME CoalescerInv, Flush
  PROVE  CoalescerInv'
<1>1. CoalescerTypeOK
  BY DEF CoalescerInv
<1>2. DOMAIN groups' = {} /\ IsFiniteSet(DOMAIN groups') /\ Cardinality(DOMAIN groups') = 0
  BY FS_EmptySet DEF Flush
<1>3. DOMAIN added = 1..Len(added) /\ Len(added) \in Nat
  BY <1>1, AddedTypes
<1>4. DOMAIN added' = DOMAIN added
  BY DEF Flush
<1>5. ASSUME NEW i \in DOMAIN added
      PROVE  /\ added'[i] \in Added
             /\ added'[i].key = added[i].key
             /\ added'[i].evicted = added[i].evicted
             /\ added'[i].flushed \/ added'[i].evicted # 0
  <2>1. added[i] \in Added
    BY <1>1, AddedTypes
  <2>2. CASE Held(i)
    <3>1. added'[i] = [added[i] EXCEPT !.flushed = TRUE]
      BY <2>2 DEF Flush
    <3>2. QED
      BY <2>1, <3>1 DEF Added
  <2>3. CASE ~ Held(i)
    <3>1. added'[i] = added[i]
      BY <2>3 DEF Flush
    <3>2. QED
      BY <2>1, <2>3, <3>1 DEF Held
  <2>4. QED
    BY <2>2, <2>3
<1>6. CoalescerTypeOK'
  <2>1. added' \in [1..Len(added) -> Added]
    <3>1. added' = [i \in DOMAIN added |-> added'[i]]
      BY DEF Flush
    <3>2. QED
      BY <1>3, <1>5, <3>1
  <2>2. added' \in Seq(Added)
    BY <1>3, <2>1
  <2>3. groups' \in [DOMAIN groups' -> CoalescedGroup]
    BY <1>2 DEF Flush
  <2>4. QED
    BY <1>1, <1>2, <2>2, <2>3 DEF CoalescerTypeOK, Flush
<1>7. GroupsTellTheStory'
  <2>1. \A i \in DOMAIN added' : i \notin HeldIn(added', added'[i].key)
    BY <1>4, <1>5 DEF HeldIn
  <2>2. {added'[i].evicted : i \in DOMAIN added'} \ {0} = 1..evicted_count'
    <3>1. {added'[i].evicted : i \in DOMAIN added'} = {added[i].evicted : i \in DOMAIN added}
      BY <1>4, <1>5
    <3>2. QED
      BY <3>1 DEF CoalescerInv, GroupsTellTheStory, Flush
  <2>3. QED
    BY <1>2, <2>1, <2>2, StoriesToldNext DEF Stories
<1>8. EvictedOnlyForLater'
  BY <1>2, <1>4, <1>5, EnvelopeCoalescerAssumption
  DEF CoalescerInv, EvictedOnlyForLater
<1>9. QED
  BY <1>6, <1>7, <1>8 DEF CoalescerInv

\* The groups and the history of what was added agree, whatever the calls.
THEOREM CoalescerInvariant == EnvelopeCoalescerSpec => []CoalescerInv
<1>1. EnvelopeCoalescerInit => CoalescerInv
  <2>1. SUFFICES ASSUME EnvelopeCoalescerInit PROVE CoalescerInv
    OBVIOUS
  <2>2. DOMAIN groups = {} /\ IsFiniteSet(DOMAIN groups) /\ Cardinality(DOMAIN groups) = 0
    BY <2>1, FS_EmptySet DEF EnvelopeCoalescerInit
  <2>3. added = <<>> /\ DOMAIN added = {} /\ evicted_count = 0
    BY <2>1 DEF EnvelopeCoalescerInit
  <2>4. CoalescerTypeOK
    BY <2>1, <2>2, <2>3 DEF CoalescerTypeOK, EnvelopeCoalescerInit
  <2>5. GroupsTellTheStory
    BY <2>2, <2>3 DEF GroupsTellTheStory
  <2>6. EvictedOnlyForLater
    BY <2>2, <2>3, EnvelopeCoalescerAssumption DEF EvictedOnlyForLater
  <2>7. QED
    BY <2>4, <2>5, <2>6 DEF CoalescerInv
<1>2. CoalescerInv /\ [EnvelopeCoalescerNext]_envelopeCoalescerVars => CoalescerInv'
  <2>1. SUFFICES ASSUME CoalescerInv, [EnvelopeCoalescerNext]_envelopeCoalescerVars
                 PROVE  CoalescerInv'
    OBVIOUS
  <2>2. CASE Flush
    BY <2>1, <2>2, FlushKeepsInv
  <2>3. CASE \E k \in Key, at \in ObservedAt : Add(k, at)
    BY <2>1, <2>3, AddToGroupKeepsInv, AddGroupKeepsInv, AddInPlaceOfKeepsInv DEF Add
  <2>4. CASE UNCHANGED envelopeCoalescerVars
    <3>1. CoalescerTypeOK'
      BY <2>1, <2>4 DEF CoalescerInv, CoalescerTypeOK, envelopeCoalescerVars
    <3>2. GroupsTellTheStory'
      BY <2>1, <2>4, StoriesTold, StoriesToldNext DEF CoalescerInv, envelopeCoalescerVars
    <3>3. EvictedOnlyForLater'
      BY <2>1, <2>4 DEF CoalescerInv, EvictedOnlyForLater, envelopeCoalescerVars
    <3>4. QED
      BY <3>1, <3>2, <3>3 DEF CoalescerInv
  <2>5. QED
    BY <2>1, <2>2, <2>3, <2>4 DEF EnvelopeCoalescerNext
<1>3. QED
  BY <1>1, <1>2, PTL DEF EnvelopeCoalescerSpec

\* A group's count, bounds and representative are those of the envelopes it
\* holds, in whatever order they were observed (coalescer.py, add and flush).
THEOREM CoalescedGroupsTellTheStory == EnvelopeCoalescerSpec => []GroupsTellTheStory
<1>1. CoalescerInv => GroupsTellTheStory
  BY DEF CoalescerInv
<1>2. QED
  BY <1>1, CoalescerInvariant, PTL

\* A group is given up only for as many keys seen since as the bound allows
\* groups (coalescer.py, add).
THEOREM GroupsEvictedOnlyForLater == EnvelopeCoalescerSpec => []EvictedOnlyForLater
<1>1. CoalescerInv => EvictedOnlyForLater
  BY DEF CoalescerInv
<1>2. QED
  BY <1>1, CoalescerInvariant, PTL

-----------------------------------------------------------------------------
(***************************************************************************)
(* The capability cache                                                    *)
(***************************************************************************)

\* What a snapshot and a detection under way say of their moment: the clock
\* ran on from it by the time that passed, less what it was set back since.
IsOfAMoment(r) ==
  /\ r.checked_at \in Nat /\ r.at \in Nat /\ r.set_back \in Nat
  /\ clock - r.checked_at = (uptime - r.at) - (set_back - r.set_back)

CapabilitiesInv ==
  /\ clock \in Nat /\ uptime \in Nat /\ set_back \in Nat
  /\ cached # NotCached => IsOfAMoment(cached)
  /\ detecting # NotCached => IsOfAMoment(detecting.stamp)
  /\ AnswersAreRecent

LEMMA StepKeepsCapabilitiesInv ==
  ASSUME CapabilitiesInv, [CapabilitiesNext]_capabilityVars
  PROVE  CapabilitiesInv'
<1>1. CASE AnswerFromCache
  <2>1. /\ IsOfAMoment(cached)
        /\ clock < cached.checked_at + CacheTtl
        /\ clock \in Nat /\ uptime \in Nat /\ set_back \in Nat
    BY <1>1 DEF AnswerFromCache, StillValid, CapabilitiesInv
  <2>2. last_answer'.age < CacheTtl + last_answer'.set_back
    <3>1. uptime - cached.at < CacheTtl + (set_back - cached.set_back)
      BY <2>1, CapabilitiesAssumption DEF IsOfAMoment
    <3>2. QED
      BY <1>1, <3>1 DEF AnswerFromCache
  <2>3. AnswersAreRecent'
    BY <2>2 DEF AnswersAreRecent
  <2>4. QED
    BY <1>1, <2>3 DEF AnswerFromCache, CapabilitiesInv, IsOfAMoment
<1>2. CASE Detect
  <2>1. detecting'.stamp = Stamp
    BY <1>2 DEF Detect
  <2>2. IsOfAMoment(detecting.stamp)'
    BY <1>2, <2>1 DEF Detect, IsOfAMoment, Stamp, CapabilitiesInv
  <2>3. QED
    BY <1>2, <2>2 DEF Detect, CapabilitiesInv, IsOfAMoment, AnswersAreRecent
<1>3. CASE Store
  <2>1. /\ cached'.checked_at = detecting.stamp.checked_at
        /\ cached'.at = detecting.stamp.at
        /\ cached'.set_back = detecting.stamp.set_back
    BY <1>3 DEF Store
  <2>2. IsOfAMoment(cached)'
    BY <1>3, <2>1 DEF Store, IsOfAMoment, CapabilitiesInv
  <2>3. QED
    BY <1>3, <2>2 DEF Store, CapabilitiesInv, IsOfAMoment, AnswersAreRecent
<1>4. CASE TimePasses \/ SetClockBack
  <2>1. /\ clock' \in Nat /\ uptime' \in Nat /\ set_back' \in Nat
        /\ clock' - clock = (uptime' - uptime) - (set_back' - set_back)
        /\ UNCHANGED <<cached, detecting, last_answer>>
    BY <1>4 DEF TimePasses, SetClockBack, CapabilitiesInv
  <2>2. ASSUME NEW r, IsOfAMoment(r)
        PROVE  /\ r.checked_at \in Nat /\ r.at \in Nat /\ r.set_back \in Nat
               /\ clock' - r.checked_at = (uptime' - r.at) - (set_back' - r.set_back)
    BY <2>1, <2>2 DEF IsOfAMoment, CapabilitiesInv
  <2>3. (cached # NotCached => IsOfAMoment(cached))'
    BY <2>1, <2>2 DEF IsOfAMoment, CapabilitiesInv
  <2>4. (detecting # NotCached => IsOfAMoment(detecting.stamp))'
    BY <2>1, <2>2 DEF IsOfAMoment, CapabilitiesInv
  <2>5. AnswersAreRecent'
    BY <2>1 DEF AnswersAreRecent, CapabilitiesInv
  <2>6. QED
    BY <2>1, <2>3, <2>4, <2>5 DEF CapabilitiesInv
<1>5. CASE ProbeNothing \/ (\E c \in Probed, r \in Resource : Probe(c, r))
  <2>1. PICK states : detecting' = [detecting EXCEPT !.states = states]
    BY <1>5 DEF ProbeNothing, Probe
  <2>2. /\ detecting # NotCached
        /\ UNCHANGED <<uptime, clock, set_back, cached, last_answer>>
    BY <1>5 DEF ProbeNothing, Probe
  <2>3. detecting'.stamp = detecting.stamp
    BY <2>1
  <2>4. QED
    BY <2>2, <2>3 DEF CapabilitiesInv, IsOfAMoment, AnswersAreRecent
<1>6. CASE UNCHANGED capabilityVars
  BY <1>6 DEF capabilityVars, CapabilitiesInv, IsOfAMoment, AnswersAreRecent
<1>7. QED
  BY <1>1, <1>2, <1>3, <1>4, <1>5, <1>6 DEF CapabilitiesNext

\* What detect() answers from its cache was probed less than cache_ttl ago,
\* but for what the clock was set back since (capabilities.py, detect).
THEOREM CachedCapabilitiesAreRecent == CapabilitiesSpec => []AnswersAreRecent
<1>1. CapabilitiesInit => CapabilitiesInv
  BY CapabilitiesAssumption DEF CapabilitiesInit, CapabilitiesInv, AnswersAreRecent
<1>2. CapabilitiesInv /\ [CapabilitiesNext]_capabilityVars => CapabilitiesInv'
  BY StepKeepsCapabilitiesInv
<1>3. CapabilitiesInv => AnswersAreRecent
  BY DEF CapabilitiesInv
<1>4. QED
  BY <1>1, <1>2, <1>3, PTL DEF CapabilitiesSpec

-----------------------------------------------------------------------------
(***************************************************************************)
(* The snapshot handlers                                                   *)
(***************************************************************************)

LEMMA TableTypes ==
  ASSUME NEW s, NEW t \in Table(s)
  PROVE  /\ IsFiniteSet(DOMAIN t)
         /\ \A i \in DOMAIN t : i \in Nat /\ t[i].rank \in Nat
<1>1. PICK n \in 0..MaxRows : t \in [1..n -> RowOf(s)]
  BY DEF Table
<1>2. n \in Nat /\ DOMAIN t = 1..n
  BY <1>1, SnapshotsAssumption
<1>3. IsFiniteSet(1..n)
  BY <1>2, FS_Interval
<1>4. \A i \in 1..n : t[i] \in Row
  BY <1>1 DEF RowOf
<1>5. \A i \in 1..n : t[i].rank \in Nat
  BY <1>4, SnapshotsAssumption DEF Row
<1>6. QED
  BY <1>2, <1>3, <1>5

\* None of the rows cut off ranks before one of those kept.
LEMMA BestRankFirst ==
  ASSUME NEW s, NEW t \in Table(s), NEW rows \in SUBSET DOMAIN t, NEW n \in Nat,
         NEW i \in rows, i \notin Best(rows, n, t), NEW j \in Best(rows, n, t)
  PROVE  ~ Precedes(t, i, j)
<1>1. SUFFICES ASSUME Precedes(t, i, j) PROVE FALSE
  OBVIOUS
<1>2. PICK ahead : ahead = {k \in rows : Precedes(t, k, i)}
  OBVIOUS
<1>3. PICK aheadOfKept : aheadOfKept = {k \in rows : Precedes(t, k, j)}
  OBVIOUS
<1>4. \A k \in rows \cup {i, j} : k \in Nat /\ t[k].rank \in Nat
  BY TableTypes DEF Best
<1>5. ahead \in SUBSET aheadOfKept
  BY <1>1, <1>2, <1>3, <1>4 DEF Precedes
<1>6. IsFiniteSet(aheadOfKept)
  BY <1>3, TableTypes, FS_Subset
<1>7. IsFiniteSet(ahead) /\ Cardinality(ahead) <= Cardinality(aheadOfKept)
  BY <1>5, <1>6, FS_Subset
<1>8. Cardinality(ahead) \in Nat /\ Cardinality(aheadOfKept) \in Nat
  BY <1>6, <1>7, FS_CardinalityType
<1>9. Cardinality(aheadOfKept) < n
  BY <1>3 DEF Best
<1>10. ~ Cardinality(ahead) < n
  BY <1>2 DEF Best
<1>11. QED
  BY <1>7, <1>8, <1>9, <1>10

LEMMA PassedOver ==
  ASSUME NEW s, NEW t \in Table(s), NEW n \in Nat,
         NEW i \in Readable(t), i \notin First(Readable(t), n)
  PROVE  Cardinality({h \in Readable(t) : h < i}) >= n
<1>1. {h \in Readable(t) : h < i} \in SUBSET DOMAIN t
  BY DEF Readable
<1>2. Cardinality({h \in Readable(t) : h < i}) \in Nat
  BY <1>1, TableTypes, FS_Subset, FS_CardinalityType
<1>3. ~ Cardinality({h \in Readable(t) : h < i}) < n
  BY DEF First
<1>4. QED
  BY <1>2, <1>3

LEMMA SortedSections == Sorted \in SUBSET (Bounded \ {"services"})
<1>1. Handlers["network"] = <<"adapters", "connections">> /\ "network" \in DOMAIN Handlers
  BY DEF Handlers
<1>2. Handlers["servicing"] = <<"updates", "reboot">> /\ "servicing" \in DOMAIN Handlers
  BY DEF Handlers
<1>3. Handlers["local_ai"] = <<"gpus", "packages">> /\ "local_ai" \in DOMAIN Handlers
  BY DEF Handlers
<1>4. {"adapters", "connections"} \in SUBSET Section
  BY <1>1 DEF Section
<1>5. "updates" \in Section
  BY <1>2 DEF Section
<1>6. "packages" \in Section
  BY <1>3 DEF Section
<1>7. QED
  BY <1>4, <1>5, <1>6 DEF Sorted, Bounded

\* What a sorted section passes over, as a fact about the table alone.
LEMMA KeptRankFirst ==
  ASSUME NEW s \in Sorted, NEW t \in Table(s),
         NEW i \in InScope(Readable(t), t), i \notin Kept(s, t), NEW j \in Kept(s, t),
         Precedes(t, i, j)
  PROVE  s # "adapters" /\ Cardinality({h \in Readable(t) : h < i}) >= RawLimit[s]
<1>1. s \in Bounded /\ Limit[s] \in Nat /\ RawLimit[s] \in Nat
  BY SortedSections, SnapshotsAssumption
<1>2. i \in Readable(t) /\ t[i].inScope
  BY DEF InScope
<1>3. Readable(t) \in SUBSET DOMAIN t
  BY DEF Readable
<1>4. First(Readable(t), RawLimit[s]) \in SUBSET Readable(t)
  BY DEF First
<1>5. CASE s = "adapters"
  <2>1. Kept(s, t) = Best(Readable(t), Limit[s], t)
    BY <1>5 DEF Kept, Adapters
  <2>2. QED
    BY <1>1, <1>2, <1>3, <2>1, BestRankFirst
<1>6. CASE s \in {"updates", "packages"}
  <2>1. Kept(s, t) = Best(First(Readable(t), RawLimit[s]), Limit[s], t)
    BY <1>6 DEF Kept, Updates, Packages
  <2>2. First(Readable(t), RawLimit[s]) \in SUBSET DOMAIN t
    BY <1>3, <1>4
  <2>3. i \notin First(Readable(t), RawLimit[s])
    BY <1>1, <2>1, <2>2, BestRankFirst
  <2>4. QED
    BY <1>1, <1>2, <1>6, <2>3, PassedOver
<1>7. CASE s = "connections"
  <2>1. Kept(s, t) = Best(InScope(First(Readable(t), RawLimit[s]), t), Limit[s], t)
    BY <1>7 DEF Kept, Connections
  <2>2. InScope(First(Readable(t), RawLimit[s]), t) \in SUBSET DOMAIN t
    BY <1>3, <1>4 DEF InScope
  <2>3. i \notin InScope(First(Readable(t), RawLimit[s]), t)
    BY <1>1, <2>1, <2>2, BestRankFirst
  <2>4. i \notin First(Readable(t), RawLimit[s])
    BY <1>2, <2>3 DEF InScope
  <2>5. QED
    BY <1>1, <1>2, <1>7, <2>4, PassedOver
<1>8. QED
  BY <1>5, <1>6, <1>7 DEF Sorted

\* Fewer rows than a cut allows are all there was to cut.
LEMMA BestOfFew ==
  ASSUME NEW s, NEW t \in Table(s), NEW rows \in SUBSET DOMAIN t, NEW n \in Nat,
         Cardinality(Best(rows, n, t)) < n
  PROVE  Best(rows, n, t) = rows
<1> DEFINE R == {p \in rows \X rows : Precedes(t, p[1], p[2])}
<1>1. SUFFICES ASSUME NEW c \in rows, c \notin Best(rows, n, t) PROVE FALSE
  BY DEF Best
<1>2. IsFiniteSet(rows) /\ \A i \in rows : i \in Nat /\ t[i].rank \in Nat
  BY TableTypes, FS_Subset
<1>3. /\ \A b \in rows : <<b, b>> \notin R
      /\ \A b, d, e \in rows : <<b, d>> \in R /\ <<d, e>> \in R => <<b, e>> \in R
  BY <1>2 DEF Precedes
<1>4. \A b \in rows : Ahead(rows, R, b) = {j \in rows : Precedes(t, j, b)}
  BY DEF Ahead
<1>5. ~ (Cardinality(Ahead(rows, R, c)) < n)
  BY <1>1, <1>4 DEF Best
<1>6. n <= Cardinality({b \in rows : Cardinality(Ahead(rows, R, b)) < n})
  <2> HIDE DEF R
  <2>1. QED
    BY <1>2, <1>3, <1>5, EnoughAhead
<1>7. {b \in rows : Cardinality(Ahead(rows, R, b)) < n} = Best(rows, n, t)
  BY <1>4 DEF Best
<1>8. Cardinality(Best(rows, n, t)) \in Nat
  BY <1>2, FS_Subset, FS_CardinalityType DEF Best
<1>9. n <= Cardinality(Best(rows, n, t))
  BY <1>6, <1>7, Zenon
<1>10. QED
  BY <1>8, <1>9

LEMMA FirstOfFew ==
  ASSUME NEW s, NEW t \in Table(s), NEW rows \in SUBSET DOMAIN t, NEW n \in Nat,
         Cardinality(First(rows, n)) < n
  PROVE  First(rows, n) = rows
<1> DEFINE R == {p \in rows \X rows : p[1] < p[2]}
<1>1. SUFFICES ASSUME NEW c \in rows, c \notin First(rows, n) PROVE FALSE
  BY DEF First
<1>2. IsFiniteSet(rows) /\ \A i \in rows : i \in Nat
  BY TableTypes, FS_Subset
<1>3. /\ \A b \in rows : <<b, b>> \notin R
      /\ \A b, d, e \in rows : <<b, d>> \in R /\ <<d, e>> \in R => <<b, e>> \in R
  BY <1>2
<1>4. \A b \in rows : Ahead(rows, R, b) = {j \in rows : j < b}
  BY DEF Ahead
<1>5. ~ (Cardinality(Ahead(rows, R, c)) < n)
  BY <1>1, <1>4 DEF First
<1>6. n <= Cardinality({b \in rows : Cardinality(Ahead(rows, R, b)) < n})
  <2> HIDE DEF R
  <2>1. QED
    BY <1>2, <1>3, <1>5, EnoughAhead
<1>7. {b \in rows : Cardinality(Ahead(rows, R, b)) < n} = First(rows, n)
  BY <1>4 DEF First
<1>8. Cardinality(First(rows, n)) \in Nat
  BY <1>2, FS_Subset, FS_CardinalityType DEF First
<1>9. n <= Cardinality(First(rows, n))
  BY <1>6, <1>7, Zenon
<1>10. QED
  BY <1>8, <1>9

\* As many rows as are looked at, or fewer, are all looked at.
LEMMA FewAreAllFirst ==
  ASSUME NEW s, NEW t \in Table(s), NEW rows \in SUBSET DOMAIN t, NEW n \in Nat,
         Cardinality(rows) <= n
  PROVE  First(rows, n) = rows
<1>1. SUFFICES ASSUME NEW c \in rows PROVE c \in First(rows, n)
  BY DEF First
<1>2. PICK before : before = {j \in rows : j < c}
  OBVIOUS
<1>3. IsFiniteSet(rows) /\ c \in Nat
  BY TableTypes, FS_Subset
<1>4. before \in SUBSET rows /\ before # rows
  BY <1>2, <1>3
<1>5. Cardinality(before) \in Nat /\ Cardinality(rows) \in Nat
  BY <1>3, <1>4, FS_Subset, FS_CardinalityType
<1>6. Cardinality(before) <= Cardinality(rows) /\ Cardinality(before) # Cardinality(rows)
  BY <1>3, <1>4, FS_Subset
<1>7. Cardinality(before) < n
  BY <1>5, <1>6
<1>8. QED
  BY <1>2, <1>7 DEF First

\* What the length of a list says of the table it was read from.
LEMMA ShortIsComplete ==
  ASSUME NEW s \in Bounded, NEW t \in Table(s), Cardinality(Kept(s, t)) < Limit[s],
         s = "connections" => Cardinality(Readable(t)) <= RawLimit[s]
  PROVE  Kept(s, t) = InScope(Readable(t), t)
<1>1. /\ Limit[s] \in Nat /\ RawLimit[s] \in Nat
      /\ s \in {"connections", "packages"} => RawLimit[s] >= Limit[s]
      /\ s \notin {"connections", "packages"} => RawLimit[s] = Limit[s]
  BY SnapshotsAssumption
<1>2. Readable(t) \in SUBSET DOMAIN t
  BY DEF Readable
<1>3. IsFiniteSet(DOMAIN t)
  BY TableTypes
<1>4. s \in Sorted \cup {"processes", "devices", "drivers", "gpus"}
  BY DEF Bounded, Section, Handlers, Sorted
<1>5. s # "connections" => InScope(Readable(t), t) = Readable(t)
  <2>1. SUFFICES ASSUME s # "connections", NEW i \in Readable(t) PROVE t[i].inScope
    BY DEF InScope
  <2>2. i \in DOMAIN t
    BY <1>2
  <2>3. t[i] \in RowOf(s)
    BY <2>2 DEF Table
  <2>4. s # "reboot"
    BY DEF Bounded
  <2>5. QED
    BY <2>1, <2>3, <2>4 DEF RowOf
<1>6. PICK raw : raw = First(Readable(t), RawLimit[s])
  OBVIOUS
<1>7. raw \in SUBSET Readable(t) /\ raw \in SUBSET DOMAIN t
  BY <1>2, <1>6 DEF First
<1>8. CASE s \in {"processes", "devices", "drivers", "gpus"}
  <2>1. Kept(s, t) = First(Readable(t), Limit[s])
    BY <1>8 DEF Kept, Processes, Devices, Drivers, Gpus
  <2>2. QED
    BY <1>1, <1>2, <1>5, <1>8, <2>1, FirstOfFew
<1>9. CASE s = "adapters"
  <2>1. Kept(s, t) = Best(Readable(t), Limit[s], t)
    BY <1>9 DEF Kept, Adapters
  <2>2. QED
    BY <1>1, <1>2, <1>5, <1>9, <2>1, BestOfFew
<1>10. CASE s \in {"updates", "packages"}
  <2>1. Kept(s, t) = Best(raw, Limit[s], t)
    BY <1>6, <1>10 DEF Kept, Updates, Packages
  <2>2. Kept(s, t) = raw
    BY <1>1, <1>7, <2>1, BestOfFew
  <2>3. Cardinality(raw) \in Nat
    BY <1>3, <1>7, FS_Subset, FS_CardinalityType
  <2>4. Cardinality(raw) < RawLimit[s]
    BY <1>1, <1>10, <2>2, <2>3
  <2>5. raw = Readable(t)
    BY <1>1, <1>2, <1>6, <2>4, FirstOfFew
  <2>6. QED
    BY <1>5, <1>10, <2>2, <2>5
<1>11. CASE s = "connections"
  <2>1. Kept(s, t) = Best(InScope(raw, t), Limit[s], t)
    BY <1>6, <1>11 DEF Kept, Connections
  <2>2. InScope(raw, t) \in SUBSET DOMAIN t
    BY <1>7 DEF InScope
  <2>3. Kept(s, t) = InScope(raw, t)
    BY <1>1, <2>1, <2>2, BestOfFew
  <2>4. raw = Readable(t)
    BY <1>1, <1>2, <1>6, <1>11, FewAreAllFirst
  <2>5. QED
    BY <2>3, <2>4
<1>12. QED
  BY <1>4, <1>8, <1>9, <1>10, <1>11 DEF Sorted

SnapshotInv ==
  /\ limitations \in SUBSET {"services"}
  /\ DOMAIN facts \in SUBSET DOMAIN tables
  /\ \A s \in DOMAIN facts \ (denied \cup limitations) :
       tables[s] \in Table(s) /\ facts[s] = Kept(s, tables[s])

LEMMA AskKeepsSnapshotInv ==
  ASSUME SnapshotInv, Ask
  PROVE  SnapshotInv'
<1>0. PICK s : \E t \in Table(s) :
        /\ tables' = With(tables, s, t)
        /\ Collect(s, t) \/ DeniedConnections(s) \/ UnavailableServices(s) \/ Fail(s)
  BY DEF Ask
<1>1. PICK t \in Table(s) :
        /\ tables' = With(tables, s, t)
        /\ Collect(s, t) \/ DeniedConnections(s) \/ UnavailableServices(s) \/ Fail(s)
  BY <1>0
<1>2. /\ DOMAIN tables' = DOMAIN tables \cup {s} /\ tables'[s] = t
      /\ \A x \in DOMAIN tables : x # s => tables'[x] = tables[x]
  BY <1>1 DEF With
<1>3. limitations' \in SUBSET {"services"} /\ limitations \in SUBSET limitations'
      /\ denied \in SUBSET denied'
  BY <1>1 DEF SnapshotInv, Collect, DeniedConnections, UnavailableServices, Fail
<1>4. CASE Fail(s)
  BY <1>3, <1>4 DEF Fail, SnapshotInv
<1>5. CASE ~ Fail(s)
  <2>1. PICK v : facts' = With(facts, s, v) /\ (s \notin denied' \cup limitations' => v = Kept(s, t))
    BY <1>1, <1>5 DEF Collect, DeniedConnections, UnavailableServices
  <2>2. /\ DOMAIN facts' = DOMAIN facts \cup {s} /\ facts'[s] = v
        /\ \A x \in DOMAIN facts : x # s => facts'[x] = facts[x]
    BY <2>1 DEF With
  <2>3. ASSUME NEW x \in DOMAIN facts' \ (denied' \cup limitations')
        PROVE  tables'[x] \in Table(x) /\ facts'[x] = Kept(x, tables'[x])
    <3>1. CASE x = s
      BY <1>2, <2>1, <2>2, <2>3, <3>1
    <3>2. CASE x # s
      <4>1. tables'[x] = tables[x]
        BY <1>1, <1>2, <2>2, <2>3, <3>2 DEF SnapshotInv
      <4>2. QED
        BY <1>3, <2>2, <2>3, <3>2, <4>1 DEF SnapshotInv
    <3>3. QED
      BY <3>1, <3>2
  <2>4. DOMAIN facts' \in SUBSET DOMAIN tables'
    BY <1>2, <2>2 DEF SnapshotInv
  <2>5. QED
    BY <1>3, <2>3, <2>4 DEF SnapshotInv
<1>6. QED
  BY <1>4, <1>5

LEMMA SnapshotHolds == SnapshotSpec => []SnapshotInv
<1>1. SnapshotInit => SnapshotInv
  BY DEF SnapshotInit, SnapshotInv
<1>2. SnapshotInv /\ [SnapshotNext]_snapshotVars => SnapshotInv'
  <2>1. SUFFICES ASSUME SnapshotInv, [SnapshotNext]_snapshotVars PROVE SnapshotInv'
    OBVIOUS
  <2>2. CASE Ask
    BY <2>1, <2>2, AskKeepsSnapshotInv
  <2>3. CASE Emit \/ UNCHANGED snapshotVars
    BY <2>1, <2>3 DEF Emit, snapshotVars, SnapshotInv
  <2>4. QED
    BY <2>1, <2>2, <2>3 DEF SnapshotNext
<1>3. QED
  BY <1>1, <1>2, PTL DEF SnapshotSpec

\* Among the rows a sorted section got to, none is passed over for one that
\* ranks behind it (packs/network/connections.py, adapters.py,
\* packs/servicing/history.py, packs/local_ai/packages.py).
THEOREM SnapshotsKeepTheBest == SnapshotSpec => []OutrankedOnlyBehindRawLimit
<1>1. SnapshotInv => OutrankedOnlyBehindRawLimit
  <2>1. SUFFICES ASSUME SnapshotInv, NEW s \in (Emitted \cap Sorted) \ denied,
                        NEW i \in InScope(Readable(tables[s]), tables[s]) \ facts[s],
                        NEW j \in facts[s], Precedes(tables[s], i, j)
                 PROVE  /\ s # "adapters"
                        /\ Cardinality({h \in Readable(tables[s]) : h < i}) >= RawLimit[s]
    BY DEF OutrankedOnlyBehindRawLimit
  <2>2. s \in DOMAIN facts \ (denied \cup limitations)
    BY <2>1, SortedSections DEF Emitted, SnapshotInv
  <2>3. tables[s] \in Table(s) /\ facts[s] = Kept(s, tables[s])
    BY <2>1, <2>2 DEF SnapshotInv
  <2>4. QED
    BY <2>1, <2>3, KeptRankFirst
<1>2. QED
  BY <1>1, SnapshotHolds, PTL

\* No list says that it was cut, and none has to: one shorter than its limit is
\* all there was in scope, the endpoints excepted that the machine refused or
\* of which it had more than the handler looks at (packs/runtime.py,
\* packs/network/connections.py, packs/local_ai/packages.py).
THEOREM ShortListsAreComplete == SnapshotSpec => []ShortMeansComplete
<1>1. SnapshotInv => ShortMeansComplete
  <2>1. SUFFICES ASSUME SnapshotInv, NEW s \in (Emitted \cap Bounded) \ denied,
                        NEW t, t = tables[s], Cardinality(facts[s]) < Limit[s],
                        s = "connections" => Cardinality(Readable(t)) <= RawLimit[s]
                 PROVE  facts[s] = InScope(Readable(t), t)
    BY DEF ShortMeansComplete
  <2>2. s \in DOMAIN facts \ (denied \cup limitations)
    BY <2>1 DEF Emitted, SnapshotInv, Bounded
  <2>3. t \in Table(s) /\ facts[s] = Kept(s, t)
    BY <2>1, <2>2 DEF SnapshotInv
  <2>4. QED
    BY <2>1, <2>3, ShortIsComplete
<1>2. QED
  BY <1>1, SnapshotHolds, PTL

-----------------------------------------------------------------------------
(***************************************************************************)
(* The logs                                                                *)
(***************************************************************************)

LogInv ==
  /\ \E n \in Nat : DOMAIN log = 1..n
  /\ \A i \in DOMAIN log : log[i].word \in SUBSET {1, 2} /\ log[i].bang \in SUBSET {1, 2}
  /\ format \in {"setupapi", "servicing"}
  /\ format = "setupapi" => \A i \in DOMAIN log : log[i].word = {}
  /\ next_offset \in Nat
  /\ AttributedToItsSection

\* An increment is a piece without holes; what it shows is reported, or an
\* exception leaves the parser.
LEMMA ReadsAPiece ==
  ASSUME LogInv, ReadIncrement
  PROVE  \E m, n \in Nat :
           /\ next_offset' \in Nat
           /\ increments' = increments \cup {m..n}
           /\ UNCHANGED <<format, log>>
           /\ \/ ~ Raises(m..n) /\ entries' = entries \cup Parsed(m..n)
              \/ Raises(m..n) /\ entries' = entries
<1>1. PICK written \in next_offset..(2 * Len(log)), max_bytes \in 1..MaxCells :
        \E end_offset \in {IF next_offset + max_bytes < written
                            THEN next_offset + max_bytes ELSE written} :
          \E chunk \in {(next_offset + 1)..end_offset} :
            /\ \/ ~ Raises(chunk) /\ next_offset' = end_offset
                  /\ entries' = entries \cup Parsed(chunk)
               \/ Raises(chunk) /\ UNCHANGED <<next_offset, entries>>
            /\ increments' = increments \cup {chunk}
            /\ UNCHANGED <<format, log>>
  BY DEF ReadIncrement
<1>2. next_offset \in Nat /\ written \in Nat /\ next_offset + max_bytes \in Nat
      /\ next_offset + 1 \in Nat
  BY DEF LogInv
<1>3. QED
  BY <1>1, <1>2

\* The section an error is put under is the one of the last device-install
\* header before it: the increment holds the header and, having no holes, all
\* that is between the two.
LEMMA UnderItsHeading ==
  ASSUME LogInv, format = "setupapi", NEW m \in Nat, NEW n \in Nat,
         NEW h \in HeadersIn(m..n), NEW i \in ErrorsUnder(h, m..n)
  PROVE  IsError(i) /\ Heading(i) = {h}
<1>1. /\ h \in DOMAIN log /\ h \in Nat /\ IsHeader(h)
      /\ Fragment(h, m..n) = {1, 2}
  BY DEF LogInv, HeadersIn, MatchesHeader
<1>2. /\ i \in DOMAIN log /\ i \in Nat /\ h < i /\ Leads(i, m..n)
      /\ ~ \E g \in HeadersIn(m..n) : h < g /\ g < i
      /\ log[i].bang \in SUBSET {1, 2}
  BY DEF LogInv, ErrorsUnder, ErrorsIn, LooksLikeError
<1>3. /\ Fragment(i, m..n) \in SUBSET {1, 2}
      /\ log[i].bang # {} /\ log[i].bang \in SUBSET Fragment(i, m..n)
      /\ \A c \in Fragment(i, m..n) : \E k \in log[i].bang : k <= c
  BY <1>2 DEF Leads, Fragment
<1>4. Cell(h, 1) \in m..n
  <2>1. 1 \in Fragment(h, m..n)
    BY <1>1
  <2>2. QED
    BY <2>1 DEF Fragment
<1>5. PICK c \in {1, 2} : Cell(i, c) \in m..n
  BY <1>3 DEF Fragment
<1>6. ASSUME NEW g \in (h + 1)..(i - 1)
      PROVE  Fragment(g, m..n) = {1, 2}
  <2>1. g \in Nat /\ h + 1 <= g /\ g + 1 <= i
    BY <1>1, <1>2
  <2>2. /\ m <= 2 * (h - 1) + 1
        /\ 2 * (i - 1) + c <= n
    BY <1>1, <1>2, <1>4, <1>5 DEF Cell
  <2>3. 2 * (g - 1) + 1 \in m..n /\ 2 * (g - 1) + 2 \in m..n
    BY <1>1, <1>2, <1>5, <2>1, <2>2
  <2>4. QED
    BY <2>3 DEF Cell, Fragment
<1>7. 1 \in Fragment(i, m..n)
  BY <1>1, <1>2, <1>4, <1>5 DEF Cell, Fragment
<1>8. 1 \in log[i].bang
  <2>1. PICK k \in log[i].bang : k <= 1
    BY <1>3, <1>7
  <2>2. k = 1
    BY <1>2, <2>1
  <2>3. QED
    BY <2>1, <2>2
<1>9. \A g \in (h + 1)..(i - 1) : g \in DOMAIN log => ~ IsHeader(g)
  BY <1>1, <1>2, <1>6 DEF HeadersIn, MatchesHeader
<1>10. \A g \in (h + 1)..(i - 1) : g \in DOMAIN log
  BY <1>1, <1>2 DEF LogInv
<1>11. h \in Heading(i)
  <2>1. h \in 1..(i - 1)
    BY <1>1, <1>2 DEF LogInv
  <2>2. IsHeader(h) /\ \A g \in (h + 1)..(i - 1) : ~ IsHeader(g)
    BY <1>1, <1>9, <1>10
  <2>3. QED
    BY <2>1, <2>2, Zenon DEF Heading
<1>12. ASSUME NEW g \in Heading(i) PROVE g = h
  <2>1. g \in 1..(i - 1) /\ IsHeader(g) /\ \A f \in (g + 1)..(i - 1) : ~ IsHeader(f)
    BY <1>12 DEF Heading
  <2>2. ~ g < h
    BY <1>1, <1>2, <2>1
  <2>3. ~ h < g
    BY <1>1, <1>2, <1>9, <1>10, <2>1
  <2>4. QED
    BY <1>1, <1>2, <2>1, <2>2, <2>3
<1>13. IsError(i)
  BY <1>8 DEF IsError
<1>14. QED
  BY <1>11, <1>12, <1>13

\* What the servicing parser takes for an error is one, or the end of a line
\* cut before its "!!!".
LEMMA FoundInServicing ==
  ASSUME LogInv, NEW chunk, NEW i \in ErrorsIn(chunk)
  PROVE  IsError(i) \/ (2 \in log[i].bang /\ Fragment(i, chunk) = {2})
<1>1. i \in DOMAIN log /\ log[i].bang \in SUBSET {1, 2} /\ LooksLikeError(i, chunk)
  BY DEF LogInv, ErrorsIn
<1>2. CASE log[i].word # {} \/ 1 \in log[i].bang
  BY <1>2 DEF IsError
<1>3. CASE log[i].word = {} /\ 1 \notin log[i].bang
  <2>1. Leads(i, chunk)
    BY <1>1, <1>3 DEF LooksLikeError
  <2>2. log[i].bang = {2}
    BY <1>1, <1>3, <2>1 DEF Leads
  <2>3. 2 \in Fragment(i, chunk) /\ 1 \notin Fragment(i, chunk)
    BY <2>1, <2>2 DEF Leads
  <2>4. Fragment(i, chunk) \in SUBSET {1, 2}
    BY DEF Fragment
  <2>5. QED
    BY <2>2, <2>3, <2>4
<1>4. QED
  BY <1>2, <1>3

LEMMA LogHolds == LogSpec => []LogInv
<1>1. LogInit => LogInv
  <2>1. SUFFICES ASSUME LogInit PROVE LogInv
    OBVIOUS
  <2>2. PICK n \in 0..MaxLines : log \in [1..n -> Line]
    BY <2>1 DEF LogInit
  <2>3. n \in Nat /\ DOMAIN log = 1..n /\ \A i \in DOMAIN log : log[i] \in Line
    BY <2>2, LogIncrementsAssumption
  <2>4. \A i \in DOMAIN log : log[i].word \in SUBSET {1, 2} /\ log[i].bang \in SUBSET {1, 2}
    BY <2>3 DEF Line
  <2>5. /\ format \in {"setupapi", "servicing"} /\ next_offset \in Nat
        /\ format = "setupapi" => \A i \in DOMAIN log : log[i].word = {}
        /\ AttributedToItsSection
    BY <2>1 DEF LogInit, AttributedToItsSection
  <2>6. QED
    BY <2>3, <2>4, <2>5 DEF LogInv
<1>2. LogInv /\ [LogNext]_logVars => LogInv'
  <2>1. SUFFICES ASSUME LogInv, [LogNext]_logVars PROVE LogInv'
    OBVIOUS
  <2>2. CASE ReadIncrement
    <3>1. PICK m \in Nat, n \in Nat :
            /\ next_offset' \in Nat
            /\ increments' = increments \cup {m..n}
            /\ UNCHANGED <<format, log>>
            /\ entries' = entries \/ entries' = entries \cup Parsed(m..n)
      BY <2>1, <2>2, ReadsAPiece
    <3>2. /\ \A i : IsError(i)' = IsError(i)
          /\ \A i : Heading(i)' = Heading(i)
      BY <3>1 DEF IsError, Heading, IsHeader
    <3>3. \A i : CutBeforeBang(i) => CutBeforeBang(i)'
      BY <3>1 DEF CutBeforeBang, Fragment
    <3>4. ASSUME NEW e \in Parsed(m..n)
          PROVE  \/ format = "setupapi" /\ IsError(e.line) /\ Heading(e.line) = {e.header}
                 \/ format = "servicing" /\ (IsError(e.line) \/ CutBeforeBang(e.line)')
      <4>1. CASE format = "setupapi"
        <5>1. e \in SetupApiIncrement(m..n)
          BY <4>1 DEF Parsed
        <5>2. PICK h \in HeadersIn(m..n) :
                \E i \in ErrorsUnder(h, m..n) : e = [line |-> i, header |-> h]
          BY <5>1 DEF SetupApiIncrement, FirstLines
        <5>3. PICK i \in ErrorsUnder(h, m..n) : e = [line |-> i, header |-> h]
          BY <5>2
        <5>4. IsError(i) /\ Heading(i) = {h}
          BY <2>1, <4>1, UnderItsHeading
        <5>5. QED
          BY <4>1, <5>3, <5>4
      <4>2. CASE format = "servicing"
        <5>1. e \in ServicingLogIncrement(m..n)
          BY <4>2 DEF Parsed
        <5>2. PICK i \in ErrorsIn(m..n) : e = [line |-> i, header |-> NoHeader]
          BY <5>1 DEF ServicingLogIncrement, FirstLines
        <5>3. IsError(i) \/ (2 \in log[i].bang /\ Fragment(i, m..n) = {2})
          BY <2>1, FoundInServicing
        <5>4. IsError(i) \/ CutBeforeBang(i)'
          BY <3>1, <5>3 DEF CutBeforeBang, Fragment
        <5>5. QED
          BY <4>2, <5>2, <5>4
      <4>3. QED
        BY <2>1, <4>1, <4>2 DEF LogInv
    <3>5. ASSUME NEW e \in entries'
          PROVE  \/ format' = "setupapi" /\ IsError(e.line)' /\ Heading(e.line)' = {e.header}
                 \/ format' = "servicing" /\ (IsError(e.line)' \/ CutBeforeBang(e.line)')
      <4>1. CASE e \in entries
        BY <2>1, <3>1, <3>2, <3>3, <4>1 DEF LogInv, AttributedToItsSection
      <4>2. CASE e \in Parsed(m..n)
        BY <3>1, <3>2, <3>4, <4>2
      <4>3. QED
        BY <3>1, <4>1, <4>2
    <3>6. AttributedToItsSection'
      BY <3>5 DEF AttributedToItsSection
    <3>7. QED
      BY <2>1, <3>1, <3>6 DEF LogInv
  <2>3. CASE UNCHANGED logVars
    BY <2>1, <2>3 DEF LogInv, logVars, AttributedToItsSection, IsError, Heading, IsHeader,
                      CutBeforeBang, Fragment
  <2>4. QED
    BY <2>1, <2>2, <2>3 DEF LogNext
<1>3. QED
  BY <1>1, <1>2, PTL DEF LogSpec

\* Every error reported of the setup log goes to the last device-install
\* header before it, wherever the increments were cut (setupapi.py:37-57), and
\* of the servicing log only errors are reported and lines cut before a "!!!"
\* (logs.py:26-30).
THEOREM ErrorsKeepTheirSection == LogSpec => []AttributedToItsSection
<1>1. LogInv => AttributedToItsSection
  BY DEF LogInv
<1>2. QED
  BY <1>1, LogHolds, PTL

\* What was read is in pieces without holes, and what each piece shows was
\* reported, unless the parser raised.
ParsedInv ==
  /\ format = "servicing" => \A i \in DOMAIN log : ~ IsHeader(i)
  /\ \A chunk \in increments : /\ \E m, n \in Nat : chunk = m..n
                               /\ Raises(chunk) \/ Parsed(chunk) \in SUBSET entries

LEMMA ParsedAgain ==
  ASSUME UNCHANGED <<format, log>>, NEW chunk
  PROVE  Parsed(chunk)' = Parsed(chunk) /\ Raises(chunk)' = Raises(chunk)
<1>1. \A i : IsHeader(i)' = IsHeader(i) /\ LooksLikeError(i, chunk)' = LooksLikeError(i, chunk)
  BY DEF IsHeader, LooksLikeError, Leads, Fragment
<1>2. /\ HeadersIn(chunk)' = HeadersIn(chunk)
      /\ ErrorsIn(chunk)' = ErrorsIn(chunk)
  BY <1>1 DEF HeadersIn, ErrorsIn, MatchesHeader, Fragment
<1>3. \A h : ErrorsUnder(h, chunk)' = ErrorsUnder(h, chunk)
  BY <1>2 DEF ErrorsUnder
<1>4. QED
  BY <1>2, <1>3 DEF Parsed, Raises, SetupApiIncrement, ServicingLogIncrement

LEMMA ParsedHolds == LogSpec => [](LogInv /\ ParsedInv)
<1>1. LogInit => ParsedInv
  BY DEF LogInit, ParsedInv, IsHeader
<1>2. LogInv /\ ParsedInv /\ [LogNext]_logVars => ParsedInv'
  <2>1. SUFFICES ASSUME LogInv, ParsedInv, [LogNext]_logVars PROVE ParsedInv'
    OBVIOUS
  <2>2. CASE ReadIncrement
    <3>1. PICK m \in Nat, n \in Nat :
            /\ increments' = increments \cup {m..n}
            /\ UNCHANGED <<format, log>>
            /\ \/ ~ Raises(m..n) /\ entries' = entries \cup Parsed(m..n)
               \/ Raises(m..n) /\ entries' = entries
      BY <2>1, <2>2, ReadsAPiece
    <3>2. \A chunk : Parsed(chunk)' = Parsed(chunk) /\ Raises(chunk)' = Raises(chunk)
      BY <3>1, ParsedAgain
    <3>3. ASSUME NEW chunk \in increments'
          PROVE  /\ \E a, b \in Nat : chunk = a..b
                 /\ Raises(chunk) \/ Parsed(chunk) \in SUBSET entries'
      <4>1. CASE chunk \in increments
        BY <2>1, <3>1, <4>1 DEF ParsedInv
      <4>2. CASE chunk = m..n
        BY <3>1, <4>2
      <4>3. QED
        BY <3>1, <4>1, <4>2
    <3>4. QED
      BY <2>1, <3>1, <3>2, <3>3 DEF ParsedInv, IsHeader
  <2>3. CASE UNCHANGED logVars
    <3>1. log' = log /\ format' = format /\ entries' = entries /\ increments' = increments
      BY <2>3 DEF logVars
    <3>2. \A chunk : Parsed(chunk)' = Parsed(chunk) /\ Raises(chunk)' = Raises(chunk)
      BY <3>1, ParsedAgain
    <3>3. QED
      BY <2>1, <3>1, <3>2 DEF ParsedInv, IsHeader
  <2>4. QED
    BY <2>1, <2>2, <2>3 DEF LogNext
<1>3. QED
  BY <1>1, <1>2, LogHolds, PTL DEF LogSpec

\* An error that a piece carries is one of those the parser finds, in the setup
\* log under its device.
LEMMA CarriedIsFound ==
  ASSUME LogInv, NEW m \in Nat, NEW n \in Nat, NEW i \in DOMAIN log, Carries(m..n, i)
  PROVE  /\ i \in ErrorsIn(m..n)
         /\ format = "setupapi" =>
              \E h \in Heading(i) : h \in HeadersIn(m..n) /\ i \in ErrorsUnder(h, m..n)
<1>1. /\ i \in Nat /\ 1 <= i
      /\ log[i].bang \in SUBSET {1, 2} /\ log[i].word \in SUBSET {1, 2}
  BY DEF LogInv
<1>2. \/ 1 \in log[i].bang /\ log[i].bang \in SUBSET Fragment(i, m..n)
      \/ log[i].word # {} /\ log[i].word \in SUBSET Fragment(i, m..n)
  BY <1>1 DEF Carries, Fragment
<1>3. \A c \in Fragment(i, m..n) : 1 <= c
  BY DEF Fragment
<1>4. i \in ErrorsIn(m..n)
  <2>1. CASE 1 \in log[i].bang /\ log[i].bang \in SUBSET Fragment(i, m..n)
    BY <1>3, <2>1 DEF ErrorsIn, LooksLikeError, Leads
  <2>2. CASE log[i].word # {} /\ log[i].word \in SUBSET Fragment(i, m..n)
    BY <2>2 DEF LogInv, ErrorsIn, LooksLikeError
  <2>3. QED
    BY <1>2, <2>1, <2>2
<1>5. ASSUME format = "setupapi"
      PROVE  \E h \in Heading(i) : h \in HeadersIn(m..n) /\ i \in ErrorsUnder(h, m..n)
  <2>1. PICK h \in Heading(i) : Cell(h, 1)..Cell(i, 1) \in SUBSET (m..n)
    BY <1>5 DEF Carries
  <2>2. /\ h \in 1..(i - 1) /\ IsHeader(h)
        /\ \A g \in (h + 1)..(i - 1) : ~ IsHeader(g)
    BY DEF Heading
  <2>3. h \in DOMAIN log /\ h \in Nat /\ h < i
    BY <1>1, <2>2 DEF LogInv
  <2>4. Cell(h, 1) \in m..n /\ Cell(h, 2) \in m..n
    <3>1. Cell(h, 1) \in Cell(h, 1)..Cell(i, 1) /\ Cell(h, 2) \in Cell(h, 1)..Cell(i, 1)
      BY <1>1, <2>3 DEF Cell
    <3>2. QED
      BY <2>1, <3>1
  <2>5. Fragment(h, m..n) = {1, 2}
    BY <2>4 DEF Fragment
  <2>6. h \in HeadersIn(m..n)
    BY <2>2, <2>3, <2>5 DEF HeadersIn, MatchesHeader
  <2>7. ASSUME NEW g \in HeadersIn(m..n), h < g, g < i PROVE FALSE
    <3>1. g \in DOMAIN log /\ IsHeader(g)
      BY <2>7 DEF HeadersIn, MatchesHeader
    <3>2. g \in (h + 1)..(i - 1)
      BY <1>1, <2>3, <2>7, <3>1 DEF LogInv
    <3>3. QED
      BY <2>2, <3>1, <3>2
  <2>8. i \in ErrorsUnder(h, m..n)
    BY <1>4, <2>3, <2>7 DEF ErrorsUnder
  <2>9. QED
    BY <2>6, <2>8
<1>6. QED
  BY <1>4, <1>5

\* Of lines that look like errors and have one heading, the one at i is among
\* the first, or as many as are kept come before it.
LEMMA FirstOrCrowdedOut ==
  ASSUME LogInv, NEW chunk, NEW lines \in SUBSET DOMAIN log, NEW i \in lines,
         \A j \in lines : LooksLikeError(j, chunk) /\ Heading(j) = Heading(i)
  PROVE  \/ i \in FirstLines(lines, MaxErrors)
         \/ MaxErrors <= Cardinality(Competing(i, chunk))
<1>1. PICK size \in Nat : DOMAIN log = 1..size
  BY DEF LogInv
<1>2. i \in Nat /\ MaxErrors \in Nat
  BY <1>1, LogIncrementsAssumption
<1>3. PICK crowd : crowd = Competing(i, chunk)
  OBVIOUS
<1>4. PICK before : before = {j \in lines : j < i}
  OBVIOUS
<1>5. before \in SUBSET crowd
  BY <1>1, <1>2, <1>3, <1>4 DEF Competing
<1>6. IsFiniteSet(crowd)
  <2>1. IsFiniteSet(1..(i - 1))
    BY <1>2, FS_Interval
  <2>2. QED
    BY <1>3, <2>1, FS_Subset DEF Competing
<1>7. /\ IsFiniteSet(before) /\ Cardinality(before) <= Cardinality(crowd)
      /\ Cardinality(before) \in Nat /\ Cardinality(crowd) \in Nat
  BY <1>5, <1>6, FS_Subset, FS_CardinalityType
<1>8. i \in FirstLines(lines, MaxErrors) <=> Cardinality(before) < MaxErrors
  BY <1>4 DEF FirstLines
<1>9. QED
  BY <1>2, <1>3, <1>7, <1>8

\* An error is lost only for one of three reasons: a cut, more lines that look
\* like errors than are kept, or a device the increment's entry rejects
\* (setupapi.py:24-70, logs.py:14-35).
THEOREM ErrorsAreLostForAReason == LogSpec => []LostForAReason
<1>1. LogInv /\ ParsedInv => LostForAReason
  <2>1. SUFFICES ASSUME LogInv, ParsedInv, NEW chunk \in increments, NEW i \in DOMAIN log,
                        Carries(chunk, i),
                        ~ \E h \in DOMAIN log : /\ log[h].opens = "unnamed"
                                                /\ {Cell(h, 1), Cell(h, 2)} \in SUBSET chunk
                 PROVE  \/ \E e \in entries : e.line = i
                        \/ MaxErrors <= Cardinality(Competing(i, chunk))
    BY DEF LostForAReason
  <2>2. PICK m \in Nat, n \in Nat : chunk = m..n
    BY <2>1 DEF ParsedInv
  <2>3. ~ Raises(chunk)
    <3>1. ASSUME NEW h \in HeadersIn(chunk), log[h].opens = "unnamed" PROVE FALSE
      <4>1. h \in DOMAIN log /\ Fragment(h, chunk) = {1, 2}
        BY DEF HeadersIn, MatchesHeader
      <4>2. 1 \in Fragment(h, chunk) /\ 2 \in Fragment(h, chunk)
        BY <4>1
      <4>3. Cell(h, 1) \in chunk /\ Cell(h, 2) \in chunk
        BY <4>2 DEF Fragment
      <4>4. QED
        BY <2>1, <3>1, <4>1, <4>3
    <3>2. QED
      BY <3>1 DEF Raises
  <2>4. Parsed(chunk) \in SUBSET entries
    BY <2>1, <2>3 DEF ParsedInv
  <2>5. CASE format = "setupapi"
    <3>1. PICK h \in Heading(i) : h \in HeadersIn(m..n) /\ i \in ErrorsUnder(h, m..n)
      BY <2>1, <2>2, <2>5, CarriedIsFound
    <3>2. \A j \in ErrorsUnder(h, m..n) : Heading(j) = {h}
      BY <2>1, <2>5, <3>1, UnderItsHeading
    <3>3. \A j \in ErrorsUnder(h, m..n) : j \in DOMAIN log /\ LooksLikeError(j, m..n)
      BY DEF ErrorsUnder, ErrorsIn
    <3>4. CASE i \in FirstLines(ErrorsUnder(h, m..n), MaxErrors)
      <4>1. [line |-> i, header |-> h] \in Parsed(chunk)
        BY <2>2, <2>5, <3>1, <3>4 DEF Parsed, SetupApiIncrement
      <4>2. QED
        BY <2>4, <4>1
    <3>5. PICK lines : lines = ErrorsUnder(h, m..n)
      OBVIOUS
    <3>6. lines \in SUBSET DOMAIN log /\ i \in lines
      BY <3>1, <3>3, <3>5
    <3>7. \A j \in lines : LooksLikeError(j, chunk) /\ Heading(j) = Heading(i)
      BY <2>1, <2>2, <3>1, <3>2, <3>3, <3>5
    <3>8. \/ i \in FirstLines(lines, MaxErrors)
          \/ MaxErrors <= Cardinality(Competing(i, chunk))
      BY <2>1, <3>6, <3>7, FirstOrCrowdedOut
    <3>9. QED
      BY <3>4, <3>5, <3>8
  <2>6. CASE format = "servicing"
    <3>1. i \in ErrorsIn(m..n)
      BY <2>1, <2>2, CarriedIsFound
    <3>2. ASSUME NEW j \in DOMAIN log PROVE Heading(j) = {}
      <4>1. \A h \in 1..(j - 1) : h \in DOMAIN log
        BY <2>1 DEF LogInv
      <4>2. QED
        BY <2>1, <2>6, <4>1 DEF ParsedInv, Heading
    <3>3. \A j \in ErrorsIn(m..n) : j \in DOMAIN log /\ LooksLikeError(j, m..n)
      BY DEF ErrorsIn
    <3>4. CASE i \in FirstLines(ErrorsIn(m..n), MaxErrors)
      <4>1. [line |-> i, header |-> NoHeader] \in Parsed(chunk)
        BY <2>2, <2>6, <3>4 DEF Parsed, ServicingLogIncrement
      <4>2. QED
        BY <2>4, <4>1
    <3>5. PICK lines : lines = ErrorsIn(m..n)
      OBVIOUS
    <3>6. lines \in SUBSET DOMAIN log /\ i \in lines
      BY <3>1, <3>3, <3>5
    <3>7. \A j \in lines : LooksLikeError(j, chunk) /\ Heading(j) = Heading(i)
      BY <2>1, <2>2, <3>1, <3>2, <3>3, <3>5
    <3>8. \/ i \in FirstLines(lines, MaxErrors)
          \/ MaxErrors <= Cardinality(Competing(i, chunk))
      BY <2>1, <3>6, <3>7, FirstOrCrowdedOut
    <3>9. QED
      BY <3>4, <3>5, <3>8
  <2>7. QED
    BY <2>1, <2>5, <2>6 DEF LogInv
<1>2. QED
  BY <1>1, ParsedHolds, PTL
=============================================================================
