----------------------- MODULE AQHTTPConnectionProofs -----------------------
(***************************************************************************)
(* What the two threads in the handler share, and what the lock and the    *)
(* completion blocks protect, for any number of requests: fragments are    *)
(* taken in order, no timer runs against an operation, and the document    *)
(* root waits for the operations it found.                                 *)
(***************************************************************************)
EXTENDS AQHTTPConnection, SequenceTheorems, TLAPS

(* The reader's own path: between recv() and -appendData: it alone has     *)
(* the chunk, and nobody else has one.                                     *)
ReadInv ==
    /\ arrived \in 0..(2 * Requests)
    /\ received \in 0..arrived
    /\ reader \in Seq(Fragments) /\ chunk \in Seq(Fragments)
    /\ consumed \in Seq(Fragments)
    /\ DOMAIN pc = Handlers
    /\ pc["reader"] # "append" => chunk = << >>
    /\ FragmentsInOrder

MessageTypes ==
    /\ msg \in [Handlers -> Seq(Fragments)]
    /\ incoming \in Seq(Fragments)

QueueTypes ==
    /\ ops \in Seq(Operations)
    /\ opState \in {"waiting", "running", "hung", "finished"}
    /\ Len(added) \in Nat
    /\ finished \in Nat /\ barrier \in Nat
    /\ rootBlocks \in Nat

(* The operations that were added are those that have finished and those   *)
(* in the queue, but for the first between its end and its removal.        *)
QueueInv ==
    /\ opState # "waiting" => Len(ops) > 0
    /\ timer = "armed" => Len(ops) = 0
    /\ finished = Len(added) - Len(ops) + (IF opState = "finished" THEN 1 ELSE 0)

(* An operation that carries the block of -setDocumentRoot: is not before  *)
(* the last one the setter found, and the block runs after it.             *)
RootInv ==
    /\ rootCaller # "done" =>
           rootBlocks = 0 /\ \A i \in 1..Len(ops) : ops[i].block # "root"
    /\ barrier <= Len(added)
    /\ \A i \in 1..Len(ops) :
           ops[i].block = "root" => Len(added) - Len(ops) + i >= barrier
    /\ rootBlocks > 0 \/ rootCaller = "now" => finished >= barrier

CountInv == QueueTypes /\ QueueInv /\ RootInv

IInv == ReadInv /\ MessageTypes /\ CountInv
-----------------------------------------------------------------------------
(* Sequences. *)

LEMMA EmptyIsZero ==
    ASSUME NEW S, NEW s \in Seq(S)
    PROVE  Len(s) \in Nat /\ (s = << >> <=> Len(s) = 0)
  BY EmptySeq, LenProperties

(* Fragments a + 1 .. b behind the fragments 1 .. a. *)
LEMMA Slice ==
    ASSUME NEW a \in Nat, NEW b \in Nat, a <= b, b <= 2 * Requests,
           NEW s \in Seq(Fragments), s = [i \in 1..a |-> i]
    PROVE  /\ [i \in 1..(b - a) |-> a + i] \in Seq(Fragments)
           /\ s \o [i \in 1..(b - a) |-> a + i] = [i \in 1..b |-> i]
  <1> USE RequestsAssumption
  <1> DEFINE t == [i \in 1..(b - a) |-> a + i]
             u == [i \in 1..b |-> i]
  <1>1. b - a \in Nat /\ \A i \in 1..(b - a) : a + i \in Fragments
    BY DEF Fragments
  <1>2. t \in Seq(Fragments) /\ Len(t) = b - a
    BY <1>1
  <1>3. \A i \in 1..b : i \in Fragments
    BY DEF Fragments
  <1>4. u \in Seq(Fragments) /\ Len(u) = b
    BY <1>3
  <1>5. Len(s) = a
    OBVIOUS
  <1>6. \A i \in 1..a : s[i] = i
    OBVIOUS
  <1>7. \A i \in 1..(b - a) : t[i] = a + i
    OBVIOUS
  <1>8. \A i \in 1..b : u[i] = i
    OBVIOUS
  <1> HIDE DEF t, u
  <1>9. /\ s \o t \in Seq(Fragments) /\ Len(s \o t) = b
        /\ \A i \in 1..b : (s \o t)[i] = IF i <= a THEN s[i] ELSE t[i - a]
    BY <1>2, <1>5, ConcatProperties
  <1>10. \A i \in 1..b : (s \o t)[i] = u[i]
    BY <1>6, <1>7, <1>8, <1>9
  <1>11. s \o t = u
    BY <1>4, <1>9, <1>10, SeqEqual
  <1> QED
    BY <1>2, <1>11 DEF t, u
-----------------------------------------------------------------------------
(* The fragments. *)

(* A step that takes nothing: the peer may send, and threads may move, but *)
(* the reader does not leave -appendData: with its chunk.                  *)
LEMMA ReadSame ==
    ASSUME ReadInv, UNCHANGED <<received, reader, chunk, consumed>>,
           arrived' \in arrived..(2 * Requests),
           DOMAIN pc' = Handlers,
           pc["reader"] = "append" => pc'["reader"] = "append"
    PROVE  ReadInv'
  <1>1. arrived' \in 0..(2 * Requests) /\ received' \in 0..arrived'
    BY RequestsAssumption DEF ReadInv
  <1>2. FragmentsInOrder'
    BY DEF ReadInv, FragmentsInOrder
  <1> QED
    BY <1>1, <1>2 DEF ReadInv

LEMMA ReceiveReads ==
    ASSUME ReadInv, Receive
    PROVE  ReadInv'
  <1>1. chunk = << >> /\ pc'["reader"] = "append" /\ DOMAIN pc' = Handlers
    BY DEF ReadInv, Receive, Goto, Handlers
  <1>2. received' = arrived /\ arrived' = arrived
    BY DEF Receive, peerVars
  <1>3. reader' = reader /\ consumed' = consumed
    BY DEF Receive, messageVars
  <1>4. received \in Nat /\ arrived \in Nat /\ received <= arrived /\ arrived <= 2 * Requests
    BY RequestsAssumption DEF ReadInv
  <1>5. consumed \o reader \in Seq(Fragments)
    BY ConcatProperties DEF ReadInv
  <1>6. consumed \o reader = [i \in 1..received |-> i]
    BY <1>1, <1>5, ConcatEmptySeq DEF ReadInv, FragmentsInOrder
  <1>7. chunk' = [i \in 1..(arrived - received) |-> received + i]
    BY DEF Receive
  <1> DEFINE s == consumed \o reader
  <1>8. s \in Seq(Fragments) /\ s = [i \in 1..received |-> i]
    BY <1>5, <1>6
  <1> HIDE DEF s
  <1>9. chunk' \in Seq(Fragments) /\ s \o chunk' = [i \in 1..arrived |-> i]
    BY <1>4, <1>7, <1>8, Slice
  <1>10. FragmentsInOrder'
    BY <1>2, <1>3, <1>9 DEF FragmentsInOrder, s
  <1> QED
    BY <1>1, <1>2, <1>3, <1>4, <1>9, <1>10 DEF ReadInv

LEMMA AppendReads ==
    ASSUME ReadInv, AppendChunk
    PROVE  ReadInv'
  <1>1. /\ reader' = reader \o chunk /\ chunk' = << >> /\ consumed' = consumed
        /\ arrived' = arrived /\ received' = received
    BY DEF AppendChunk, messageVars, peerVars
  <1>2. DOMAIN pc' = Handlers
    BY DEF ReadInv, AppendChunk, Goto
  <1>3. consumed \in Seq(Fragments) /\ reader \in Seq(Fragments) /\ chunk \in Seq(Fragments)
    BY DEF ReadInv
  <1>4. reader' \in Seq(Fragments) /\ chunk' \in Seq(Fragments)
    BY <1>1, <1>3, ConcatProperties, EmptySeq
  <1>5. consumed \o reader' = (consumed \o reader) \o chunk
    BY <1>1, <1>3, ConcatAssociative, SMTT(20)
  <1>6. consumed \o reader' \in Seq(Fragments)
    BY <1>3, <1>4, ConcatProperties
  <1>7. (consumed \o reader') \o << >> = consumed \o reader'
    BY <1>6, ConcatEmptySeq
  <1>8. FragmentsInOrder'
    BY <1>1, <1>5, <1>7 DEF ReadInv, FragmentsInOrder
  <1> QED
    BY <1>1, <1>2, <1>4, <1>8 DEF ReadInv

LEMMA BytesRead ==
    ASSUME ReadInv, NEW t \in Handlers, ReadBytes(t)
    PROVE  ReadInv'
  <1>1. /\ reader' = << >> /\ chunk' = chunk /\ consumed' = consumed \o reader
        /\ arrived' = arrived /\ received' = received
    BY DEF ReadBytes, peerVars
  <1>2. DOMAIN pc' = Handlers /\ (pc["reader"] = "append" => pc'["reader"] = "append")
    BY DEF ReadInv, ReadBytes, Goto, Handlers
  <1>3. consumed \in Seq(Fragments) /\ reader \in Seq(Fragments)
    BY DEF ReadInv
  <1>4. consumed' \in Seq(Fragments) /\ reader' \in Seq(Fragments)
    BY <1>1, <1>3, ConcatProperties, EmptySeq
  <1>5. consumed' \o reader' = consumed \o reader
    BY <1>1, <1>4, ConcatEmptySeq
  <1>6. FragmentsInOrder'
    BY <1>1, <1>5 DEF ReadInv, FragmentsInOrder
  <1> QED
    BY <1>1, <1>2, <1>4, <1>6 DEF ReadInv

(* The other steps of the handler, and those of the reader before it. *)
LEMMA MoveReads ==
    ASSUME ReadInv, UNCHANGED <<peerVars, received, reader, chunk, consumed>>,
           NEW t \in Handlers, NEW to, pc[t] # "append",
           pc' = [pc EXCEPT ![t] = to]
    PROVE  ReadInv'
  <1>1. DOMAIN pc' = Handlers /\ (pc["reader"] = "append" => pc'["reader"] = "append")
    BY DEF ReadInv, Handlers
  <1>2. arrived' \in arrived..(2 * Requests)
    BY RequestsAssumption DEF ReadInv, peerVars
  <1> QED
    BY <1>1, <1>2, ReadSame

LEMMA HandlerReads ==
    ASSUME ReadInv, NEW t \in Handlers, HandlerStep(t)
    PROVE  ReadInv'
  <1>1. CASE TakeMessage(t)
    BY <1>1, MoveReads DEF TakeMessage, Goto
  <1>2. CASE ReadNothing(t)
    BY <1>2, MoveReads DEF ReadNothing, Return
  <1>3. CASE ReadBytes(t)
    BY <1>3, BytesRead
  <1>4. CASE KeepMessage(t)
    BY <1>4, MoveReads DEF KeepMessage, Return
  <1>5. CASE AddOperation(t)
    BY <1>5, MoveReads DEF AddOperation, Return
  <1>6. CASE NoOperation(t)
    BY <1>6, MoveReads DEF NoOperation, Return
  <1>7. CASE BytesRefused(t)
    BY <1>7, MoveReads DEF BytesRefused, Return
  <1> QED
    BY <1>1, <1>2, <1>3, <1>4, <1>5, <1>6, <1>7 DEF HandlerStep

LEMMA ThreadReads ==
    ASSUME ReadInv, ReaderStep \/ SetterStep
    PROVE  ReadInv'
  <1>0. "reader" \in Handlers /\ "setter" \in Handlers
    BY DEF Handlers
  <1>1. CASE TestHandler
    BY <1>0, <1>1, MoveReads DEF TestHandler, Goto, messageVars
  <1>2. CASE CallHandler
    <2>1. PICK to : pc' = [pc EXCEPT !["reader"] = to] /\ pc["reader"] = "call"
      BY <1>2 DEF CallHandler, Goto
    <2> QED
      BY <1>0, <1>2, <2>1, MoveReads DEF CallHandler, messageVars
  <1>3. CASE EndOfStream
    BY <1>0, <1>3, MoveReads DEF EndOfStream, Goto, messageVars
  <1>4. CASE TestAtEOF
    BY <1>0, <1>4, MoveReads DEF TestAtEOF, Goto, messageVars
  <1>5. CASE CallAtEOF
    BY <1>0, <1>5, MoveReads DEF CallAtEOF, Goto, messageVars
  <1>6. CASE SetHandler
    BY <1>0, <1>6, MoveReads DEF SetHandler, Goto, messageVars
  <1>7. CASE DeliverEarlyData
    BY <1>0, <1>7, MoveReads DEF DeliverEarlyData, Goto, messageVars
  <1> QED
    BY <1>0, <1>1, <1>2, <1>3, <1>4, <1>5, <1>6, <1>7, ReceiveReads, AppendReads,
       HandlerReads DEF ReaderStep, SetterStep

(* Nobody else touches what was read. *)
OtherStep ==
    \/ PeerSends \/ PeerCloses \/ QueueStep \/ MainStep
    \/ RunIdleBlock \/ RunRootBlock \/ CallSetRoot \/ RootStep \/ ServerStops

LEMMA OthersRead ==
    ASSUME ReadInv, OtherStep \/ UNCHANGED vars
    PROVE  ReadInv'
  <1>1. UNCHANGED readVars /\ UNCHANGED messageVars
    <2>1. CASE PeerSends \/ PeerCloses
      BY <2>1 DEF PeerSends, PeerCloses
    <2>2. CASE QueueStep
      BY <2>2 DEF QueueStep, StartOperation, SkipCancelled, Respond, RespondForEver, Dequeue
    <2>3. CASE MainStep
      BY <2>3 DEF MainStep, TimerFires, CheckIdle, IdleClose
    <2>4. CASE RunIdleBlock \/ RunRootBlock \/ ServerStops
      BY <2>4 DEF RunIdleBlock, RunRootBlock, ServerStops
    <2>5. CASE CallSetRoot \/ RootStep
      BY <2>5 DEF CallSetRoot, RootStep, SetRootNow, DeferSetRoot
    <2>6. CASE UNCHANGED vars
      BY <2>6 DEF vars
    <2> QED
      BY <2>1, <2>2, <2>3, <2>4, <2>5, <2>6 DEF OtherStep
  <1>2. arrived' \in arrived..(2 * Requests)
    <2>1. CASE PeerSends
      BY <2>1, RequestsAssumption DEF PeerSends, ReadInv
    <2>2. CASE UNCHANGED arrived
      BY <2>2, RequestsAssumption DEF ReadInv
    <2>3. PeerSends \/ UNCHANGED arrived
      <3>1. CASE PeerCloses
        BY <3>1 DEF PeerCloses
      <3>2. CASE QueueStep
        BY <3>2 DEF QueueStep, StartOperation, SkipCancelled, Respond, RespondForEver, Dequeue, peerVars
      <3>3. CASE MainStep
        BY <3>3 DEF MainStep, TimerFires, CheckIdle, IdleClose, peerVars
      <3>4. CASE RunIdleBlock \/ RunRootBlock \/ ServerStops
        BY <3>4 DEF RunIdleBlock, RunRootBlock, ServerStops, peerVars
      <3>5. CASE CallSetRoot \/ RootStep
        BY <3>5 DEF CallSetRoot, RootStep, SetRootNow, DeferSetRoot, peerVars
      <3>6. CASE UNCHANGED vars
        BY <3>6 DEF vars, peerVars
      <3> QED
        BY <3>1, <3>2, <3>3, <3>4, <3>5, <3>6 DEF OtherStep
    <2> QED
      BY <2>1, <2>2, <2>3
  <1>3. DOMAIN pc' = Handlers /\ pc' = pc
    BY <1>1 DEF readVars, ReadInv
  <1> QED
    BY <1>1, <1>2, <1>3, ReadSame DEF readVars, messageVars

LEMMA StepReads == ReadInv /\ [Next]_vars => ReadInv'
  BY ThreadReads, OthersRead DEF Next, OtherStep
-----------------------------------------------------------------------------
(* The messages. *)

LEMMA HandlerMessages ==
    ASSUME ReadInv, MessageTypes, NEW t \in Handlers, HandlerStep(t)
    PROVE  MessageTypes'
  <1>0. << >> \in Seq(Fragments)
    BY EmptySeq
  <1>1. CASE TakeMessage(t)
    BY <1>1 DEF TakeMessage, MessageTypes
  <1>2. CASE ReadNothing(t)
    BY <1>0, <1>2 DEF ReadNothing, Return, MessageTypes
  <1>3. CASE ReadBytes(t)
    <2>1. msg[t] \o reader \in Seq(Fragments)
      BY ConcatProperties DEF ReadInv, MessageTypes
    <2> QED
      BY <1>3, <2>1 DEF ReadBytes, MessageTypes
  <1>4. CASE KeepMessage(t)
    BY <1>0, <1>4 DEF KeepMessage, Return, MessageTypes
  <1>5. CASE AddOperation(t)
    BY <1>0, <1>5 DEF AddOperation, ForgetMessage, Return, MessageTypes
  <1>6. CASE NoOperation(t)
    BY <1>0, <1>6 DEF NoOperation, ForgetMessage, Return, MessageTypes
  <1>7. CASE BytesRefused(t)
    BY <1>0, <1>7 DEF BytesRefused, Return, MessageTypes
  <1> QED
    BY <1>1, <1>2, <1>3, <1>4, <1>5, <1>6, <1>7 DEF HandlerStep

LEMMA StepMessages == ReadInv /\ MessageTypes /\ [Next]_vars => MessageTypes'
  <1> SUFFICES ASSUME ReadInv, MessageTypes, [Next]_vars PROVE MessageTypes'
    OBVIOUS
  <1>1. CASE \E t \in Handlers : HandlerStep(t)
    BY <1>1, HandlerMessages
  <1>2. CASE UNCHANGED messageVars
    BY <1>2 DEF messageVars, MessageTypes
  <1>3. UNCHANGED messageVars \/ \E t \in Handlers : HandlerStep(t)
    <2>1. CASE PeerSends \/ PeerCloses
      BY <2>1 DEF PeerSends, PeerCloses
    <2>2. CASE ReaderStep
      BY <2>2 DEF ReaderStep, Handlers, Receive, AppendChunk, TestHandler, CallHandler,
                  EndOfStream, TestAtEOF, CallAtEOF
    <2>3. CASE SetterStep
      BY <2>3 DEF SetterStep, Handlers, SetHandler, DeliverEarlyData
    <2>4. CASE QueueStep
      BY <2>4 DEF QueueStep, StartOperation, SkipCancelled, Respond, RespondForEver, Dequeue
    <2>5. CASE MainStep
      BY <2>5 DEF MainStep, TimerFires, CheckIdle, IdleClose
    <2>6. CASE RunIdleBlock \/ RunRootBlock \/ ServerStops
      BY <2>6 DEF RunIdleBlock, RunRootBlock, ServerStops
    <2>7. CASE CallSetRoot \/ RootStep
      BY <2>7 DEF CallSetRoot, RootStep, SetRootNow, DeferSetRoot
    <2>8. CASE UNCHANGED vars
      BY <2>8 DEF vars
    <2> QED
      BY <2>1, <2>2, <2>3, <2>4, <2>5, <2>6, <2>7, <2>8 DEF Next
  <1> QED
    BY <1>1, <1>2, <1>3
-----------------------------------------------------------------------------
(* The queue. *)

LEMMA CancelledShape ==
    ASSUME NEW q \in Seq(Operations)
    PROVE  /\ Cancelled(q) \in Seq(Operations)
           /\ Len(Cancelled(q)) = Len(q)
           /\ \A i \in 1..Len(q) : Cancelled(q)[i].block = q[i].block
  <1>1. Len(q) \in Nat /\ DOMAIN q = 1..Len(q)
    BY LenProperties
  <1>2. \A i \in 1..Len(q) : q[i] \in Operations
    BY ElementOfSeq
  <1>3. \A i \in 1..Len(q) :
            /\ [q[i] EXCEPT !.cancelled = TRUE] \in Operations
            /\ [q[i] EXCEPT !.cancelled = TRUE].block = q[i].block
    BY <1>2 DEF Operations
  <1>4. Cancelled(q) = [i \in 1..Len(q) |-> [q[i] EXCEPT !.cancelled = TRUE]]
    BY <1>1 DEF Cancelled
  <1>5. Cancelled(q) \in Seq(Operations) /\ Len(Cancelled(q)) = Len(q)
    BY <1>1, <1>3, <1>4
  <1> QED
    BY <1>3, <1>4, <1>5

(* The queue keeps its shape: whether operations are cancelled, or whether *)
(* the timer is disarmed, is nothing the counts depend on.                 *)
KeepsShape ==
    /\ ops' \in Seq(Operations)
    /\ Len(ops') = Len(ops)
    /\ \A i \in 1..Len(ops) : ops'[i].block = ops[i].block

LEMMA SameShape == QueueTypes /\ UNCHANGED ops => KeepsShape
  BY DEF QueueTypes, KeepsShape

LEMMA CloseShape == QueueTypes /\ Close => KeepsShape
  BY CancelledShape DEF QueueTypes, KeepsShape, Close

LEMMA ShapeCounts ==
    ASSUME CountInv, KeepsShape,
           UNCHANGED <<opState, added, finished, rootBlocks, rootCaller, barrier>>,
           timer' = "armed" => timer = "armed" \/ Len(ops) = 0
    PROVE  CountInv'
  <1>1. QueueTypes'
    BY DEF CountInv, QueueTypes, KeepsShape
  <1>2. QueueInv'
    BY DEF CountInv, QueueInv, KeepsShape
  <1>3. RootInv'
    BY DEF CountInv, RootInv, KeepsShape
  <1> QED
    BY <1>1, <1>2, <1>3 DEF CountInv

LEMMA RequestInRange ==
    ASSUME NEW m \in Seq(Fragments), HeaderComplete(m)
    PROVE  RequestIn(m) \in 1..Requests
  <1>1. Len(m) \in Nat /\ Len(m) > 0
    BY LenProperties DEF HeaderComplete
  <1>2. m[1] \in Fragments
    BY <1>1, ElementOfSeq
  <1> QED
    BY <1>2, RequestsAssumption DEF RequestIn, RequestOf, Fragments

(* A new operation is the last one, and drops an armed timer. *)
LEMMA AddCounts ==
    ASSUME MessageTypes, CountInv, added \in Seq(1..Requests),
           NEW t \in Handlers, AddOperation(t)
    PROVE  CountInv' /\ added' \in Seq(1..Requests)
  <1> DEFINE op == [request |-> RequestIn(msg[t]), block |-> "idle", cancelled |-> FALSE]
  <1>1. /\ ops' = Append(ops, op) /\ added' = Append(added, RequestIn(msg[t]))
        /\ timer' # "armed"
        /\ UNCHANGED <<opState, finished, rootBlocks, rootCaller, barrier>>
    BY DEF AddOperation, blockVars, rootVars
  <1>2. msg[t] \in Seq(Fragments) /\ HeaderComplete(msg[t])
    BY DEF MessageTypes, AddOperation
  <1>3. RequestIn(msg[t]) \in 1..Requests
    BY <1>2, RequestInRange
  <1>4. op \in Operations /\ op.block = "idle"
    BY <1>3 DEF Operations
  <1>5. added' \in Seq(1..Requests) /\ Len(added') = Len(added) + 1
    BY <1>1, <1>3, AppendProperties
  <1> HIDE DEF op
  <1>6. ops \in Seq(Operations) /\ Len(ops) \in Nat
    BY LenProperties DEF CountInv, QueueTypes
  <1>7. /\ ops' \in Seq(Operations) /\ Len(ops') = Len(ops) + 1
        /\ \A i \in 1..Len(ops) : ops'[i] = ops[i]
        /\ ops'[Len(ops) + 1] = op
    BY <1>1, <1>4, <1>6, AppendProperties
  <1>8. QueueTypes'
    BY <1>1, <1>5, <1>7 DEF CountInv, QueueTypes
  <1>9. QueueInv'
    BY <1>1, <1>5, <1>6, <1>7 DEF CountInv, QueueInv, QueueTypes
  <1>10. RootInv'
    <2>1. \A i \in 1..Len(ops') : ops'[i].block = "root" =>
              i \in 1..Len(ops) /\ ops[i].block = "root"
      BY <1>4, <1>6, <1>7
    <2> QED
      BY <1>1, <1>5, <1>6, <1>7, <2>1 DEF CountInv, RootInv, QueueTypes
  <1> QED
    BY <1>5, <1>8, <1>9, <1>10 DEF CountInv

(* An operation finishes: if it has the block of the setter, everything    *)
(* the setter found has finished with it.                                  *)
LEMMA FinishCounts ==
    ASSUME CountInv, KeepsShape, Len(ops) > 0, opState # "finished", Finish,
           UNCHANGED <<added, timer, rootCaller, barrier>>
    PROVE  CountInv'
  <1>0. Len(ops) \in Nat /\ Head(ops) = ops[1]
    BY LenProperties DEF CountInv, QueueTypes
  <1>1. opState' = "finished" /\ finished' = finished + 1
    BY DEF Finish
  <1>2. finished' = Len(added) - Len(ops) + 1 /\ finished' \in Nat
    BY <1>0, <1>1 DEF CountInv, QueueInv, QueueTypes
  <1>3. rootBlocks' = IF ops[1].block = "idle" THEN rootBlocks ELSE rootBlocks + 1
    BY <1>0 DEF Finish
  <1>4. ops[1].block \in {"idle", "root"}
    <2>1. ops[1] \in Operations
      BY <1>0, ElementOfSeq DEF CountInv, QueueTypes
    <2> QED
      BY <2>1 DEF Operations
  <1>5. QueueTypes'
    BY <1>1, <1>2, <1>3 DEF CountInv, QueueTypes, KeepsShape
  <1>6. QueueInv'
    BY <1>0, <1>1, <1>2 DEF CountInv, QueueInv, QueueTypes, KeepsShape
  <1>7. ops[1].block = "root" => finished' >= barrier /\ rootCaller = "done"
    BY <1>0, <1>2 DEF CountInv, RootInv, QueueTypes
  <1>8. finished' >= finished
    BY <1>1 DEF CountInv, QueueTypes
  <1>9. /\ rootCaller # "done" => rootBlocks' = 0
        /\ rootBlocks' > 0 \/ rootCaller = "now" => finished' >= barrier
    <2>1. CASE ops[1].block = "idle"
      BY <1>2, <1>3, <1>8, <2>1 DEF CountInv, RootInv, QueueTypes
    <2>2. CASE ops[1].block = "root"
      BY <1>3, <1>7, <2>2
    <2> QED
      BY <1>4, <2>1, <2>2
  <1>10. RootInv'
    BY <1>0, <1>9 DEF CountInv, RootInv, KeepsShape
  <1> QED
    BY <1>5, <1>6, <1>10 DEF CountInv

LEMMA DequeueCounts ==
    ASSUME CountInv, Dequeue
    PROVE  CountInv'
  <1>1. /\ opState = "finished" /\ opState' = "waiting" /\ ops' = Tail(ops)
        /\ UNCHANGED <<added, finished, rootBlocks, rootCaller, barrier, timer>>
    BY DEF Dequeue, blockVars, rootVars, timerVars
  <1>2. ops \in Seq(Operations) /\ Len(ops) \in Nat /\ Len(ops) > 0 /\ timer # "armed"
    BY <1>1, LenProperties DEF CountInv, QueueTypes, QueueInv
  <1>3. ops # << >>
    BY <1>2, EmptyIsZero
  <1>4. /\ ops' \in Seq(Operations) /\ Len(ops') = Len(ops) - 1
        /\ \A i \in 1..Len(ops') : ops'[i] = ops[i + 1]
    BY <1>1, <1>2, <1>3, HeadTailProperties
  <1>5. QueueTypes'
    BY <1>1, <1>4 DEF CountInv, QueueTypes
  <1>6. QueueInv'
    BY <1>1, <1>2, <1>4 DEF CountInv, QueueInv, QueueTypes
  <1>7. RootInv'
    <2>1. \A i \in 1..Len(ops') : i + 1 \in 1..Len(ops) /\ ops'[i] = ops[i + 1]
      BY <1>2, <1>4
    <2>2. \A i \in 1..Len(ops') :
              ops'[i].block = "root" => Len(added) - Len(ops) + (i + 1) >= barrier
      BY <2>1 DEF CountInv, RootInv
    <2> QED
      BY <1>1, <1>2, <1>4, <2>1, <2>2 DEF CountInv, RootInv, QueueTypes
  <1> QED
    BY <1>5, <1>6, <1>7 DEF CountInv

LEMMA QueueCounts ==
    ASSUME CountInv, QueueStep
    PROVE  CountInv' /\ added' = added
  <1>0. ops \in Seq(Operations) /\ (ops = << >> <=> Len(ops) = 0) /\ Len(ops) \in Nat
    BY EmptyIsZero DEF CountInv, QueueTypes
  <1>1. CASE StartOperation
    <2>1. /\ opState = "waiting" /\ opState' = "running" /\ Len(ops) > 0 /\ ops' = ops
          /\ UNCHANGED <<added, finished, rootBlocks, rootCaller, barrier, timer>>
      BY <1>0, <1>1 DEF StartOperation, blockVars, rootVars, timerVars
    <2>2. QueueTypes' /\ QueueInv'
      BY <2>1 DEF CountInv, QueueTypes, QueueInv
    <2>3. RootInv'
      BY <2>1 DEF CountInv, RootInv
    <2> QED
      BY <2>1, <2>2, <2>3 DEF CountInv
  <1>2. CASE SkipCancelled
    <2>1. KeepsShape
      BY <1>2, SameShape DEF SkipCancelled, CountInv
    <2> QED
      BY <1>0, <1>2, <2>1, FinishCounts DEF SkipCancelled, rootVars, timerVars
  <1>3. CASE Respond
    <2>1. KeepsShape
      BY <1>3, SameShape, CloseShape DEF Respond, CountInv
    <2>2. Len(ops) > 0
      BY <1>0, <1>3 DEF Respond, CountInv, QueueInv
    <2> QED
      BY <1>3, <2>1, <2>2, FinishCounts DEF Respond, rootVars, timerVars
  <1>4. CASE Dequeue
    BY <1>4, DequeueCounts DEF Dequeue
  <1>5. CASE RespondForEver
    <2>1. /\ opState = "running" /\ opState' = "hung" /\ ops' = ops
          /\ UNCHANGED <<added, finished, rootBlocks, rootCaller, barrier, timer>>
      BY <1>5 DEF RespondForEver, blockVars, rootVars, timerVars
    <2>2. QueueTypes' /\ QueueInv'
      BY <2>1 DEF CountInv, QueueTypes, QueueInv
    <2>3. RootInv'
      BY <2>1 DEF CountInv, RootInv
    <2> QED
      BY <2>1, <2>2, <2>3 DEF CountInv
  <1> QED
    BY <1>1, <1>2, <1>3, <1>4, <1>5 DEF QueueStep

(* -setDocumentRoot: finds the queue empty, or leaves its block with the   *)
(* last operation: of all that were there, that one ends last.             *)
LEMMA CallSetRootCounts ==
    ASSUME CountInv, CallSetRoot
    PROVE  CountInv'
  <1>0. Len(ops) \in Nat /\ (ops = << >> <=> Len(ops) = 0)
    BY EmptyIsZero DEF CountInv, QueueTypes
  <1>1. /\ rootCaller = "idle" /\ barrier' = Len(added)
        /\ rootCaller' = IF ops # << >> THEN "defer" ELSE "now"
        /\ UNCHANGED <<ops, opState, added, finished, rootBlocks, timer>>
    BY DEF CallSetRoot, queueVars, blockVars, timerVars
  <1>2. QueueTypes' /\ QueueInv'
    BY <1>1 DEF CountInv, QueueTypes, QueueInv
  <1>3. rootCaller' = "now" => finished >= Len(added)
    BY <1>0, <1>1 DEF CountInv, QueueInv, QueueTypes
  <1>4. RootInv'
    BY <1>1, <1>3 DEF CountInv, RootInv, QueueTypes
  <1> QED
    BY <1>2, <1>4 DEF CountInv

LEMMA DeferCounts ==
    ASSUME CountInv, DeferSetRoot
    PROVE  CountInv'
  <1>0. ops \in Seq(Operations) /\ Len(ops) \in Nat /\ (ops = << >> <=> Len(ops) = 0)
    BY EmptyIsZero DEF CountInv, QueueTypes
  <1>1. /\ rootCaller' = "done" /\ rootCaller = "defer"
        /\ UNCHANGED <<opState, added, finished, rootBlocks, barrier, timer>>
    BY DEF DeferSetRoot, blockVars, timerVars
  <1>2. CASE ops = << >>
    <2>1. ops' = ops
      BY <1>2 DEF DeferSetRoot
    <2>2. QueueTypes' /\ QueueInv'
      BY <1>1, <2>1 DEF CountInv, QueueTypes, QueueInv
    <2>3. RootInv'
      BY <1>1, <2>1 DEF CountInv, RootInv
    <2> QED
      BY <2>2, <2>3 DEF CountInv
  <1>3. CASE ops # << >>
    <2> DEFINE n == Len(ops)
               last == [ops[n] EXCEPT !.block = "root"]
    <2>1. n \in 1..Len(ops)
      BY <1>0, <1>3
    <2>2. ops' = [ops EXCEPT ![n] = last]
      BY <1>3 DEF DeferSetRoot
    <2>3. ops[n] \in Operations
      BY <1>0, <2>1, ElementOfSeq
    <2>4. last \in Operations
      BY <2>3 DEF Operations
    <2> HIDE DEF last
    <2>5. /\ ops' \in Seq(Operations) /\ Len(ops') = Len(ops)
          /\ \A i \in 1..Len(ops) : i # n => ops'[i] = ops[i]
      BY <1>0, <2>1, <2>2, <2>4, ExceptSeq
    <2>6. QueueTypes'
      BY <1>1, <2>5 DEF CountInv, QueueTypes
    <2>7. QueueInv'
      BY <1>1, <2>5 DEF CountInv, QueueInv
    <2>8. RootInv'
      BY <1>0, <1>1, <2>5 DEF CountInv, RootInv, QueueTypes
    <2> QED
      BY <2>6, <2>7, <2>8 DEF CountInv
  <1> QED
    BY <1>2, <1>3

LEMMA RootCounts ==
    ASSUME CountInv, CallSetRoot \/ RootStep \/ RunRootBlock
    PROVE  CountInv'
  <1>1. CASE SetRootNow
    <2>1. /\ rootCaller = "now" /\ rootCaller' = "done"
          /\ UNCHANGED <<ops, opState, added, finished, rootBlocks, barrier, timer>>
      BY <1>1 DEF SetRootNow, queueVars, blockVars, timerVars
    <2>2. QueueTypes' /\ QueueInv'
      BY <2>1 DEF CountInv, QueueTypes, QueueInv
    <2>3. RootInv'
      BY <2>1 DEF CountInv, RootInv
    <2> QED
      BY <2>2, <2>3 DEF CountInv
  <1>2. CASE RunRootBlock
    <2>1. /\ rootBlocks > 0 /\ rootBlocks' = rootBlocks - 1
          /\ UNCHANGED <<ops, opState, added, finished, rootCaller, barrier, timer>>
      BY <1>2 DEF RunRootBlock, queueVars, timerVars
    <2>2. QueueTypes' /\ QueueInv'
      BY <2>1 DEF CountInv, QueueTypes, QueueInv
    <2>3. RootInv'
      BY <2>1 DEF CountInv, RootInv, QueueTypes
    <2> QED
      BY <2>2, <2>3 DEF CountInv
  <1> QED
    BY <1>1, <1>2, CallSetRootCounts, DeferCounts DEF RootStep
-----------------------------------------------------------------------------
(* The steps put together. *)

AddedType == added \in Seq(1..Requests)

LEMMA HandlerCounts ==
    ASSUME MessageTypes, CountInv, AddedType, NEW t \in Handlers, HandlerStep(t)
    PROVE  CountInv' /\ AddedType'
  <1>0. QueueTypes
    BY DEF CountInv
  <1>1. CASE AddOperation(t)
    BY <1>1, AddCounts DEF AddedType
  <1>2. CASE NoOperation(t)
    BY <1>0, <1>2, CloseShape, ShapeCounts
       DEF NoOperation, blockVars, rootVars, timerVars, AddedType
  <1>3. CASE TakeMessage(t) \/ ReadNothing(t) \/ ReadBytes(t) \/ KeepMessage(t)
                \/ BytesRefused(t)
    <2>1. UNCHANGED <<queueVars, blockVars, rootVars, timerVars>>
      BY <1>3 DEF TakeMessage, ReadNothing, ReadBytes, KeepMessage, BytesRefused
    <2> QED
      BY <1>0, <2>1, SameShape, ShapeCounts
         DEF queueVars, blockVars, rootVars, timerVars, AddedType
  <1> QED
    BY <1>1, <1>2, <1>3 DEF HandlerStep

LEMMA ThreadCounts ==
    ASSUME MessageTypes, CountInv, AddedType, ReaderStep \/ SetterStep
    PROVE  CountInv' /\ AddedType'
  <1>0. QueueTypes
    BY DEF CountInv
  <1>1. CASE CallAtEOF
    <2>1. KeepsShape
      BY <1>0, <1>1, SameShape, CloseShape DEF CallAtEOF
    <2> QED
      BY <1>1, <2>1, ShapeCounts DEF CallAtEOF, blockVars, rootVars, timerVars, AddedType
  <1>2. CASE Receive \/ AppendChunk \/ TestHandler \/ CallHandler
    <2>1. UNCHANGED <<queueVars, blockVars, rootVars, timerVars>>
      BY <1>2 DEF Receive, AppendChunk, TestHandler, CallHandler
    <2> QED
      BY <1>0, <2>1, SameShape, ShapeCounts
         DEF queueVars, blockVars, rootVars, timerVars, AddedType
  <1>3. CASE EndOfStream \/ TestAtEOF \/ SetHandler \/ DeliverEarlyData
    <2>1. UNCHANGED <<queueVars, blockVars, rootVars, timerVars>>
      BY <1>3 DEF EndOfStream, TestAtEOF, SetHandler, DeliverEarlyData
    <2> QED
      BY <1>0, <2>1, SameShape, ShapeCounts
         DEF queueVars, blockVars, rootVars, timerVars, AddedType
  <1>4. CASE \E t \in Handlers : HandlerStep(t)
    BY <1>4, HandlerCounts
  <1> QED
    BY <1>1, <1>2, <1>3, <1>4 DEF ReaderStep, SetterStep, Handlers

(* The timer is armed when there is nothing in the queue. *)
LEMMA TimerCounts ==
    ASSUME CountInv, AddedType, MainStep \/ RunIdleBlock \/ ServerStops
    PROVE  CountInv' /\ AddedType'
  <1>0. QueueTypes /\ (ops = << >> <=> Len(ops) = 0)
    BY EmptyIsZero DEF CountInv, QueueTypes
  <1>1. CASE TimerFires
    BY <1>0, <1>1, SameShape, ShapeCounts
       DEF TimerFires, queueVars, blockVars, rootVars, AddedType
  <1>2. CASE CheckIdle
    <2>1. timer' = "armed" => timer = "armed"
      BY <1>2 DEF CheckIdle, CallbackEnds
    <2> QED
      BY <1>0, <1>2, <2>1, SameShape, ShapeCounts
         DEF CheckIdle, queueVars, blockVars, rootVars, AddedType
  <1>3. CASE IdleClose
    <2>1. timer' = "armed" => timer = "armed"
      BY <1>3 DEF IdleClose, CallbackEnds
    <2> QED
      BY <1>0, <1>3, <2>1, CloseShape, ShapeCounts
         DEF IdleClose, blockVars, rootVars, AddedType
  <1>4. CASE RunIdleBlock
    BY <1>0, <1>4, SameShape, ShapeCounts
       DEF RunIdleBlock, queueVars, rootVars, AddedType
  <1>5. CASE ServerStops
    BY <1>0, <1>5, CloseShape, ShapeCounts
       DEF ServerStops, blockVars, rootVars, timerVars, AddedType
  <1> QED
    BY <1>1, <1>2, <1>3, <1>4, <1>5 DEF MainStep

Inv == IInv /\ AddedType

LEMMA InitInv == Init => Inv
  <1> SUFFICES ASSUME Init PROVE Inv
    OBVIOUS
  <1>0. << >> \in Seq(Fragments) /\ << >> \in Seq(Operations) /\ << >> \in Seq(1..Requests)
    BY EmptySeq
  <1>1. Len(<< >>) = 0
    OBVIOUS
  <1>2. FragmentsInOrder
    <2>1. (<< >> \o << >>) \o << >> = << >>
      BY <1>0, ConcatEmptySeq
    <2>2. [i \in 1..0 |-> i] = << >>
      OBVIOUS
    <2> QED
      BY <2>1, <2>2 DEF Init, FragmentsInOrder
  <1>3. ReadInv
    BY <1>0, <1>2, RequestsAssumption DEF Init, ReadInv, Handlers
  <1>4. MessageTypes
    BY <1>0 DEF Init, MessageTypes
  <1>5. QueueTypes /\ QueueInv /\ RootInv
    BY <1>0, <1>1 DEF Init, QueueTypes, QueueInv, RootInv
  <1> QED
    BY <1>0, <1>3, <1>4, <1>5 DEF Init, Inv, IInv, CountInv, AddedType

LEMMA StepInv == Inv /\ [Next]_vars => Inv'
  <1> SUFFICES ASSUME Inv, [Next]_vars PROVE Inv'
    OBVIOUS
  <1>0. ReadInv /\ MessageTypes /\ CountInv /\ AddedType /\ QueueTypes
    BY DEF Inv, IInv, CountInv
  <1>1. ReadInv' /\ MessageTypes'
    BY <1>0, StepReads, StepMessages
  <1>2. CountInv' /\ AddedType'
    <2>1. CASE PeerSends \/ PeerCloses \/ UNCHANGED vars
      <3>1. UNCHANGED <<queueVars, blockVars, rootVars, timerVars>>
        BY <2>1 DEF PeerSends, PeerCloses, vars
      <3> QED
        BY <1>0, <3>1, SameShape, ShapeCounts
           DEF queueVars, blockVars, rootVars, timerVars, AddedType
    <2>2. CASE QueueStep
      BY <1>0, <2>2, QueueCounts DEF AddedType
    <2>3. CASE CallSetRoot \/ RootStep \/ RunRootBlock
      <3>1. UNCHANGED added
        BY <2>3 DEF CallSetRoot, RootStep, SetRootNow, DeferSetRoot, RunRootBlock, queueVars
      <3> QED
        BY <1>0, <2>3, <3>1, RootCounts DEF AddedType
    <2> QED
      BY <1>0, <2>1, <2>2, <2>3, ThreadCounts, TimerCounts DEF Next
  <1> QED
    BY <1>1, <1>2 DEF Inv, IInv

LEMMA SpecInv == Spec => []Inv
  BY InitInv, StepInv, PTL DEF Spec

(* The two threads in _handleIncomingData: neither lose, nor repeat, nor   *)
(* reorder what was received, however many requests there are.             *)
THEOREM SpecFragmentsInOrder == Spec => []FragmentsInOrder
  <1>1. Inv => FragmentsInOrder
    BY DEF Inv, IInv, ReadInv
  <1> QED
    BY <1>1, SpecInv, PTL

(* No timer is armed while an operation is in the queue: the lock of       *)
(* _maybeInstallIdleTimer and of the handler is held around both.          *)
THEOREM SpecArmedMeansIdle == Spec => []ArmedMeansIdle
  <1>1. Inv => ArmedMeansIdle
    BY EmptyIsZero DEF Inv, IInv, CountInv, QueueTypes, QueueInv, ArmedMeansIdle
  <1> QED
    BY <1>1, SpecInv, PTL

(* -setDocumentRoot: takes effect when everything it found in the queue    *)
(* has finished, whether operations are added or cancelled meanwhile.      *)
THEOREM SpecRootWaits == Spec => RootWaits
  <1>1. Inv /\ [Next]_vars => [rootChanged' # rootChanged => finished >= barrier]_vars
    <2> SUFFICES ASSUME Inv, [Next]_vars, rootChanged' # rootChanged
                 PROVE  finished >= barrier
      OBVIOUS
    <2>1. SetRootNow \/ RunRootBlock
      <3>1. CASE PeerSends \/ PeerCloses
        BY <3>1 DEF PeerSends, PeerCloses, rootVars
      <3>2. CASE ReaderStep
        BY <3>2 DEF ReaderStep, Receive, AppendChunk, TestHandler, CallHandler, EndOfStream,
                    TestAtEOF, CallAtEOF, HandlerStep, TakeMessage, ReadNothing, ReadBytes,
                    KeepMessage, AddOperation, NoOperation, BytesRefused, rootVars
      <3>3. CASE SetterStep
        BY <3>3 DEF SetterStep, SetHandler, DeliverEarlyData, HandlerStep, TakeMessage,
                    ReadNothing, ReadBytes, KeepMessage, AddOperation, NoOperation,
                    BytesRefused, rootVars
      <3>4. CASE QueueStep
        BY <3>4 DEF QueueStep, StartOperation, SkipCancelled, Respond, RespondForEver, Dequeue, rootVars
      <3>5. CASE MainStep
        BY <3>5 DEF MainStep, TimerFires, CheckIdle, IdleClose, rootVars
      <3>6. CASE RunIdleBlock \/ ServerStops
        BY <3>6 DEF RunIdleBlock, ServerStops, rootVars
      <3>7. CASE CallSetRoot \/ DeferSetRoot
        BY <3>7 DEF CallSetRoot, DeferSetRoot
      <3>8. CASE UNCHANGED vars
        BY <3>8 DEF vars, rootVars
      <3> QED
        BY <3>1, <3>2, <3>3, <3>4, <3>5, <3>6, <3>7, <3>8 DEF Next, RootStep
    <2>2. rootBlocks > 0 \/ rootCaller = "now"
      BY <2>1 DEF SetRootNow, RunRootBlock
    <2> QED
      BY <2>2 DEF Inv, IInv, CountInv, RootInv
  <1> QED
    BY <1>1, SpecInv, PTL DEF Spec, RootWaits
-----------------------------------------------------------------------------
(* The order of the operations.                                            *)
(*                                                                         *)
(* Who has read leaves nothing for the other thread, and the reader cannot *)
(* be filled again before it is done: the reader's thread is busy, or the  *)
(* setter is in the critical section. So one thread dispatches at a time,  *)
(* and _incomingMessage is its message or none.                            *)

InHandler(t) == pc[t] \in {"take", "read", "dispatch"}

HandInv ==
    /\ fresh \in [Handlers -> BOOLEAN]
    /\ section = "setter" <=> InHandler("setter")
    /\ ~(pc["reader"] = "dispatch" /\ pc["setter"] = "dispatch")
    /\ \A t \in Handlers :
           pc[t] = "dispatch" =>
               reader = << >> /\ incoming = IF fresh[t] THEN << >> ELSE msg[t]
    /\ \A t \in Handlers :
           pc[t] = "read" /\ reader # << >> =>
               msg[t] = incoming /\ (fresh[t] <=> incoming = << >>)

(* A message that may still become a request begins with a fragment behind *)
(* those of every request that was added.                                  *)
Behind(m) ==
    m # << >> =>
        /\ m[1] <= Len(consumed)
        /\ \A i \in 1..Len(added) : 2 * added[i] - 1 < m[1]

OrderInv ==
    /\ OperationsInOrder
    /\ \A i \in 1..Len(added) : 2 * added[i] - 1 <= Len(consumed)
    /\ Behind(incoming)
    /\ \A t \in Handlers : pc[t] = "dispatch" => Behind(msg[t])

FullInv == Inv /\ HandInv /\ OrderInv

LEMMA NextFragment ==
    ASSUME ReadInv, reader # << >>
    PROVE  /\ Len(reader) \in Nat /\ Len(reader) > 0 /\ Len(consumed) \in Nat
           /\ reader[1] = Len(consumed) + 1
  <1> DEFINE n == Len(consumed) + 1
             both == consumed \o reader
  <1>1. consumed \in Seq(Fragments) /\ reader \in Seq(Fragments) /\ chunk \in Seq(Fragments)
    BY DEF ReadInv
  <1>2. /\ Len(reader) \in Nat /\ Len(reader) > 0
        /\ Len(consumed) \in Nat /\ Len(chunk) \in Nat
    BY <1>1, EmptyIsZero
  <1>3. /\ both \in Seq(Fragments) /\ Len(both) = Len(consumed) + Len(reader)
        /\ both[n] = reader[1]
    BY <1>1, <1>2, ConcatProperties
  <1> HIDE DEF both
  <1>4. /\ both \o chunk \in Seq(Fragments)
        /\ Len(both \o chunk) = Len(both) + Len(chunk)
        /\ (both \o chunk)[n] = both[n]
    <2>1. n \in 1..(Len(both) + Len(chunk)) /\ n <= Len(both)
      BY <1>2, <1>3
    <2> QED
      BY <1>1, <1>3, <2>1, ConcatProperties
  <1>5. both \o chunk = [i \in 1..received |-> i]
    BY DEF ReadInv, FragmentsInOrder, both
  <1>6. received \in Nat
    BY RequestsAssumption DEF ReadInv
  <1>7. Len(both \o chunk) = received
    BY <1>5, <1>6
  <1>8. n \in 1..received
    BY <1>2, <1>3, <1>4, <1>7
  <1>9. (both \o chunk)[n] = n
    BY <1>5, <1>8
  <1> QED
    BY <1>2, <1>3, <1>4, <1>9

(* A thread that moves outside the handler; the reader may enter it. *)
MovesOutside(t, to) ==
    /\ UNCHANGED <<reader, section, msg, fresh, incoming, consumed, added>>
    /\ ~InHandler(t) /\ pc' = [pc EXCEPT ![t] = to]
    /\ to \notin {"read", "dispatch"} /\ (t = "setter" => to # "take")

LEMMA HandSame ==
    ASSUME ReadInv, HandInv, OrderInv, NEW t \in Handlers, NEW to, MovesOutside(t, to)
    PROVE  HandInv' /\ OrderInv'
  <1> USE DEF MovesOutside
  <1>1. /\ \A s \in Handlers : pc'[s] \in {"read", "dispatch"} => pc'[s] = pc[s]
        /\ InHandler("setter")' <=> InHandler("setter")
    BY DEF ReadInv, InHandler, Handlers
  <1>2. HandInv'
    BY <1>1 DEF HandInv, Handlers
  <1>3. OrderInv'
    BY <1>1 DEF OrderInv, OperationsInOrder, Behind
  <1> QED
    BY <1>2, <1>3

LEMMA HandUntouched ==
    ASSUME HandInv, OrderInv,
           UNCHANGED <<reader, section, pc, msg, fresh, incoming, consumed, added>>
    PROVE  HandInv' /\ OrderInv'
  <1>1. HandInv'
    BY DEF HandInv, InHandler
  <1>2. OrderInv'
    BY DEF OrderInv, OperationsInOrder, Behind
  <1> QED
    BY <1>1, <1>2

(* The reader is filled while nobody is in the handler. *)
LEMMA AppendHand ==
    ASSUME ReadInv, HandInv, OrderInv, AppendChunk
    PROVE  HandInv' /\ OrderInv'
  <1>1. /\ section = "free" /\ pc["reader"] = "append"
        /\ UNCHANGED <<section, msg, fresh, incoming, consumed, added>>
        /\ pc' = [pc EXCEPT !["reader"] = "test"]
    BY DEF AppendChunk, Goto, messageVars, queueVars
  <1>2. \A s \in Handlers : ~InHandler(s) /\ ~InHandler(s)'
    BY <1>1 DEF ReadInv, HandInv, InHandler, Handlers
  <1>3. HandInv'
    BY <1>1, <1>2 DEF HandInv, InHandler, Handlers
  <1>4. OrderInv'
    BY <1>1, <1>2 DEF OrderInv, OperationsInOrder, Behind, InHandler
  <1> QED
    BY <1>3, <1>4

LEMMA EarlyHand ==
    ASSUME ReadInv, HandInv, OrderInv, DeliverEarlyData
    PROVE  HandInv' /\ OrderInv'
  <1>1. /\ UNCHANGED <<reader, msg, fresh, incoming, consumed, added>>
        /\ pc["setter"] = "enter" /\ section = "free"
    BY DEF DeliverEarlyData, Goto, messageVars, queueVars
  <1>2. \/ pc' = [pc EXCEPT !["setter"] = "take"] /\ section' = "setter"
        \/ pc' = [pc EXCEPT !["setter"] = "done"] /\ section' = "free"
    BY DEF DeliverEarlyData, Goto
  <1>3. /\ \A s \in Handlers : pc'[s] \in {"read", "dispatch"} => pc'[s] = pc[s]
        /\ section' = "setter" <=> InHandler("setter")'
    BY <1>2 DEF ReadInv, InHandler, Handlers
  <1>4. HandInv'
    BY <1>1, <1>3 DEF HandInv, Handlers
  <1>5. OrderInv'
    BY <1>1, <1>3 DEF OrderInv, OperationsInOrder, Behind
  <1> QED
    BY <1>4, <1>5

LEMMA TakeHand ==
    ASSUME ReadInv, MessageTypes, HandInv, OrderInv, NEW t \in Handlers, TakeMessage(t)
    PROVE  HandInv' /\ OrderInv'
  <1>1. /\ UNCHANGED <<reader, section, incoming, consumed, added>>
        /\ pc[t] = "take" /\ pc' = [pc EXCEPT ![t] = "read"]
        /\ msg' = [msg EXCEPT ![t] = incoming]
        /\ fresh' = [fresh EXCEPT ![t] = incoming = << >>]
    BY DEF TakeMessage, Goto, queueVars
  <1>2. /\ pc'[t] = "read" /\ msg'[t] = incoming /\ (fresh'[t] <=> incoming = << >>)
        /\ \A s \in Handlers \ {t} : pc'[s] = pc[s] /\ msg'[s] = msg[s] /\ fresh'[s] = fresh[s]
        /\ InHandler("setter")' <=> InHandler("setter")
        /\ fresh' \in [Handlers -> BOOLEAN]
    BY <1>1 DEF ReadInv, MessageTypes, HandInv, InHandler, Handlers
  <1>3. HandInv'
    BY <1>1, <1>2 DEF HandInv, Handlers
  <1>4. OrderInv'
    BY <1>1, <1>2 DEF OrderInv, OperationsInOrder, Behind
  <1> QED
    BY <1>3, <1>4

(* Who reads finds _incomingMessage as it took it. *)
LEMMA ReadHand ==
    ASSUME ReadInv, MessageTypes, HandInv, OrderInv, AddedType,
           NEW t \in Handlers, ReadBytes(t)
    PROVE  HandInv' /\ OrderInv'
  <1>1. /\ reader # << >> /\ pc[t] = "read"
        /\ UNCHANGED <<section, fresh, added>>
        /\ pc' = [pc EXCEPT ![t] = "dispatch"]
        /\ msg' = [msg EXCEPT ![t] = @ \o reader]
        /\ incoming' = IF fresh[t] \/ incoming = << >> THEN incoming ELSE msg[t] \o reader
        /\ consumed' = consumed \o reader
        /\ reader' = << >>
    BY DEF ReadBytes, Goto, queueVars
  <1>2. msg[t] = incoming /\ (fresh[t] <=> incoming = << >>)
    BY <1>1 DEF HandInv
  <1>3. \A s \in Handlers : pc[s] # "dispatch"
    BY <1>1 DEF HandInv
  <1>4. /\ pc'[t] = "dispatch" /\ msg'[t] = incoming \o reader
        /\ \A s \in Handlers \ {t} : pc'[s] # "dispatch"
        /\ InHandler("setter")' <=> InHandler("setter")
    BY <1>1, <1>2, <1>3 DEF ReadInv, MessageTypes, InHandler, Handlers
  <1>5. incoming' = IF fresh'[t] THEN << >> ELSE msg'[t]
    BY <1>1, <1>2, <1>4
  <1>6. HandInv'
    <2>1. ~(pc'["reader"] = "dispatch" /\ pc'["setter"] = "dispatch")
      BY <1>4 DEF Handlers
    <2>2. \A s \in Handlers :
              pc'[s] = "dispatch" =>
                  reader' = << >> /\ incoming' = IF fresh'[s] THEN << >> ELSE msg'[s]
      BY <1>1, <1>4, <1>5
    <2> QED
      BY <1>1, <1>4, <2>1, <2>2 DEF HandInv
  <1>7. /\ consumed \in Seq(Fragments) /\ reader \in Seq(Fragments)
        /\ incoming \in Seq(Fragments)
    BY DEF ReadInv, MessageTypes
  <1>8. /\ Len(reader) \in Nat /\ Len(reader) > 0 /\ Len(consumed) \in Nat
        /\ reader[1] = Len(consumed) + 1
    BY <1>1, NextFragment
  <1>9. Len(consumed') = Len(consumed) + Len(reader)
    BY <1>1, <1>7, ConcatProperties
  <1>10. \A i \in 1..Len(added) : added[i] \in 1..Requests
    BY ElementOfSeq DEF AddedType
  <1>11. Behind(msg[t])'
    <2>1. CASE incoming = << >>
      <3>1. incoming \o reader = reader
        BY <1>7, <2>1, ConcatEmptySeq
      <3>2. msg'[t][1] = Len(consumed) + 1
        BY <1>4, <1>8, <3>1
      <3> QED
        BY <1>1, <1>8, <1>9, <1>10, <3>2, RequestsAssumption DEF OrderInv, Behind
    <2>2. CASE incoming # << >>
      <3>1. Len(incoming) \in Nat /\ Len(incoming) > 0
        BY <1>7, <2>2, EmptyIsZero
      <3>2. (incoming \o reader)[1] = incoming[1]
        BY <1>7, <1>8, <3>1, ConcatProperties
      <3>3. incoming[1] \in Fragments
        BY <1>7, <3>1, ElementOfSeq
      <3>4. incoming[1] \in Nat
        BY <3>3, RequestsAssumption DEF Fragments
      <3> QED
        BY <1>1, <1>4, <1>8, <1>9, <2>2, <3>2, <3>4 DEF OrderInv, Behind
    <2> QED
      BY <2>1, <2>2
  <1>12. Behind(incoming)'
    BY <1>5, <1>11 DEF Behind
  <1>13. \A i \in 1..Len(added') : 2 * added'[i] - 1 <= Len(consumed')
    BY <1>1, <1>8, <1>9, <1>10, RequestsAssumption DEF OrderInv
  <1>14. OrderInv'
    <2>1. \A s \in Handlers : pc'[s] = "dispatch" => Behind(msg[s])'
      BY <1>4, <1>11
    <2> QED
      BY <1>1, <1>12, <1>13, <2>1 DEF OrderInv, OperationsInOrder
  <1> QED
    BY <1>6, <1>14

(* Whoever leaves the handler having set _incomingMessage was the only one *)
(* with a message to dispatch; who read nothing does not set it.           *)
LEMMA ReturnHand ==
    ASSUME ReadInv, MessageTypes, HandInv, OrderInv, NEW t \in Handlers, Return(t),
           InHandler(t),
           UNCHANGED <<reader, consumed>>,
           incoming' # incoming => pc[t] = "dispatch"
    PROVE  /\ HandInv'
           /\ \A s \in Handlers : pc'[s] = "dispatch" => msg'[s] = msg[s] /\ pc[s] = "dispatch"
           /\ pc[t] = "dispatch" => \A s \in Handlers : pc'[s] # "dispatch"
  <1>1. /\ msg' = [msg EXCEPT ![t] = << >>] /\ fresh' = [fresh EXCEPT ![t] = FALSE]
        /\ section' = IF section = t THEN "free" ELSE section
        /\ pc'[t] \in {"done", "idle"}
        /\ \A s \in Handlers \ {t} : pc'[s] = pc[s]
    BY DEF Return, ReadInv
  <1>2. /\ fresh' \in [Handlers -> BOOLEAN]
        /\ \A s \in Handlers \ {t} : msg'[s] = msg[s] /\ fresh'[s] = fresh[s]
    BY <1>1 DEF HandInv, MessageTypes
  <1>3. section' = "setter" <=> InHandler("setter")'
    <2>1. CASE t = "setter"
      BY <1>1, <2>1 DEF InHandler
    <2>2. CASE t = "reader"
      <3>1. pc'["setter"] = pc["setter"]
        BY <1>1, <2>2 DEF Handlers
      <3>2. section' = "setter" <=> section = "setter"
        BY <1>1, <2>2
      <3> QED
        BY <3>1, <3>2 DEF HandInv, InHandler
    <2> QED
      BY <2>1, <2>2 DEF Handlers
  <1>4. \A s \in Handlers :
            pc'[s] = "dispatch" => s # t /\ pc[s] = "dispatch" /\ pc[t] # "dispatch"
    BY <1>1 DEF HandInv, Handlers
  <1>5. \A s \in Handlers :
            pc'[s] = "dispatch" =>
                reader' = << >> /\ incoming' = IF fresh'[s] THEN << >> ELSE msg'[s]
    BY <1>2, <1>4 DEF HandInv
  <1>6. \A s \in Handlers :
            pc'[s] = "read" /\ reader' # << >> =>
                msg'[s] = incoming' /\ (fresh'[s] <=> incoming' = << >>)
    <2> SUFFICES ASSUME NEW s \in Handlers, pc'[s] = "read", reader' # << >>
                 PROVE  msg'[s] = incoming' /\ (fresh'[s] <=> incoming' = << >>)
      OBVIOUS
    <2>1. s # t /\ pc[s] = "read"
      BY <1>1
    <2>2. incoming' = incoming
      BY DEF HandInv
    <2> QED
      BY <1>2, <2>1, <2>2 DEF HandInv
  <1>7. HandInv'
    BY <1>2, <1>3, <1>4, <1>5, <1>6 DEF HandInv, Handlers
  <1> QED
    BY <1>2, <1>4, <1>7

(* A message that does not become an operation. *)
LEMMA DropHand ==
    ASSUME ReadInv, MessageTypes, HandInv, OrderInv, NEW t \in Handlers,
           ReadNothing(t) \/ KeepMessage(t) \/ NoOperation(t) \/ BytesRefused(t)
    PROVE  HandInv' /\ OrderInv'
  <1>1. /\ Return(t) /\ InHandler(t)
        /\ UNCHANGED <<reader, consumed, added>>
        /\ incoming' # incoming => pc[t] = "dispatch"
    BY DEF ReadNothing, KeepMessage, NoOperation, BytesRefused, ForgetMessage, InHandler,
           queueVars
  <1>2. incoming' \in {incoming, msg[t], << >>} /\ (incoming' = msg[t] /\ incoming' # incoming => pc[t] = "dispatch")
    BY <1>1 DEF ReadNothing, KeepMessage, NoOperation, BytesRefused, ForgetMessage
  <1>3. /\ HandInv'
        /\ \A s \in Handlers : pc'[s] = "dispatch" => msg'[s] = msg[s] /\ pc[s] = "dispatch"
    BY <1>1, ReturnHand
  <1>4. Behind(incoming)'
    BY <1>1, <1>2 DEF OrderInv, Behind
  <1>5. OrderInv'
    BY <1>1, <1>3, <1>4 DEF OrderInv, OperationsInOrder, Behind
  <1> QED
    BY <1>3, <1>5

LEMMA AddHand ==
    ASSUME ReadInv, MessageTypes, HandInv, OrderInv, AddedType,
           NEW t \in Handlers, AddOperation(t)
    PROVE  HandInv' /\ OrderInv'
  <1> DEFINE m == msg[t]
             r == RequestIn(m)
  <1>1. /\ Return(t) /\ InHandler(t) /\ pc[t] = "dispatch"
        /\ UNCHANGED <<reader, consumed>>
        /\ HeaderComplete(m) /\ WellFormed(m)
        /\ added' = Append(added, r)
        /\ incoming' = IF fresh[t] THEN incoming ELSE << >>
    BY DEF AddOperation, ForgetMessage, InHandler
  <1>2. HandInv' /\ \A s \in Handlers : pc'[s] # "dispatch"
    BY <1>1, ReturnHand
  <1>3. incoming' = << >>
    BY <1>1 DEF HandInv
  <1>4. m \in Seq(Fragments) /\ m # << >> /\ m[1] \in Fragments
    <2>1. m \in Seq(Fragments)
      BY DEF MessageTypes
    <2>2. Len(m) \in Nat /\ Len(m) > 0
      BY <1>1, <2>1, EmptyIsZero DEF HeaderComplete
    <2> QED
      BY <2>1, <2>2, EmptyIsZero, ElementOfSeq
  <1>5. r \in 1..Requests /\ 2 * r - 1 = m[1]
    <2>1. r \in 1..Requests
      BY <1>1, <1>4, RequestInRange
    <2>2. m[1] % 2 = 1 /\ m[1] \in Nat
      BY <1>1, <1>4, RequestsAssumption DEF WellFormed, Opens, Fragments
    <2> QED
      BY <2>1, <2>2 DEF RequestIn, RequestOf
  <1> HIDE DEF r
  <1>6. Behind(m)
    BY <1>1 DEF OrderInv
  <1>7. /\ Len(added) \in Nat /\ Len(added') = Len(added) + 1
        /\ \A i \in 1..Len(added) : added'[i] = added[i] /\ added[i] \in 1..Requests
        /\ added'[Len(added) + 1] = r
    <2>1. added \in Seq(1..Requests) /\ Len(added) \in Nat
      BY LenProperties DEF AddedType
    <2>2. /\ Len(added') = Len(added) + 1
          /\ \A i \in 1..Len(added) : added'[i] = added[i]
          /\ added'[Len(added) + 1] = r
      BY <1>1, <1>5, <2>1, AppendProperties
    <2>3. \A i \in 1..Len(added) : added[i] \in 1..Requests
      BY <2>1, ElementOfSeq
    <2> QED
      BY <2>1, <2>2, <2>3
  <1>8. \A i \in 1..Len(added) : added[i] < r
    BY <1>4, <1>5, <1>6, <1>7, RequestsAssumption DEF Behind
  <1>9. OperationsInOrder'
    <2> SUFFICES ASSUME NEW i \in 1..Len(added'), NEW j \in 1..Len(added'), i < j
                 PROVE  added'[i] < added'[j]
      BY DEF OperationsInOrder
    <2>1. CASE j = Len(added) + 1
      BY <1>7, <1>8, <2>1
    <2>2. CASE j # Len(added) + 1
      <3>1. i \in 1..Len(added) /\ j \in 1..Len(added)
        BY <1>7, <2>2
      <3> QED
        BY <1>7, <3>1 DEF OrderInv, OperationsInOrder
    <2> QED
      BY <2>1, <2>2
  <1>10. \A i \in 1..Len(added') : 2 * added'[i] - 1 <= Len(consumed')
    <2>1. 2 * r - 1 <= Len(consumed)
      BY <1>4, <1>5, <1>6 DEF Behind
    <2> QED
      BY <1>1, <1>7, <2>1 DEF OrderInv
  <1>11. OrderInv'
    BY <1>2, <1>3, <1>9, <1>10 DEF OrderInv, Behind
  <1> QED
    BY <1>2, <1>11

LEMMA HandlerHand ==
    ASSUME ReadInv, MessageTypes, HandInv, OrderInv, AddedType,
           NEW t \in Handlers, HandlerStep(t)
    PROVE  HandInv' /\ OrderInv'
  BY TakeHand, ReadHand, DropHand, AddHand DEF HandlerStep

LEMMA ThreadHand ==
    ASSUME ReadInv, MessageTypes, HandInv, OrderInv, AddedType, ReaderStep \/ SetterStep
    PROVE  HandInv' /\ OrderInv'
  <1>0. "reader" \in Handlers /\ "setter" \in Handlers
    BY DEF Handlers
  <1>1. CASE \E to : MovesOutside("reader", to) \/ MovesOutside("setter", to)
    BY <1>0, <1>1, HandSame
  <1>2. CASE Receive
    <2>1. MovesOutside("reader", "append")
      BY <1>2 DEF Receive, Goto, MovesOutside, InHandler, messageVars, queueVars
    <2> QED
      BY <1>1, <2>1
  <1>3. CASE TestHandler
    <2>1. PICK to \in {"call", "idle"} :
              pc["reader"] = "test" /\ pc' = [pc EXCEPT !["reader"] = to]
      BY <1>3 DEF TestHandler, Goto
    <2>2. MovesOutside("reader", to)
      BY <1>3, <2>1 DEF TestHandler, MovesOutside, InHandler, messageVars, queueVars
    <2> QED
      BY <1>1, <2>2
  <1>4. CASE CallHandler
    <2>1. PICK to \in {"take", "idle"} :
              pc["reader"] = "call" /\ pc' = [pc EXCEPT !["reader"] = to]
      BY <1>4 DEF CallHandler, Goto
    <2>2. MovesOutside("reader", to)
      BY <1>4, <2>1 DEF CallHandler, MovesOutside, InHandler, messageVars, queueVars
    <2> QED
      BY <1>1, <2>2
  <1>5. CASE EndOfStream
    <2>1. MovesOutside("reader", "eoftest")
      BY <1>5 DEF EndOfStream, Goto, MovesOutside, InHandler, messageVars, queueVars
    <2> QED
      BY <1>1, <2>1
  <1>6. CASE TestAtEOF
    <2>1. PICK to \in {"eofcall", "idle"} :
              pc["reader"] = "eoftest" /\ pc' = [pc EXCEPT !["reader"] = to]
      BY <1>6 DEF TestAtEOF, Goto
    <2>2. MovesOutside("reader", to)
      BY <1>6, <2>1 DEF TestAtEOF, MovesOutside, InHandler, messageVars, queueVars
    <2> QED
      BY <1>1, <2>2
  <1>7. CASE CallAtEOF
    <2>1. MovesOutside("reader", "idle")
      BY <1>7 DEF CallAtEOF, Goto, MovesOutside, InHandler, messageVars
    <2> QED
      BY <1>1, <2>1
  <1>8. CASE SetHandler
    <2>1. PICK to \in {"enter", "done"} :
              pc["setter"] = "delayed" /\ pc' = [pc EXCEPT !["setter"] = to]
      BY <1>8 DEF SetHandler, Goto
    <2>2. MovesOutside("setter", to)
      BY <1>8, <2>1 DEF SetHandler, MovesOutside, InHandler, messageVars, queueVars
    <2> QED
      BY <1>1, <2>2
  <1> QED
    BY <1>0, <1>2, <1>3, <1>4, <1>5, <1>6, <1>7, <1>8, AppendHand, EarlyHand, HandlerHand
       DEF ReaderStep, SetterStep

LEMMA OthersHand ==
    ASSUME HandInv, OrderInv, OtherStep \/ UNCHANGED vars
    PROVE  HandInv' /\ OrderInv'
  <1>1. UNCHANGED <<reader, section, pc, msg, fresh, incoming, consumed, added>>
    <2>1. CASE PeerSends \/ PeerCloses
      BY <2>1 DEF PeerSends, PeerCloses, readVars, messageVars, queueVars
    <2>2. CASE QueueStep
      BY <2>2 DEF QueueStep, StartOperation, SkipCancelled, Respond, RespondForEver, Dequeue, readVars,
                  messageVars
    <2>3. CASE MainStep
      BY <2>3 DEF MainStep, TimerFires, CheckIdle, IdleClose, readVars, messageVars, queueVars
    <2>4. CASE RunIdleBlock \/ RunRootBlock \/ ServerStops
      BY <2>4 DEF RunIdleBlock, RunRootBlock, ServerStops, readVars, messageVars, queueVars
    <2>5. CASE CallSetRoot \/ RootStep
      BY <2>5 DEF CallSetRoot, RootStep, SetRootNow, DeferSetRoot, readVars, messageVars,
                  queueVars
    <2>6. CASE UNCHANGED vars
      BY <2>6 DEF vars, readVars, messageVars, queueVars
    <2> QED
      BY <2>1, <2>2, <2>3, <2>4, <2>5, <2>6 DEF OtherStep
  <1> QED
    BY <1>1, HandUntouched

LEMMA InitHand == Init => HandInv /\ OrderInv
  <1> SUFFICES ASSUME Init PROVE HandInv /\ OrderInv
    OBVIOUS
  <1>1. added = << >> /\ Len(added) = 0 /\ incoming = << >>
    BY DEF Init
  <1>2. HandInv
    BY DEF Init, HandInv, InHandler, Handlers
  <1>3. OrderInv
    BY <1>1 DEF Init, OrderInv, OperationsInOrder, Behind, Handlers
  <1> QED
    BY <1>2, <1>3

LEMMA SpecFullInv == Spec => []FullInv
  <1>1. Init => FullInv
    BY InitInv, InitHand DEF FullInv
  <1>2. FullInv /\ [Next]_vars => FullInv'
    <2> SUFFICES ASSUME FullInv, [Next]_vars PROVE FullInv'
      OBVIOUS
    <2>1. Inv'
      BY StepInv DEF FullInv
    <2>2. ReadInv /\ MessageTypes /\ AddedType /\ HandInv /\ OrderInv
      BY DEF FullInv, Inv, IInv
    <2>3. HandInv' /\ OrderInv'
      BY <2>2, ThreadHand, OthersHand DEF Next, OtherStep
    <2> QED
      BY <2>1, <2>3 DEF FullInv
  <1> QED
    BY <1>1, <1>2, PTL DEF Spec

(* One operation at most is made of a request, in the order in which they  *)
(* were sent, although two threads make them (_handleIncomingData:).       *)
THEOREM SpecOperationsInOrder == Spec => []OperationsInOrder
  <1>1. FullInv => OperationsInOrder
    BY DEF FullInv, OrderInv
  <1> QED
    BY <1>1, SpecFullInv, PTL
=============================================================================
